---------------------------- MODULE SmtpServerProofs ---------------------------
(* The connection limits of the SMTP server hold for any number of          *)
(* connections and addresses and any limits.                                *)
(*                                                                          *)
(* LimitsHold is not inductive: that a swap never exceeds MaxConnections    *)
(* rests on the counter being the number of holders, and on the value seen  *)
(* by the goroutine that swaps being below the limit.  Inv adds both.       *)
(*                                                                          *)
(* The rate limit: AtMostTwiceTheRate needs to know what the window's       *)
(* counter has counted and how many were let in shortly before the window   *)
(* began.  WindowsAreCounted says both.                                     *)
(*                                                                          *)
(* Then, about the session that a connection with a slot gets (module       *)
(* SmtpSession): what is processed is what the client was told.  This holds *)
(* because the two sides stay in step through every command and every line  *)
(* of the text (StaysInStep), also where the session has given up on a text *)
(* and the client has not noticed yet.  (The names of SmtpSession that both *)
(* modules would have begin with its own.)                                  *)
(*                                                                          *)
(* At the end, about the text of a message (module Mime): every part of it  *)
(* is accounted for in what is stored.  The walks over the parts and the    *)
(* folds are recursive functions: of each it is shown that there is such a  *)
(* function, and then, by induction over the parts (or over the length of a *)
(* sequence), what its values are.                                          *)
EXTENDS SmtpServer, SmtpSession, FiniteSetTheorems, WellFoundedInduction,
        SequenceTheorems, TLAPS

(* A goroutine only tries to swap a value that it found below the limit.    *)
SeenBelowLimit ==
  \A c \in Conn : handler[c].pc = "swap" => handler[c].seen < MaxConnections

(* The counters themselves stay within the limits.                          *)
CountersBounded ==
  /\ activeConns <= MaxConnections
  /\ \A i \in IP : ipConnections[i] <= MaxConnectionsPerIP

Inv == TypeOK /\ CountersAreExact /\ SeenBelowLimit /\ LimitsHold

-------------------------------------------------------------------------------
(* Adding a connection to a set of connections counts one more, and taking  *)
(* one out counts one less.                                                 *)
LEMMA CountOne ==
  ASSUME NEW S \in SUBSET Conn, NEW T, NEW c
  PROVE  /\ Cardinality(S) \in Nat
         /\ c \notin S /\ T = S \cup {c} => Cardinality(T) = Cardinality(S) + 1
         /\ c \in S /\ T = S \ {c} =>
              /\ Cardinality(T) = Cardinality(S) - 1
              /\ Cardinality(S) > 0
<1>1. IsFiniteSet(S)
  BY SmtpServerAssumption, FS_Subset
<1>2. Cardinality(S) \in Nat
  BY <1>1, FS_CardinalityType
<1>3. ASSUME c \notin S, T = S \cup {c} PROVE Cardinality(T) = Cardinality(S) + 1
  BY <1>1, <1>3, FS_AddElement
<1>4. ASSUME c \in S, T = S \ {c}
      PROVE  Cardinality(T) = Cardinality(S) - 1 /\ Cardinality(S) > 0
  <2>1. IsFiniteSet(T) /\ Cardinality(T) = Cardinality(S) - 1
    BY <1>1, <1>4, FS_RemoveElement
  <2>2. Cardinality(T) \in Nat
    BY <2>1, FS_CardinalityType
  <2> QED BY <1>2, <2>1, <2>2
<1> QED BY <1>2, <1>3, <1>4

(* The server starts with every connection outside and all counters at 0.   *)
LEMMA InvInit == Init => Inv
<1> SUFFICES ASSUME Init PROVE Inv
  OBVIOUS
<1>1. TypeOK
  BY DEF Init, TypeOK, Stages, NoWindow
<1>2. InGroup = {} /\ Holders = {} /\ \A i \in IP : Sessions(i) = {}
  BY DEF Init, InGroup, Holders, Sessions
<1>3. CountersAreExact /\ LimitsHold
  <2>1. Cardinality({}) = 0
    BY FS_EmptySet
  <2>2. Cardinality(InGroup) = 0 /\ Cardinality(Holders) = 0
        /\ \A i \in IP : Cardinality(Sessions(i)) = 0
    BY <1>2, <2>1, Zenon
  <2>3. CountersAreExact
    BY <2>2 DEF Init, CountersAreExact
  <2>4. LimitsHold
    BY <2>2, SmtpServerAssumption DEF LimitsHold
  <2> QED BY <2>3, <2>4
<1>4. SeenBelowLimit
  BY DEF Init, SeenBelowLimit
<1> QED BY <1>1, <1>3, <1>4 DEF Inv

(* Every step preserves the type invariant.                                 *)
LEMMA TypeStep == Inv /\ [Next]_vars => TypeOK'
<1> SUFFICES ASSUME Inv, [Next]_vars PROVE TypeOK'
  OBVIOUS
<1> USE SmtpServerAssumption DEF Inv, TypeOK, Stages, server, limits, Goto, NoWindow
<1>1. ASSUME NEW c \in Conn, Accept(c) PROVE TypeOK'
  BY <1>1 DEF Accept
<1>2. ASSUME NEW c \in Conn, AddToGroup(c) PROVE TypeOK'
  BY <1>2 DEF AddToGroup
<1>3. ASSUME NEW c \in Conn, PassRateLimit(c) PROVE TypeOK'
  <2>1. handler' \in [Conn -> [pc : Stages, ip : IP, seen : Nat, admitted : Nat]]
    BY <1>3, ZenonT(40) DEF PassRateLimit
  <2>2. PICK w \in [count : Nat, resetTime : Nat] :
          ipRateLimit' = [ipRateLimit EXCEPT ![handler[c].ip] = w]
    <3> DEFINE entry == ipRateLimit[handler[c].ip]
               fresh == entry = NoWindow \/ now > entry.resetTime
    <3>1. [count |-> 1, resetTime |-> now + Minute] \in [count : Nat, resetTime : Nat]
      OBVIOUS
    <3>2. [entry EXCEPT !.count = @ + 1] \in [count : Nat, resetTime : Nat]
      OBVIOUS
    <3> QED BY <1>3, <3>1, <3>2 DEF PassRateLimit
  <2>3. ipRateLimit' \in [IP -> [count : Nat, resetTime : Nat]]
    BY <2>2
  <2> QED BY <1>3, <2>1, <2>3 DEF PassRateLimit
<1>4. ASSUME NEW c \in Conn, ExceedRateLimit(c) PROVE TypeOK'
  BY <1>4 DEF ExceedRateLimit
<1>5. ASSUME NEW c \in Conn, LoadActiveConns(c) PROVE TypeOK'
  <2>1. PICK p \in {"leaving", "swap"}, n \in Nat :
          handler' = [handler EXCEPT ![c].pc = p, ![c].seen = n]
    <3>1. CASE activeConns >= MaxConnections
      <4>1. handler' = [handler EXCEPT ![c].pc = "leaving", ![c].seen = handler[c].seen]
        BY <1>5, <3>1 DEF LoadActiveConns
      <4>2. handler[c].seen \in Nat
        OBVIOUS
      <4> QED BY <4>1, <4>2
    <3>2. CASE ~(activeConns >= MaxConnections)
      BY <1>5, <3>2 DEF LoadActiveConns
    <3> QED BY <3>1, <3>2
  <2>2. handler' \in [Conn -> [pc : Stages, ip : IP, seen : Nat, admitted : Nat]]
    BY <2>1
  <2> QED BY <1>5, <2>2 DEF LoadActiveConns
<1>6. ASSUME NEW c \in Conn, SwapActiveConns(c) PROVE TypeOK'
  BY <1>6, SMTT(30) DEF SwapActiveConns
<1>7. ASSUME NEW c \in Conn, AcquireIPConnection(c) PROVE TypeOK'
  <2>1. handler' \in [Conn -> [pc : Stages, ip : IP, seen : Nat, admitted : Nat]]
    <3>1. PICK p \in {"release", "session"} : handler' = [handler EXCEPT ![c].pc = p]
      BY <1>7 DEF AcquireIPConnection
    <3> QED BY <3>1
  <2>2. ipConnections' \in [IP -> Nat]
    BY <1>7 DEF AcquireIPConnection
  <2> QED BY <1>7, <2>1, <2>2 DEF AcquireIPConnection
<1>8. ASSUME NEW c \in Conn, ReleaseIPConnection(c) PROVE TypeOK'
  BY <1>8 DEF ReleaseIPConnection
<1>9. ASSUME NEW c \in Conn, ReleaseConnection(c) PROVE TypeOK'
  <2>1. c \in Holders /\ Holders \in SUBSET Conn
    BY <1>9 DEF ReleaseConnection, Holders
  <2>2. activeConns > 0
    BY <2>1, CountOne DEF CountersAreExact
  <2> QED BY <1>9, <2>2 DEF ReleaseConnection
<1>10. ASSUME NEW c \in Conn, LeaveGroup(c) PROVE TypeOK'
  <2>1. c \in InGroup /\ InGroup \in SUBSET Conn
    BY <1>10 DEF LeaveGroup, InGroup
  <2>2. wg > 0
    BY <2>1, CountOne DEF CountersAreExact
  <2> QED BY <1>10, <2>2 DEF LeaveGroup
<1>11. CASE CheckRunning \/ AcceptFails
  BY <1>11 DEF CheckRunning, AcceptFails
<1>12. CASE ClearRunning \/ CloseListener
  BY <1>12 DEF ClearRunning, CloseListener
<1>13. CASE WaitReturns \/ WaitTimesOut
  BY <1>13 DEF WaitReturns, WaitTimesOut
<1>14. CASE Tick
  BY <1>14 DEF Tick
<1>15. CASE UNCHANGED vars
  BY <1>15 DEF vars
<1> QED
  BY <1>1, <1>2, <1>3, <1>4, <1>5, <1>6, <1>7, <1>8, <1>9, <1>10, <1>11, <1>12,
     <1>13, <1>14, <1>15 DEF Next, Handle

-------------------------------------------------------------------------------
(* Steps that move no goroutine into or out of a counted set and touch no   *)
(* counter preserve CountersAreExact.                                       *)
LEMMA SameCounts ==
  ASSUME CountersAreExact, InGroup' = InGroup, Holders' = Holders,
         \A i \in IP : Sessions(i)' = Sessions(i),
         UNCHANGED <<wg, activeConns, ipConnections>>
  PROVE  CountersAreExact'
BY DEF CountersAreExact

(* Every step keeps the counters equal to the sizes of the sets.            *)
LEMMA CountStep == Inv /\ [Next]_vars => CountersAreExact'
<1> SUFFICES ASSUME Inv, [Next]_vars PROVE CountersAreExact'
  OBVIOUS
<1> USE DEF Inv, TypeOK, server, limits, Goto
<1>1. ASSUME NEW c \in Conn, AddToGroup(c) PROVE CountersAreExact'
  <2>1. c \notin InGroup /\ InGroup' = InGroup \cup {c} /\ Holders' = Holders
        /\ \A i \in IP : Sessions(i)' = Sessions(i)
    BY <1>1 DEF AddToGroup, InGroup, Holders, Sessions
  <2>2. Cardinality(InGroup') = Cardinality(InGroup) + 1
    BY <2>1, CountOne, InGroup \in SUBSET Conn DEF InGroup
  <2> QED BY <1>1, <2>1, <2>2 DEF AddToGroup, CountersAreExact
<1>2. ASSUME NEW c \in Conn,
             Accept(c) \/ PassRateLimit(c) \/ ExceedRateLimit(c) \/ LoadActiveConns(c)
      PROVE  CountersAreExact'
  <2>1. UNCHANGED <<wg, activeConns, ipConnections>>
    BY <1>2 DEF Accept, PassRateLimit, ExceedRateLimit, LoadActiveConns
  <2>2. /\ \A d \in Conn \ {c} : handler'[d] = handler[d]
        /\ handler'[c].ip = handler[c].ip
        /\ \/ handler[c].pc = "none" /\ handler'[c].pc = "started"
           \/ handler[c].pc \in {"counted", "acquire"}
              /\ handler'[c].pc \in {"acquire", "swap", "leaving"}
    BY <1>2 DEF Accept, PassRateLimit, ExceedRateLimit, LoadActiveConns
  <2>3. InGroup' = InGroup /\ Holders' = Holders /\ \A i \in IP : Sessions(i)' = Sessions(i)
    BY <2>2 DEF InGroup, Holders, Sessions
  <2> QED BY <2>1, <2>3, SameCounts
<1>3. ASSUME NEW c \in Conn, SwapActiveConns(c) PROVE CountersAreExact'
  <2>1. InGroup' = InGroup /\ \A i \in IP : Sessions(i)' = Sessions(i)
    BY <1>3 DEF SwapActiveConns, InGroup, Sessions
  <2>2. CASE activeConns = handler[c].seen
    <3>1. c \notin Holders /\ Holders' = Holders \cup {c}
      BY <1>3, <2>2 DEF SwapActiveConns, Holders
    <3>2. Cardinality(Holders') = Cardinality(Holders) + 1
      BY <3>1, CountOne, Holders \in SUBSET Conn DEF Holders
    <3> QED BY <1>3, <2>1, <2>2, <3>2 DEF SwapActiveConns, CountersAreExact
  <2>3. CASE activeConns # handler[c].seen
    <3>1. Holders' = Holders /\ UNCHANGED <<wg, activeConns, ipConnections>>
      BY <1>3, <2>3 DEF SwapActiveConns, Holders
    <3> QED BY <2>1, <3>1, SameCounts
  <2> QED BY <2>2, <2>3
<1>4. ASSUME NEW c \in Conn, AcquireIPConnection(c) PROVE CountersAreExact'
  <2>1. InGroup' = InGroup /\ Holders' = Holders
    BY <1>4, ZenonT(40) DEF AcquireIPConnection, InGroup, Holders
  <2>2. PICK i \in IP : i = handler[c].ip
    OBVIOUS
  <2>3. CASE ipConnections[i] >= MaxConnectionsPerIP
    <3>1. \A j \in IP : Sessions(j)' = Sessions(j)
      BY <1>4, <2>2, <2>3 DEF AcquireIPConnection, Sessions
    <3>2. UNCHANGED <<wg, activeConns, ipConnections>>
      BY <1>4, <2>2, <2>3 DEF AcquireIPConnection
    <3> QED BY <2>1, <3>1, <3>2, SameCounts
  <2>4. CASE ~(ipConnections[i] >= MaxConnectionsPerIP)
    <3>1. handler' = [handler EXCEPT ![c].pc = "session"] /\ handler[c].pc = "slot"
          /\ ipConnections' = [ipConnections EXCEPT ![i] = @ + 1]
          /\ UNCHANGED <<wg, activeConns>>
      BY <1>4, <2>2, <2>4 DEF AcquireIPConnection
    <3>2. /\ handler[c].pc # "session" /\ handler'[c].pc = "session"
          /\ handler'[c].ip = i
          /\ \A d \in Conn \ {c} : handler'[d] = handler[d]
      BY <2>2, <3>1
    <3>3. c \notin Sessions(i) /\ Sessions(i)' = Sessions(i) \cup {c}
      BY <3>2 DEF Sessions
    <3>4. \A j \in IP \ {i} : Sessions(j)' = Sessions(j)
      BY <2>2, <3>2 DEF Sessions
    <3>5. Cardinality(Sessions(i)') = Cardinality(Sessions(i)) + 1
      BY <3>3, CountOne, Sessions(i) \in SUBSET Conn DEF Sessions
    <3>6. ASSUME NEW j \in IP PROVE ipConnections'[j] = Cardinality(Sessions(j)')
      <4>1. CASE j = i
        BY <3>1, <3>5, <4>1 DEF CountersAreExact
      <4>2. CASE j # i
        BY <3>1, <3>4, <4>2 DEF CountersAreExact
      <4> QED BY <4>1, <4>2
    <3> QED BY <2>1, <3>1, <3>6 DEF CountersAreExact
  <2> QED BY <2>3, <2>4
<1>5. ASSUME NEW c \in Conn, ReleaseIPConnection(c) PROVE CountersAreExact'
  <2>1. InGroup' = InGroup /\ Holders' = Holders
    BY <1>5 DEF ReleaseIPConnection, InGroup, Holders
  <2>2. PICK i \in IP : i = handler[c].ip
    OBVIOUS
  <2>3. /\ handler[c].pc = "session" /\ handler'[c].pc = "release"
        /\ \A d \in Conn \ {c} : handler'[d] = handler[d]
    BY <1>5 DEF ReleaseIPConnection
  <2>4. c \in Sessions(i) /\ Sessions(i)' = Sessions(i) \ {c}
    BY <2>2, <2>3 DEF Sessions
  <2>5. \A j \in IP \ {i} : Sessions(j)' = Sessions(j)
    BY <2>2, <2>3 DEF Sessions
  <2>6. Cardinality(Sessions(i)') = Cardinality(Sessions(i)) - 1
        /\ Cardinality(Sessions(i)) > 0
    BY <2>4, CountOne, Sessions(i) \in SUBSET Conn DEF Sessions
  <2>7. ipConnections[i] = Cardinality(Sessions(i)) /\ ipConnections[i] \in Nat
    BY DEF CountersAreExact
  <2>8. ipConnections' = [ipConnections EXCEPT ![i] = IF @ <= 1 THEN 0 ELSE @ - 1]
        /\ UNCHANGED <<wg, activeConns>>
    BY <1>5, <2>2 DEF ReleaseIPConnection
  <2>9. ASSUME NEW j \in IP PROVE ipConnections'[j] = Cardinality(Sessions(j)')
    <3>1. CASE j = i
      BY <2>6, <2>7, <2>8, <3>1
    <3>2. CASE j # i
      BY <2>5, <2>8, <3>2 DEF CountersAreExact
    <3> QED BY <3>1, <3>2
  <2> QED BY <2>1, <2>8, <2>9 DEF CountersAreExact
<1>6. ASSUME NEW c \in Conn, ReleaseConnection(c) PROVE CountersAreExact'
  <2>1. c \in Holders /\ Holders' = Holders \ {c} /\ InGroup' = InGroup
        /\ \A i \in IP : Sessions(i)' = Sessions(i)
    BY <1>6 DEF ReleaseConnection, InGroup, Holders, Sessions
  <2>2. Cardinality(Holders') = Cardinality(Holders) - 1
    BY <2>1, CountOne, Holders \in SUBSET Conn DEF Holders
  <2> QED BY <1>6, <2>1, <2>2 DEF ReleaseConnection, CountersAreExact
<1>7. ASSUME NEW c \in Conn, LeaveGroup(c) PROVE CountersAreExact'
  <2>1. c \in InGroup /\ InGroup' = InGroup \ {c} /\ Holders' = Holders
        /\ \A i \in IP : Sessions(i)' = Sessions(i)
    BY <1>7 DEF LeaveGroup, InGroup, Holders, Sessions
  <2>2. Cardinality(InGroup') = Cardinality(InGroup) - 1
    BY <2>1, CountOne, InGroup \in SUBSET Conn DEF InGroup
  <2> QED BY <1>7, <2>1, <2>2 DEF LeaveGroup, CountersAreExact
<1>8. CASE \/ CheckRunning \/ AcceptFails \/ ClearRunning \/ CloseListener
           \/ WaitReturns \/ WaitTimesOut \/ Tick \/ UNCHANGED vars
  <2>1. UNCHANGED <<wg, activeConns, ipConnections, handler>>
    BY <1>8 DEF CheckRunning, AcceptFails, ClearRunning, CloseListener,
                WaitReturns, WaitTimesOut, Tick, vars
  <2> QED BY <2>1, SameCounts DEF InGroup, Holders, Sessions
<1> QED
  BY <1>1, <1>2, <1>3, <1>4, <1>5, <1>6, <1>7, <1>8 DEF Next, Handle

(* Whoever swaps has seen a value below the limit, and the number of        *)
(* sessions of an address only grows below its limit.                       *)
LEMMA LimitStep == Inv /\ [Next]_vars => SeenBelowLimit' /\ LimitsHold'
<1> SUFFICES ASSUME Inv, [Next]_vars PROVE SeenBelowLimit' /\ LimitsHold'
  OBVIOUS
<1> USE SmtpServerAssumption DEF Inv, TypeOK, server, limits, Goto
<1>1. CountersAreExact'
  BY CountStep
<1>2. SeenBelowLimit'
  <2>1. ASSUME NEW c \in Conn, LoadActiveConns(c) PROVE SeenBelowLimit'
    BY <2>1 DEF LoadActiveConns, SeenBelowLimit
  <2>2. ASSUME NEW c \in Conn, Accept(c) \/ AddToGroup(c) \/ PassRateLimit(c)
                               \/ ExceedRateLimit(c) \/ SwapActiveConns(c)
        PROVE  SeenBelowLimit'
    <3>1. /\ \A d \in Conn \ {c} : handler'[d] = handler[d]
          /\ handler'[c].pc # "swap"
      BY <2>2 DEF Accept, AddToGroup, PassRateLimit, ExceedRateLimit, SwapActiveConns
    <3> QED BY <3>1 DEF SeenBelowLimit
  <2>3. ASSUME NEW c \in Conn, AcquireIPConnection(c) \/ ReleaseIPConnection(c)
                               \/ ReleaseConnection(c) \/ LeaveGroup(c)
        PROVE  SeenBelowLimit'
    BY <2>3 DEF AcquireIPConnection, ReleaseIPConnection, ReleaseConnection,
                LeaveGroup, SeenBelowLimit
  <2>4. CASE UNCHANGED handler
    BY <2>4 DEF SeenBelowLimit
  <2> QED
    BY <2>1, <2>2, <2>3, <2>4
       DEF Next, Handle, CheckRunning, AcceptFails, ClearRunning, CloseListener,
           WaitReturns, WaitTimesOut, Tick, vars
<1>3. CountersBounded
  BY DEF CountersAreExact, LimitsHold, CountersBounded
<1>4. CountersBounded'
  <2>1. ASSUME NEW c \in Conn, SwapActiveConns(c) PROVE CountersBounded'
    <3>1. handler[c].seen < MaxConnections /\ handler[c].seen \in Nat
      BY <2>1 DEF SwapActiveConns, SeenBelowLimit
    <3> QED BY <1>3, <2>1, <3>1 DEF SwapActiveConns, CountersBounded
  <2>2. ASSUME NEW c \in Conn, AcquireIPConnection(c) PROVE CountersBounded'
    BY <1>3, <2>2 DEF AcquireIPConnection, CountersBounded
  <2>3. ASSUME NEW c \in Conn, ReleaseIPConnection(c) PROVE CountersBounded'
    BY <1>3, <2>3 DEF ReleaseIPConnection, CountersBounded
  <2>4. ASSUME NEW c \in Conn, ReleaseConnection(c) PROVE CountersBounded'
    BY <1>3, <2>4 DEF ReleaseConnection, CountersBounded
  <2>5. CASE UNCHANGED <<activeConns, ipConnections>>
    BY <1>3, <2>5 DEF CountersBounded
  <2> QED
    BY <2>1, <2>2, <2>3, <2>4, <2>5
       DEF Next, Handle, Accept, AddToGroup, PassRateLimit, ExceedRateLimit,
           LoadActiveConns, LeaveGroup, CheckRunning, AcceptFails, ClearRunning,
           CloseListener, WaitReturns, WaitTimesOut, Tick, vars
<1>5. LimitsHold'
  BY <1>1, <1>4 DEF CountersAreExact, LimitsHold, CountersBounded
<1> QED BY <1>2, <1>5

-------------------------------------------------------------------------------
(* The invariant holds in every reachable state.                            *)
THEOREM SmtpServerInvariant == Spec => []Inv
<1>1. Init => Inv
  BY InvInit
<1>2. Inv /\ [Next]_vars => Inv'
  BY TypeStep, CountStep, LimitStep DEF Inv
<1> QED BY <1>1, <1>2, PTL DEF Spec

(* The state of the server (server.go:18-40) always has its type; in        *)
(* particular no counter is ever decremented below zero.                    *)
THEOREM SmtpServerTypes == Spec => []TypeOK
<1>1. Inv => TypeOK
  BY DEF Inv
<1> QED BY <1>1, SmtpServerInvariant, PTL

(* activeConns, ipConnections and the WaitGroup say how many goroutines     *)
(* hold a slot (server.go:219-312), whatever the interleaving.              *)
THEOREM SmtpCountersAreExact == Spec => []CountersAreExact
<1>1. Inv => CountersAreExact
  BY DEF Inv
<1> QED BY <1>1, SmtpServerInvariant, PTL

(* Never more than MaxConnections sessions, and never more than             *)
(* MaxConnectionsPerIP from one address (server.go:239, 247).               *)
THEOREM SmtpLimitsHold == Spec => []LimitsHold
<1>1. Inv => LimitsHold
  BY DEF Inv
<1> QED BY <1>1, SmtpServerInvariant, PTL

-------------------------------------------------------------------------------
(* The rate limit.  That a minute sees fewer than twice as many connections *)
(* as the limit is not inductive either: it speaks of a minute that may     *)
(* straddle two windows, while the counter knows only the current one.      *)
(* WindowsAreCounted says what is left of the one before.                   *)

(* When the window of an address began.                                     *)
WindowStart(i) == ipRateLimit[i].resetTime - Minute

(* The connections of an address that passed the limit: ever, in the        *)
(* current window, and within the minute before that window began.          *)
Admitted(i) == {c \in Conn : handler[c].ip = i /\ handler[c].admitted # 0}
InWindow(i) == {c \in Admitted(i) : handler[c].admitted >= WindowStart(i)}
JustBefore(i) ==
  {c \in Admitted(i) : /\ handler[c].admitted < WindowStart(i)
                       /\ handler[c].admitted + Minute > WindowStart(i)}

(* The window of address i is open or past, it counts the connections it    *)
(* let in, the connection that opened it came at its start, and of those    *)
(* before it at most one fewer than the limit are less than a minute older. *)
WindowIsCounted(i) ==
  /\ ipRateLimit[i] # NoWindow
  /\ Minute <= ipRateLimit[i].resetTime /\ ipRateLimit[i].resetTime <= now + Minute
  /\ \A c \in Admitted(i) : handler[c].admitted <= ipRateLimit[i].resetTime
  /\ \E c \in InWindow(i) : handler[c].admitted = WindowStart(i)
  /\ ipRateLimit[i].count = Cardinality(InWindow(i))
  /\ Cardinality(InWindow(i)) <= RateLimitPerMinute
  /\ Cardinality(JustBefore(i)) <= RateLimitPerMinute - 1

(* A connection that has not reached the rate limit has not passed it.      *)
NotYetAdmitted ==
  \A c \in Conn : handler[c].pc \in {"none", "started", "counted"} => handler[c].admitted = 0

WindowsAreCounted ==
  /\ now >= 1
  /\ NotYetAdmitted
  /\ \A i \in IP : \/ ipRateLimit[i] = NoWindow /\ Admitted(i) = {}
                   \/ WindowIsCounted(i)

(* The sets are finite, with the sizes of finite sets.                      *)
LEMMA AdmittedFinite ==
  ASSUME NEW S \in SUBSET Conn
  PROVE  /\ IsFiniteSet(S) /\ Cardinality(S) \in Nat
         /\ \A T \in SUBSET S : Cardinality(T) <= Cardinality(S)
         /\ \A c \in S : \A T \in SUBSET (S \ {c}) : Cardinality(T) <= Cardinality(S) - 1
<1>1. IsFiniteSet(S)
  BY SmtpServerAssumption, FS_Subset
<1>2. Cardinality(S) \in Nat
  BY <1>1, FS_CardinalityType
<1>3. ASSUME NEW T \in SUBSET S PROVE Cardinality(T) <= Cardinality(S)
  BY <1>1, FS_Subset
<1>4. ASSUME NEW c \in S, NEW T \in SUBSET (S \ {c})
      PROVE  Cardinality(T) <= Cardinality(S) - 1
  <2>1. IsFiniteSet(S \ {c}) /\ Cardinality(S \ {c}) = Cardinality(S) - 1
    BY <1>1, FS_RemoveElement
  <2>2. Cardinality(T) <= Cardinality(S \ {c})
    BY <2>1, FS_Subset
  <2> QED BY <2>1, <2>2
<1> QED BY <1>1, <1>2, <1>3, <1>4

(* No connection has been admitted when the server starts.                  *)
LEMMA WindowsInit == Init => WindowsAreCounted
BY DEF Init, WindowsAreCounted, NotYetAdmitted, Admitted

(* A step that admits no connection, leaves the windows alone and does not  *)
(* turn the clock back keeps them counted.                                  *)
LEMMA SameWindows ==
  ASSUME TypeOK, TypeOK', WindowsAreCounted, now' >= now, UNCHANGED ipRateLimit,
         \A d \in Conn : /\ handler'[d].ip = handler[d].ip
                         /\ handler'[d].admitted = handler[d].admitted,
         NotYetAdmitted'
  PROVE  WindowsAreCounted'
<1>1. ASSUME NEW i \in IP
      PROVE  /\ Admitted(i)' = Admitted(i) /\ InWindow(i)' = InWindow(i)
             /\ JustBefore(i)' = JustBefore(i) /\ WindowStart(i)' = WindowStart(i)
  BY DEF Admitted, InWindow, JustBefore, WindowStart
<1>2. ASSUME NEW i \in IP, WindowIsCounted(i) PROVE WindowIsCounted(i)'
  <2>1. ipRateLimit[i].resetTime <= now' + Minute
    BY <1>2, SmtpServerAssumption DEF WindowIsCounted, TypeOK
  <2>2. /\ \A c \in Admitted(i)' : handler'[c].admitted <= ipRateLimit'[i].resetTime
        /\ \E c \in InWindow(i)' : handler'[c].admitted = WindowStart(i)'
    <3>1. Admitted(i) \subseteq Conn /\ InWindow(i) \subseteq Conn
      BY DEF Admitted, InWindow
    <3> QED BY <1>1, <1>2, <3>1 DEF WindowIsCounted
  <2> QED BY <1>1, <1>2, <2>1, <2>2 DEF WindowIsCounted
<1>3. now' >= 1
  BY DEF WindowsAreCounted, TypeOK
<1> QED BY <1>1, <1>2, <1>3 DEF WindowsAreCounted

(* Passing the limit within the window: the connection joins the window.    *)
LEMMA PassWithin ==
  ASSUME TypeOK, TypeOK', NEW c \in Conn, PassRateLimit(c), WindowsAreCounted,
         NEW i \in IP, i = handler[c].ip,
         WindowIsCounted(i), now <= ipRateLimit[i].resetTime
  PROVE  WindowIsCounted(i)'
<1> USE SmtpServerAssumption
<1>1. now \in Nat /\ now >= 1 /\ now' = now
  BY DEF TypeOK, WindowsAreCounted, PassRateLimit
<1>2. /\ handler[c].admitted = 0
      /\ handler'[c].admitted = now /\ handler'[c].ip = i
      /\ \A d \in Conn \ {c} : handler'[d] = handler[d]
  BY DEF PassRateLimit, WindowsAreCounted, NotYetAdmitted, TypeOK
<1>3. /\ ipRateLimit[i].count \in Nat /\ ipRateLimit[i].resetTime \in Nat
      /\ ipRateLimit[i].count < RateLimitPerMinute
      /\ ipRateLimit'[i].resetTime = ipRateLimit[i].resetTime
      /\ ipRateLimit'[i].count = ipRateLimit[i].count + 1
  BY DEF PassRateLimit, TypeOK, WindowIsCounted
<1>4. WindowStart(i)' = WindowStart(i) /\ WindowStart(i) <= now /\ WindowStart(i) \in Nat
  BY <1>1, <1>2, <1>3 DEF WindowStart, WindowIsCounted
<1>5. c \notin Admitted(i) /\ Admitted(i)' = Admitted(i) \cup {c}
  BY <1>1, <1>2 DEF Admitted
<1>6. c \notin InWindow(i) /\ InWindow(i)' = InWindow(i) \cup {c}
  BY <1>1, <1>2, <1>4, <1>5 DEF InWindow, Admitted
<1>7. JustBefore(i)' = JustBefore(i)
  BY <1>1, <1>2, <1>4, <1>5 DEF JustBefore, Admitted
<1>8. Cardinality(InWindow(i)') = Cardinality(InWindow(i)) + 1
  BY <1>6, CountOne, InWindow(i) \in SUBSET Conn DEF InWindow, Admitted
<1>9. \E d \in InWindow(i)' : handler'[d].admitted = WindowStart(i)'
  BY <1>2, <1>4, <1>6 DEF WindowIsCounted, InWindow, Admitted
<1>10. \A d \in Admitted(i)' : handler'[d].admitted <= ipRateLimit'[i].resetTime
  BY <1>1, <1>2, <1>3, <1>5 DEF WindowIsCounted, Admitted
<1>11. ipRateLimit'[i] # NoWindow
  BY <1>3 DEF NoWindow
<1>12. ipRateLimit[i].count = Cardinality(InWindow(i))
       /\ Minute <= ipRateLimit[i].resetTime /\ ipRateLimit[i].resetTime <= now + Minute
       /\ Cardinality(JustBefore(i)) <= RateLimitPerMinute - 1
  BY DEF WindowIsCounted
<1> QED BY <1>1, <1>3, <1>7, <1>8, <1>9, <1>10, <1>11, <1>12 DEF WindowIsCounted

(* Opening a window: those of the old window that are less than a minute    *)
(* old came after the connection that opened it, so they are one fewer.     *)
LEMMA PassFresh ==
  ASSUME TypeOK, TypeOK', NEW c \in Conn, PassRateLimit(c), WindowsAreCounted,
         NEW i \in IP, i = handler[c].ip,
         ipRateLimit[i] = NoWindow \/ now > ipRateLimit[i].resetTime
  PROVE  WindowIsCounted(i)'
<1> USE SmtpServerAssumption
<1>1. now \in Nat /\ now >= 1 /\ now' = now
  BY DEF TypeOK, WindowsAreCounted, PassRateLimit
<1>2. /\ handler[c].admitted = 0
      /\ handler'[c].admitted = now /\ handler'[c].ip = i
      /\ \A d \in Conn \ {c} : handler'[d] = handler[d]
  BY DEF PassRateLimit, WindowsAreCounted, NotYetAdmitted, TypeOK
<1>3. ipRateLimit'[i] = [count |-> 1, resetTime |-> now + Minute]
  BY DEF PassRateLimit, TypeOK
<1>4. WindowStart(i)' = now
  BY <1>1, <1>3 DEF WindowStart
<1>5. c \notin Admitted(i) /\ Admitted(i)' = Admitted(i) \cup {c}
  BY <1>1, <1>2 DEF Admitted
<1>6. \/ Admitted(i) = {}
      \/ WindowIsCounted(i) /\ now > ipRateLimit[i].resetTime
  <2>1. WindowIsCounted(i) => ipRateLimit[i] # NoWindow
    BY DEF WindowIsCounted
  <2>2. \/ ipRateLimit[i] = NoWindow /\ Admitted(i) = {}
        \/ WindowIsCounted(i)
    BY <1>1 DEF WindowsAreCounted
  <2> QED BY <2>1, <2>2
<1>7. \A d \in Admitted(i) : handler[d].admitted < now /\ handler[d].admitted \in Nat
  <2>1. \A d \in Admitted(i) : handler[d].admitted \in Nat
    BY DEF Admitted, TypeOK
  <2>2. ipRateLimit[i].resetTime \in Nat
    BY <1>1 DEF TypeOK
  <2> QED BY <1>1, <1>6, <2>1, <2>2 DEF WindowIsCounted
<1>8. InWindow(i)' = {c}
  <2>1. \A d : d \in InWindow(i)' <=> d = c
    BY <1>1, <1>2, <1>4, <1>5, <1>7 DEF InWindow, Admitted
  <2> QED BY <2>1
<1>9. Cardinality(InWindow(i)') = 1
  BY <1>8, FS_Singleton
<1>10. Cardinality(JustBefore(i)') <= RateLimitPerMinute - 1
  <2>1. JustBefore(i)' = {d \in Admitted(i) : handler[d].admitted + Minute > now}
    <3>1. \A d : d \in JustBefore(i)' <=>
                 d \in Admitted(i) /\ handler[d].admitted + Minute > now
      BY <1>1, <1>2, <1>4, <1>5, <1>7 DEF JustBefore, Admitted
    <3> QED BY <3>1
  <2>2. CASE Admitted(i) = {}
    <3>1. JustBefore(i)' = {}
      BY <2>1, <2>2
    <3> QED BY <3>1, FS_EmptySet
  <2>3. CASE WindowIsCounted(i) /\ now > ipRateLimit[i].resetTime
    <3>1. PICK o \in InWindow(i) : handler[o].admitted = WindowStart(i)
      BY <2>3 DEF WindowIsCounted
    <3>2. /\ ipRateLimit[i].resetTime \in Nat
          /\ WindowStart(i) = ipRateLimit[i].resetTime - Minute
      BY <1>1 DEF TypeOK, WindowStart
    <3>3. \A d \in Admitted(i) : handler[d].admitted + Minute > now =>
                                    d \in InWindow(i) /\ d # o
      BY <1>1, <1>7, <2>3, <3>1, <3>2 DEF InWindow
    <3>4. JustBefore(i)' \in SUBSET (InWindow(i) \ {o})
      BY <2>1, <3>3
    <3>5. InWindow(i) \in SUBSET Conn
      BY DEF InWindow, Admitted
    <3>6. Cardinality(JustBefore(i)') <= Cardinality(InWindow(i)) - 1
      BY <3>1, <3>4, <3>5, AdmittedFinite
    <3>7. Cardinality(InWindow(i)) <= RateLimitPerMinute
      BY <2>3 DEF WindowIsCounted
    <3>8. Cardinality(InWindow(i)) \in Nat /\ Cardinality(JustBefore(i)') \in Nat
      BY <3>4, <3>5, AdmittedFinite
    <3> QED BY <3>6, <3>7, <3>8
  <2> QED BY <1>6, <2>2, <2>3
<1>11. \A d \in Admitted(i)' : handler'[d].admitted <= ipRateLimit'[i].resetTime
  BY <1>1, <1>2, <1>3, <1>5, <1>7 DEF Admitted
<1>12. \E d \in InWindow(i)' : handler'[d].admitted = WindowStart(i)'
  BY <1>2, <1>4, <1>8
<1> QED BY <1>1, <1>3, <1>9, <1>10, <1>11, <1>12 DEF WindowIsCounted, NoWindow

(* Passing the limit leaves the other addresses alone.                      *)
LEMMA PassStep ==
  ASSUME TypeOK, TypeOK', NEW c \in Conn, PassRateLimit(c), WindowsAreCounted
  PROVE  WindowsAreCounted'
<1>0. PICK i \in IP : i = handler[c].ip
  BY DEF TypeOK
<1>1. now' = now /\ now >= 1
  BY DEF TypeOK, WindowsAreCounted, PassRateLimit
<1>2. WindowIsCounted(i)'
  <2>1. \/ ipRateLimit[i] = NoWindow
        \/ now > ipRateLimit[i].resetTime
        \/ WindowIsCounted(i) /\ now <= ipRateLimit[i].resetTime
    BY <1>1 DEF WindowsAreCounted, TypeOK
  <2> QED BY <1>0, <2>1, PassFresh, PassWithin
<1>3. ASSUME NEW j \in IP, j # i
      PROVE  /\ Admitted(j)' = Admitted(j) /\ InWindow(j)' = InWindow(j)
             /\ JustBefore(j)' = JustBefore(j) /\ WindowStart(j)' = WindowStart(j)
             /\ ipRateLimit'[j] = ipRateLimit[j]
             /\ \A d \in Admitted(j) : handler'[d].admitted = handler[d].admitted
  <2>1. /\ \A d \in Conn \ {c} : handler'[d] = handler[d]
        /\ handler'[c].ip = i
        /\ ipRateLimit'[j] = ipRateLimit[j]
    BY <1>0, <1>3 DEF PassRateLimit, TypeOK
  <2>2. Admitted(j)' = Admitted(j) /\ c \notin Admitted(j)
    BY <1>0, <1>3, <2>1 DEF Admitted
  <2>3. \A d \in Admitted(j) : handler'[d] = handler[d]
    BY <2>1, <2>2 DEF Admitted
  <2> QED BY <2>1, <2>2, <2>3 DEF InWindow, JustBefore, WindowStart
<1>4. ASSUME NEW j \in IP, j # i, WindowIsCounted(j) PROVE WindowIsCounted(j)'
  BY <1>1, <1>3, <1>4 DEF WindowIsCounted, InWindow
<1>5. NotYetAdmitted'
  BY DEF PassRateLimit, WindowsAreCounted, NotYetAdmitted, TypeOK
<1> QED BY <1>1, <1>2, <1>3, <1>4, <1>5 DEF WindowsAreCounted

(* Every step keeps the windows counted.                                    *)
LEMMA WindowsStep == TypeOK /\ TypeOK' /\ WindowsAreCounted /\ [Next]_vars => WindowsAreCounted'
<1> SUFFICES ASSUME TypeOK, TypeOK', WindowsAreCounted, [Next]_vars
             PROVE  WindowsAreCounted'
  OBVIOUS
<1> USE DEF server, limits, Goto
<1>1. ASSUME NEW c \in Conn, PassRateLimit(c) PROVE WindowsAreCounted'
  BY <1>1, PassStep
<1>2. ASSUME NEW c \in Conn,
             \/ Accept(c) \/ AddToGroup(c) \/ ExceedRateLimit(c) \/ LoadActiveConns(c)
             \/ SwapActiveConns(c) \/ AcquireIPConnection(c) \/ ReleaseIPConnection(c)
             \/ ReleaseConnection(c) \/ LeaveGroup(c)
      PROVE  WindowsAreCounted'
  <2>1. UNCHANGED <<now, ipRateLimit>> /\ now \in Nat
    BY <1>2 DEF Accept, AddToGroup, ExceedRateLimit, LoadActiveConns, SwapActiveConns,
                AcquireIPConnection, ReleaseIPConnection, ReleaseConnection, LeaveGroup, TypeOK
  <2>2. /\ \A d \in Conn \ {c} : handler'[d] = handler[d]
        /\ handler'[c].ip = handler[c].ip /\ handler'[c].admitted = handler[c].admitted
        /\ \/ handler[c].pc \in {"none", "started", "counted"}
           \/ handler'[c].pc \notin {"none", "started", "counted"}
    BY <1>2 DEF Accept, AddToGroup, ExceedRateLimit, LoadActiveConns, SwapActiveConns,
                AcquireIPConnection, ReleaseIPConnection, ReleaseConnection, LeaveGroup, TypeOK
  <2>3. NotYetAdmitted'
    BY <2>2 DEF NotYetAdmitted, WindowsAreCounted
  <2>4. \A d \in Conn : handler'[d].ip = handler[d].ip /\ handler'[d].admitted = handler[d].admitted
    BY <2>2
  <2> QED BY <2>1, <2>3, <2>4, SameWindows
<1>3. CASE \/ CheckRunning \/ AcceptFails \/ ClearRunning \/ CloseListener
           \/ WaitReturns \/ WaitTimesOut \/ Tick \/ UNCHANGED vars
  <2>1. UNCHANGED <<ipRateLimit, handler>> /\ now' >= now
    BY <1>3 DEF CheckRunning, AcceptFails, ClearRunning, CloseListener,
                WaitReturns, WaitTimesOut, Tick, vars, TypeOK
  <2>2. NotYetAdmitted'
    BY <2>1 DEF WindowsAreCounted, NotYetAdmitted
  <2> QED BY <2>1, <2>2, SameWindows
<1> QED BY <1>1, <1>2, <1>3 DEF Next, Handle

(* The windows are always counted.                                          *)
THEOREM SmtpWindowsAreCounted == Spec => []WindowsAreCounted
<1>1. Init => WindowsAreCounted
  BY WindowsInit
<1>2. TypeOK /\ TypeOK' /\ WindowsAreCounted /\ [Next]_vars => WindowsAreCounted'
  BY WindowsStep
<1> QED BY <1>1, <1>2, SmtpServerTypes, PTL DEF Spec

(* A minute sees at most 2 * RateLimitPerMinute - 1 connections of an       *)
(* address: those of the current window, and those that came after the      *)
(* opening connection of the window before (server.go:315-346).             *)
THEOREM SmtpAtMostTwiceTheRate == Spec => []AtMostTwiceTheRate
<1>1. ASSUME TypeOK, WindowsAreCounted PROVE AtMostTwiceTheRate
  <2> SUFFICES ASSUME NEW i \in IP
               PROVE  Cardinality(AdmittedLately(i)) <= 2 * RateLimitPerMinute - 1
    BY DEF AtMostTwiceTheRate
  <2> USE SmtpServerAssumption
  <2>1. CASE Admitted(i) = {}
    <3>1. AdmittedLately(i) = {}
      BY <2>1 DEF AdmittedLately, Admitted
    <3> QED BY <3>1, FS_EmptySet
  <2>2. CASE WindowIsCounted(i)
    <3>1. AdmittedLately(i) \subseteq InWindow(i) \cup JustBefore(i)
      <4>1. /\ now \in Nat /\ WindowStart(i) <= now
            /\ ipRateLimit[i].resetTime \in Nat
            /\ WindowStart(i) = ipRateLimit[i].resetTime - Minute
        BY <1>1, <2>2, SmtpServerAssumption DEF TypeOK, WindowIsCounted, WindowStart
      <4> HIDE DEF WindowStart
      <4>2. \A c \in Conn : handler[c].admitted \in Nat
        BY <1>1 DEF TypeOK
      <4> QED BY <4>1, <4>2 DEF AdmittedLately, InWindow, JustBefore, Admitted
    <3>2. InWindow(i) \in SUBSET Conn /\ JustBefore(i) \in SUBSET Conn
      BY DEF InWindow, JustBefore, Admitted
    <3>3. /\ IsFiniteSet(InWindow(i)) /\ Cardinality(InWindow(i)) \in Nat
          /\ IsFiniteSet(JustBefore(i)) /\ Cardinality(JustBefore(i)) \in Nat
      BY <3>2, AdmittedFinite
    <3>4. /\ IsFiniteSet(InWindow(i) \cup JustBefore(i))
          /\ InWindow(i) \cup JustBefore(i) \in SUBSET Conn
      BY <3>2, <3>3, FS_Union
    <3>5. Cardinality(InWindow(i) \cup JustBefore(i)) =
            Cardinality(InWindow(i)) + Cardinality(JustBefore(i))
            - Cardinality(InWindow(i) \cap JustBefore(i))
      BY <3>3, FS_Union
    <3>6. Cardinality(InWindow(i) \cap JustBefore(i)) \in Nat
      <4>1. InWindow(i) \cap JustBefore(i) \in SUBSET Conn
        BY <3>2
      <4> QED BY <4>1, AdmittedFinite
    <3>7. Cardinality(AdmittedLately(i)) <= Cardinality(InWindow(i) \cup JustBefore(i))
      BY <3>1, <3>4, AdmittedFinite
    <3>8. Cardinality(AdmittedLately(i)) \in Nat
      BY AdmittedFinite, AdmittedLately(i) \in SUBSET Conn DEF AdmittedLately
    <3>9. Cardinality(InWindow(i)) <= RateLimitPerMinute
          /\ Cardinality(JustBefore(i)) <= RateLimitPerMinute - 1
      BY <2>2 DEF WindowIsCounted
    <3> QED BY <3>3, <3>5, <3>6, <3>7, <3>8, <3>9
  <2> QED BY <1>1, <2>1, <2>2 DEF WindowsAreCounted
<1> QED BY <1>1, SmtpServerTypes, SmtpWindowsAreCounted, PTL
-------------------------------------------------------------------------------
(* What a goroutine with a slot runs: the session of one connection.        *)

(* The session and the client agree on the envelope: while commands are     *)
(* exchanged, and still when the text is there.  After a text that was too  *)
(* large the client goes on sending it; the session has nothing then, which *)
(* is what the client has after its last line.                              *)
SameEnvelope ==
  /\ session.from = client.from
  /\ ToSet(session.rcpts) = client.to
  /\ IsInjective(session.rcpts)

StaysInStep ==
  ~astray =>
    /\ session.pc = "command" /\ client.mode = "command" => SameEnvelope
    /\ session.pc = "command" /\ client.mode = "text" => session.from = Null /\ session.rcpts = << >>
    /\ session.pc = "data" =>
         SameEnvelope /\ client.mode = "text" /\ session.size = client.sent
    /\ session.pc = "process" => SameEnvelope /\ session.size = client.sent

SessionInv == SessionTypeOK /\ StaysInStep

SessionPCs == {"command", "data", "process", "reply", "closed"}
SessionRecord ==
  [pc : SessionPCs, tls : BOOLEAN, ehlo : BOOLEAN, from : Sender \cup {Null}, rcpts : Seq(Address),
   size : 0..MaxMessageSize]
ClientRecord ==
  [mode : {"command", "text", "wait"}, from : Sender \cup {Null}, to : SUBSET Address,
   sent : 0..MaxLines]

LEMMA SessionShape ==
  ASSUME SessionTypeOK
  PROVE  /\ session \in SessionRecord /\ client \in ClientRecord
         /\ MaxMessageSize \in Nat /\ MaxLines \in Nat /\ MaxRecipients \in Nat \ {0}
BY SmtpSessionAssumption DEF SmtpSessionAssumption, SessionTypeOK, SessionRecord, SessionPCs, ClientRecord

(* The recipients are a list, each once.                                    *)
LEMMA NoRecipients ==
  ToSet(<< >>) = {} /\ IsInjective(<< >>) /\ << >> \in Seq(Address) /\ Len(<< >>) = 0
BY DEF ToSet, IsInjective

LEMMA OneMoreRecipient ==
  ASSUME NEW s \in Seq(Address), NEW a \in Address
  PROVE  LET t == IF Contains(s, a) THEN s ELSE Append(s, a)
         IN  /\ t \in Seq(Address) /\ Len(t) <= Len(s) + 1
             /\ ToSet(t) = ToSet(s) \cup {a}
             /\ IsInjective(s) => IsInjective(t)
<1>1. Len(s) \in Nat /\ DOMAIN s = 1..Len(s)
  OBVIOUS
<1>2. CASE Contains(s, a)
  <2>1. a \in ToSet(s)
    BY <1>1, <1>2 DEF Contains, ToSet
  <2> QED BY <1>1, <1>2, <2>1
<1>3. CASE ~Contains(s, a)
  <2>1. PICK t : t = Append(s, a)
    OBVIOUS
  <2>2. /\ t \in Seq(Address) /\ Len(t) = Len(s) + 1 /\ DOMAIN t = 1..(Len(s) + 1)
        /\ t[Len(s) + 1] = a /\ \A i \in 1..Len(s) : t[i] = s[i]
    BY <1>1, <2>1
  <2>3. \A i \in 1..Len(s) : s[i] # a
    BY <1>1, <1>3 DEF Contains
  <2>4. \A i \in DOMAIN t : i \in 1..Len(s) \/ i = Len(s) + 1
    BY <1>1, <2>2
  <2>5. ToSet(t) = ToSet(s) \cup {a}
    <3>1. ASSUME NEW x \in ToSet(t) PROVE x \in ToSet(s) \cup {a}
      <4>1. PICK i \in DOMAIN t : x = t[i]
        BY <3>1 DEF ToSet
      <4> QED BY <1>1, <2>2, <2>4, <4>1 DEF ToSet
    <3>2. ASSUME NEW i \in 1..Len(s) PROVE s[i] \in ToSet(t)
      <4>1. i \in DOMAIN t /\ t[i] = s[i]
        BY <1>1, <2>2
      <4> QED BY <4>1 DEF ToSet
    <3>3. a \in ToSet(t)
      <4>1. Len(s) + 1 \in DOMAIN t
        BY <1>1, <2>2
      <4> QED BY <2>2, <4>1 DEF ToSet
    <3>4. \A x \in ToSet(s) : \E i \in 1..Len(s) : x = s[i]
      BY <1>1 DEF ToSet
    <3> QED BY <3>1, <3>2, <3>3, <3>4
  <2>6. IsInjective(s) => IsInjective(t)
    BY <1>1, <2>2, <2>3, <2>4 DEF IsInjective
  <2> QED BY <1>1, <1>3, <2>1, <2>2, <2>5, <2>6
<1> QED BY <1>2, <1>3

(* A command the client gave changes both sides; one it did not mean leads  *)
(* the session astray.                                                      *)
LEMMA CommandStep ==
  ASSUME SessionInv, NEW s, NEW c, s \in SessionRecord, c \in ClientRecord,
         Len(s.rcpts) <= MaxRecipients,
         ~s.ehlo => s.from = Null /\ s.rcpts = << >>,
         session' = s, active' \subseteq Address, Heard(c), session.pc = "command",
         client.mode = "command" /\ ~astray =>
           /\ s.from = c.from /\ ToSet(s.rcpts) = c.to /\ IsInjective(s.rcpts)
           /\ \/ s.pc = "command" /\ c.mode = "command"
              \/ s.pc = "data" /\ c.mode = "text" /\ s.size = c.sent
  PROVE  SessionInv'
<1>1. session \in SessionRecord /\ client \in ClientRecord /\ MaxLines \in Nat /\ astray \in BOOLEAN
  BY SessionShape DEF SessionInv, SessionTypeOK
<1>2. CASE client.mode = "command"
  <2>1. client' = c /\ astray' = astray
    BY <1>2 DEF Heard
  <2>2. SessionTypeOK'
    BY <1>1, <2>1 DEF SessionTypeOK, SessionRecord, SessionPCs, ClientRecord
  <2>3. StaysInStep'
    BY <1>2, <2>1 DEF StaysInStep, SameEnvelope
  <2> QED BY <2>2, <2>3 DEF SessionInv
<1>3. CASE client.mode # "command"
  <2>1. /\ client.sent < MaxLines /\ astray' = TRUE
        /\ client' = [client EXCEPT !.sent = @ + 1]
    BY <1>3 DEF Heard
  <2>2. client.sent + 1 \in 0..MaxLines
    BY <1>1, <2>1 DEF ClientRecord
  <2>3. client' \in ClientRecord
    BY <1>1, <2>1, <2>2 DEF ClientRecord
  <2>4. SessionTypeOK'
    BY <2>1, <2>3 DEF SessionTypeOK, SessionRecord, SessionPCs, ClientRecord
  <2>5. StaysInStep'
    BY <2>1 DEF StaysInStep
  <2> QED BY <2>4, <2>5 DEF SessionInv
<1> QED BY <1>2, <1>3

(* What the commands make of the two sides.                                 *)
LEMMA ResetSession ==
  ASSUME SessionTypeOK
  PROVE  LET s == Reset(session)
             c == Fresh
         IN  /\ s \in SessionRecord /\ s.from = Null /\ s.rcpts = << >> /\ s.pc = session.pc
             /\ s.tls = session.tls /\ s.ehlo = session.ehlo /\ s.size = 0
             /\ c \in ClientRecord /\ c.from = Null /\ c.to = {} /\ c.mode = client.mode
             /\ c.sent = client.sent
<1>1. session \in SessionRecord /\ client \in ClientRecord /\ 0 \in 0..MaxMessageSize
  BY SessionShape
<1>2. << >> \in Seq(Address) /\ Null \in Sender \cup {Null} /\ {} \in SUBSET Address
  OBVIOUS
<1>3. PICK z \in 0..MaxMessageSize : z = 0
  BY <1>1
<1>4. PICK s : s = [session EXCEPT !.from = Null, !.rcpts = << >>, !.size = z]
  OBVIOUS
<1>5. /\ s \in SessionRecord /\ s.from = Null /\ s.rcpts = << >> /\ s.pc = session.pc
      /\ s.tls = session.tls /\ s.ehlo = session.ehlo /\ s.size = z
  BY <1>1, <1>2, <1>4 DEF SessionRecord
<1>6. s = Reset(session)
  BY <1>3, <1>4 DEF Reset
<1>7. PICK c : c = [client EXCEPT !.from = Null, !.to = {}]
  OBVIOUS
<1>8. /\ c \in ClientRecord /\ c.from = Null /\ c.to = {} /\ c.mode = client.mode
      /\ c.sent = client.sent
  BY <1>1, <1>2, <1>7 DEF ClientRecord
<1>9. c = Fresh
  BY <1>7 DEF Fresh
<1> QED BY <1>3, <1>5, <1>6, <1>8, <1>9
-------------------------------------------------------------------------------
LEMMA CommandsStep ==
  ASSUME SessionInv,
         \/ EHLO \/ StartTLS \/ Data \/ Rset \/ Other
         \/ \E from \in Sender \cup {Null} : Mail(from)
         \/ \E a \in Address : Rcpt(a)
  PROVE  SessionInv'
<1>1. /\ session \in SessionRecord /\ client \in ClientRecord /\ active \subseteq Address
      /\ MaxMessageSize \in Nat /\ MaxLines \in Nat /\ MaxRecipients \in Nat \ {0}
      /\ Len(session.rcpts) <= MaxRecipients
      /\ ~session.ehlo => session.from = Null /\ session.rcpts = << >>
      /\ SessionTypeOK
  BY SessionShape DEF SessionInv, SessionTypeOK
<1>2. PICK r, f : /\ r = Reset(session) /\ f = Fresh
                  /\ r \in SessionRecord /\ r.from = Null /\ r.rcpts = << >>
                  /\ r.pc = session.pc /\ r.tls = session.tls /\ r.ehlo = session.ehlo
                  /\ f \in ClientRecord /\ f.from = Null /\ f.to = {} /\ f.mode = client.mode
                  /\ f.sent = client.sent
  BY <1>1, ResetSession
<1>3. Len(<< >>) <= MaxRecipients
  BY <1>1
<1>4. client.mode = "command" /\ ~astray /\ session.pc = "command" => SameEnvelope
  BY DEF SessionInv, StaysInStep
<1>5. CASE EHLO
  <2>1. PICK s : s = [r EXCEPT !.ehlo = TRUE]
    OBVIOUS
  <2>2. s \in SessionRecord /\ s.from = Null /\ s.rcpts = << >> /\ s.pc = session.pc /\ s.ehlo
    BY <1>2, <2>1 DEF SessionRecord
  <2>3. /\ session' = s /\ active' = active /\ Heard(f) /\ session.pc = "command"
    BY <1>2, <1>5, <2>1 DEF EHLO, Reads
  <2> QED BY <1>1, <1>2, <1>3, <2>2, <2>3, NoRecipients, CommandStep
<1>6. CASE Rset
  <2>1. session' = r /\ active' = active /\ Heard(f) /\ session.pc = "command"
    BY <1>2, <1>6 DEF Rset, Reads
  <2> QED BY <1>1, <1>2, <1>3, <2>1, NoRecipients, CommandStep
<1>7. CASE StartTLS
  <2>1. PICK s : s = [r EXCEPT !.tls = TRUE, !.ehlo = FALSE]
    OBVIOUS
  <2>2. s \in SessionRecord /\ s.from = Null /\ s.rcpts = << >> /\ s.pc = session.pc
    BY <1>2, <2>1 DEF SessionRecord
  <2>3. /\ session' = s /\ active' = active /\ client' = f /\ astray' = astray
        /\ session.pc = "command" /\ client.mode = "command"
    BY <1>2, <1>7, <2>1 DEF StartTLS, Reads
  <2>4. Heard(f)
    BY <2>3 DEF Heard
  <2> QED BY <1>1, <1>2, <1>3, <2>2, <2>3, <2>4, NoRecipients, CommandStep
<1>8. CASE Data
  <2>1. PICK z \in 0..MaxMessageSize, y \in 0..MaxLines : z = 0 /\ y = 0
    BY <1>1
  <2>2. PICK s, c : /\ s = [session EXCEPT !.pc = "data", !.size = z]
                    /\ c = [client EXCEPT !.mode = "text", !.sent = y]
    OBVIOUS
  <2>3. /\ s \in SessionRecord /\ s.from = session.from /\ s.rcpts = session.rcpts
        /\ s.pc = "data" /\ s.ehlo = session.ehlo /\ s.size = z
    BY <1>1, <2>2 DEF SessionRecord, SessionPCs
  <2>4. c \in ClientRecord /\ c.from = client.from /\ c.to = client.to /\ c.mode = "text"
        /\ c.sent = y
    BY <1>1, <2>2 DEF ClientRecord
  <2>5. session' = s /\ active' = active /\ Heard(c) /\ session.pc = "command"
    BY <1>8, <2>1, <2>2 DEF Data, Reads
  <2> QED BY <1>1, <1>4, <2>1, <2>3, <2>4, <2>5, CommandStep DEF SameEnvelope
<1>9. CASE Other
  <2>1. session' = session /\ active' = active /\ Heard(client)
        /\ session.pc = "command" /\ client.mode = "text"
    BY <1>9 DEF Other, Reads
  <2> QED BY <1>1, <2>1, CommandStep
<1>10. ASSUME NEW from \in Sender \cup {Null}, Mail(from)
       PROVE  SessionInv'
  <2>1. PICK s, c : s = [session EXCEPT !.from = from] /\ c = [client EXCEPT !.from = from]
    OBVIOUS
  <2>2. /\ s \in SessionRecord /\ s.from = from /\ s.rcpts = session.rcpts
        /\ s.pc = session.pc /\ s.ehlo = session.ehlo
    BY <1>1, <2>1 DEF SessionRecord
  <2>3. c \in ClientRecord /\ c.from = from /\ c.to = client.to /\ c.mode = client.mode
    BY <1>1, <2>1 DEF ClientRecord
  <2>4. /\ session' = s /\ active' = active /\ Heard(c)
        /\ session.pc = "command" /\ session.ehlo
    BY <1>10, <2>1 DEF Mail, Reads
  <2> QED BY <1>1, <1>4, <2>2, <2>3, <2>4, CommandStep DEF SameEnvelope
<1>11. ASSUME NEW a \in Address, Rcpt(a)
       PROVE  SessionInv'
  <2>1. PICK t : t = IF Contains(session.rcpts, a) THEN session.rcpts
                                                          ELSE Append(session.rcpts, a)
    OBVIOUS
  <2>2. session.rcpts \in Seq(Address) /\ Len(session.rcpts) \in Nat
    BY <1>1 DEF SessionRecord
  <2>3. /\ t \in Seq(Address) /\ Len(t) <= Len(session.rcpts) + 1
        /\ ToSet(t) = ToSet(session.rcpts) \cup {a}
        /\ IsInjective(session.rcpts) => IsInjective(t)
    BY <2>1, <2>2, OneMoreRecipient
  <2>4. PICK s, c : s = [session EXCEPT !.rcpts = t] /\ c = [client EXCEPT !.to = @ \cup {a}]
    OBVIOUS
  <2>5. /\ s \in SessionRecord /\ s.from = session.from /\ s.rcpts = t
        /\ s.pc = session.pc /\ s.ehlo = session.ehlo
    BY <1>1, <2>3, <2>4 DEF SessionRecord
  <2>6. /\ c \in ClientRecord /\ c.from = client.from /\ c.to = client.to \cup {a}
        /\ c.mode = client.mode
    BY <1>1, <2>4 DEF ClientRecord
  <2>7. /\ session' = s /\ active' = active /\ Heard(c) /\ session.pc = "command"
        /\ session.from # Null /\ Len(session.rcpts) < MaxRecipients
    BY <1>11, <2>1, <2>4 DEF Rcpt, Reads
  <2>8. Len(t) <= MaxRecipients
    <3>1. Len(t) \in Nat
      BY <2>3
    <3> QED BY <1>1, <2>2, <2>3, <2>7, <3>1
  <2>9. session.ehlo
    BY <1>1, <2>7
  <2> QED BY <1>1, <1>4, <2>3, <2>5, <2>6, <2>7, <2>8, <2>9, CommandStep DEF SameEnvelope
<1> QED BY <1>5, <1>6, <1>7, <1>8, <1>9, <1>10, <1>11

(* The lines of the text, and what follows it.                              *)
LEMMA TextStep ==
  ASSUME SessionInv,
         \/ TextLine \/ DataTimeout \/ Dot \/ Process
         \/ Reply \/ Close
  PROVE  SessionInv'
<1>1. /\ session \in SessionRecord /\ client \in ClientRecord /\ active \subseteq Address
      /\ MaxMessageSize \in Nat /\ MaxLines \in Nat /\ MaxRecipients \in Nat \ {0}
      /\ Len(session.rcpts) <= MaxRecipients
      /\ ~session.ehlo => session.from = Null /\ session.rcpts = << >>
      /\ SessionTypeOK /\ StaysInStep /\ astray \in BOOLEAN
  BY SessionShape DEF SessionInv, SessionTypeOK
<1>2. PICK r, f : /\ r = Reset(session) /\ f = Fresh
                  /\ r \in SessionRecord /\ r.from = Null /\ r.rcpts = << >>
                  /\ r.pc = session.pc /\ r.tls = session.tls /\ r.ehlo = session.ehlo
                  /\ f \in ClientRecord /\ f.from = Null /\ f.to = {} /\ f.mode = client.mode
                  /\ f.sent = client.sent
  BY <1>1, ResetSession
<1>3. Len(<< >>) <= MaxRecipients
  BY <1>1
<1>4. ASSUME NEW s, NEW c, s \in SessionRecord, c \in ClientRecord, session' = s, client' = c,
             Len(s.rcpts) <= MaxRecipients,
             ~s.ehlo => s.from = Null /\ s.rcpts = << >>,
             active' = active, astray' \in BOOLEAN, StaysInStep'
      PROVE  SessionInv'
  BY <1>1, <1>4
     DEF SessionInv, SessionTypeOK, SessionRecord, SessionPCs, ClientRecord
<1>5. \A pc \in SessionPCs : LET s == [session EXCEPT !.pc = pc]
                             IN  /\ s \in SessionRecord /\ s.from = session.from
                                 /\ s.rcpts = session.rcpts /\ s.pc = pc /\ s.size = session.size
                                 /\ s.ehlo = session.ehlo
  BY <1>1 DEF SessionRecord
<1>6. \A mode \in {"command", "text", "wait"} :
        LET c == [client EXCEPT !.mode = mode]
        IN  /\ c \in ClientRecord /\ c.from = client.from /\ c.to = client.to /\ c.mode = mode
            /\ c.sent = client.sent
  BY <1>1 DEF ClientRecord
<1>7. PICK b : b = [f EXCEPT !.mode = "command"]
  OBVIOUS
<1>8. b \in ClientRecord /\ b.from = Null /\ b.to = {} /\ b.mode = "command"
  BY <1>2, <1>7 DEF ClientRecord
<1>9. PICK q : q = [r EXCEPT !.pc = "command"]
  OBVIOUS
<1>10. q \in SessionRecord /\ q.from = Null /\ q.rcpts = << >> /\ q.pc = "command"
  BY <1>2, <1>9 DEF SessionRecord, SessionPCs
<1>11. CASE TextLine
  <2>1. PICK y : y = client.sent + 1
    OBVIOUS
  <2>2. y \in 0..MaxLines /\ client.sent \in Nat
    BY <1>1, <1>11, <2>1 DEF TextLine, ClientRecord
  <2>3. PICK c : c = [client EXCEPT !.sent = y]
    OBVIOUS
  <2>4. c \in ClientRecord /\ c.from = client.from /\ c.to = client.to
        /\ c.mode = client.mode /\ c.sent = y
    BY <1>1, <2>2, <2>3 DEF ClientRecord
  <2>5. client' = c /\ active' = active /\ astray' = astray /\ session.pc = "data"
    BY <1>11, <2>1, <2>3 DEF TextLine
  <2>6. CASE session.size + 1 > MaxMessageSize
    <3>1. session' = q
      BY <1>2, <1>9, <1>11, <2>6 DEF TextLine
    <3>2. StaysInStep'
      BY <1>1, <1>10, <2>4, <2>5, <3>1 DEF StaysInStep
    <3> QED BY <1>1, <1>3, <1>4, <1>10, <2>4, <2>5, <3>1, <3>2
  <2>7. CASE ~(session.size + 1 > MaxMessageSize)
    <3>1. PICK z : z = session.size + 1
      OBVIOUS
    <3>2. z \in 0..MaxMessageSize /\ session.size \in Nat
      BY <1>1, <2>7, <3>1 DEF SessionRecord
    <3>3. PICK s : s = [session EXCEPT !.size = z]
      OBVIOUS
    <3>4. /\ s \in SessionRecord /\ s.from = session.from /\ s.rcpts = session.rcpts
          /\ s.pc = session.pc /\ s.size = z /\ s.ehlo = session.ehlo
      BY <1>1, <3>2, <3>3 DEF SessionRecord
    <3>5. session' = s
      BY <1>11, <2>7, <3>1, <3>3 DEF TextLine
    <3>6. ~astray => SameEnvelope /\ client.mode = "text" /\ z = y
      BY <1>1, <2>1, <2>5, <3>1 DEF StaysInStep
    <3>7. StaysInStep'
      BY <2>4, <2>5, <3>4, <3>5, <3>6 DEF StaysInStep, SameEnvelope
    <3> QED BY <1>1, <1>4, <2>4, <2>5, <3>4, <3>5, <3>7
  <2> QED BY <2>6, <2>7
<1>12. CASE DataTimeout
  <2>1. /\ session' = [session EXCEPT !.pc = "command"] /\ client' = client
        /\ active' = active /\ astray' = TRUE
    BY <1>12 DEF DataTimeout
  <2>2. StaysInStep'
    BY <2>1 DEF StaysInStep
  <2>3. "command" \in SessionPCs
    BY DEF SessionPCs
  <2>4. /\ session' \in SessionRecord /\ session'.from = session.from
        /\ session'.rcpts = session.rcpts /\ session'.ehlo = session.ehlo
    BY <1>5, <2>1, <2>3
  <2> QED BY <1>1, <1>4, <2>1, <2>2, <2>4
<1>13. CASE Dot
  <2>1. active' = active /\ astray' = astray /\ client.mode = "text"
    BY <1>13 DEF Dot
  <2>2. CASE session.pc = "data"
    <3>1. /\ session' = [session EXCEPT !.pc = "process"]
          /\ client' = [client EXCEPT !.mode = "wait"]
      BY <1>13, <2>2 DEF Dot
    <3>2. "process" \in SessionPCs
      BY DEF SessionPCs
    <3>3. ~astray => SameEnvelope /\ session.size = client.sent
      BY <1>1, <2>2 DEF StaysInStep
    <3>4. /\ session' \in SessionRecord /\ session'.pc = "process"
          /\ session'.from = session.from /\ session'.rcpts = session.rcpts
          /\ session'.size = session.size /\ session'.ehlo = session.ehlo
      BY <1>5, <3>1, <3>2
    <3>5. /\ client' \in ClientRecord /\ client'.from = client.from
          /\ client'.to = client.to /\ client'.sent = client.sent
      BY <1>6, <3>1
    <3>6. StaysInStep'
      BY <2>1, <3>3, <3>4, <3>5 DEF StaysInStep, SameEnvelope
    <3> QED BY <1>1, <1>4, <2>1, <3>4, <3>5, <3>6
  <2>3. CASE session.pc # "data"
    <3>1. session.pc = "command" /\ client' = b
      BY <1>2, <1>7, <1>13, <2>3 DEF Dot
    <3>2. session' = session
      BY <1>1, <1>13, <2>3 DEF Dot, SessionRecord
    <3>3. ~astray => session.from = Null /\ session.rcpts = << >>
      BY <1>1, <2>1, <3>1 DEF StaysInStep
    <3>4. StaysInStep'
      BY <1>8, <2>1, <3>1, <3>2, <3>3, NoRecipients DEF StaysInStep, SameEnvelope
    <3> QED BY <1>1, <1>4, <1>8, <2>1, <3>1, <3>2, <3>4
  <2> QED BY <2>2, <2>3
<1>14. CASE Process \/ Close
  <2>1. PICK pc \in {"reply", "closed"} : session' = [session EXCEPT !.pc = pc]
    BY <1>14 DEF Process, Close
  <2>2. client' = client /\ active' = active /\ astray' = astray
    BY <1>14 DEF Process, Close
  <2>3. pc \in SessionPCs
    BY DEF SessionPCs
  <2>4. StaysInStep'
    BY <1>5, <2>1, <2>3 DEF StaysInStep
  <2>5. /\ session' \in SessionRecord /\ session'.from = session.from
        /\ session'.rcpts = session.rcpts /\ session'.ehlo = session.ehlo
    BY <1>5, <2>1, <2>3
  <2> QED BY <1>1, <1>4, <2>2, <2>4, <2>5
<1>15. CASE Reply
  <2>1. session' = q /\ client' = b /\ active' = active /\ astray' = astray
    BY <1>2, <1>7, <1>9, <1>15 DEF Reply
  <2>2. StaysInStep'
    BY <1>8, <1>10, <2>1, NoRecipients DEF StaysInStep, SameEnvelope
  <2> QED BY <1>1, <1>3, <1>4, <1>8, <1>10, <2>1, <2>2
<1> QED BY <1>11, <1>12, <1>13, <1>14, <1>15

LEMMA SessionInvInit ==
  ASSUME SessionInit
  PROVE  SessionInv
<1>1. /\ session.pc = "command" /\ session.from = Null /\ session.rcpts = << >>
      /\ client.mode = "command" /\ client.from = Null /\ client.to = {}
  BY DEF SessionInit
<1>2. StaysInStep
  BY <1>1, NoRecipients DEF StaysInStep, SameEnvelope
<1>3. 0 \in 0..MaxMessageSize /\ 0 \in 0..MaxLines /\ 0 <= MaxRecipients
  BY SmtpSessionAssumption DEF SmtpSessionAssumption
<1>4. << >> \in Seq(Address) /\ Len(<< >>) = 0
  BY NoRecipients
<1>5. SessionTypeOK
  BY <1>3, <1>4 DEF SessionInit, SessionTypeOK
<1> QED BY <1>2, <1>5 DEF SessionInv

LEMMA SessionInvNext ==
  ASSUME SessionInv, [SessionNext]_sessionVars
  PROVE  SessionInv'
<1>1. CASE \E a \in Address : ChangeAlias(a)
  <2>1. UNCHANGED <<session, client, astray>> /\ active' \subseteq Address
    BY <1>1 DEF ChangeAlias, SessionInv, SessionTypeOK
  <2> QED BY <2>1 DEF SessionInv, SessionTypeOK, StaysInStep, SameEnvelope
<1>2. CASE UNCHANGED sessionVars
  BY <1>2 DEF sessionVars, SessionInv, SessionTypeOK, StaysInStep, SameEnvelope
<1> QED BY <1>1, <1>2, CommandsStep, TextStep DEF SessionNext

(* The session's list of recipients stays within its limit, its counts      *)
(* within theirs, and before EHLO there is no transaction (session.go).     *)
THEOREM SmtpSessionTypes == SessionSpec => []SessionTypeOK
<1>1. SessionInit => SessionInv
  BY SessionInvInit
<1>2. SessionInv /\ [SessionNext]_sessionVars => SessionInv'
  BY SessionInvNext
<1>3. SessionInv => SessionTypeOK
  BY DEF SessionInv
<1> QED BY <1>1, <1>2, <1>3, PTL DEF SessionSpec

(* A message is processed for exactly the recipients, and from the sender,  *)
(* that the client was told to be accepted in this transaction, and whole,  *)
(* unless the session left a text before its end (session.go:202-460).      *)
THEOREM SmtpEnvelopes == SessionSpec => []EnvelopeIsWhatWasAccepted
<1>1. SessionInit => SessionInv
  BY SessionInvInit
<1>2. SessionInv /\ [SessionNext]_sessionVars => SessionInv'
  BY SessionInvNext
<1>3. SessionInv => EnvelopeIsWhatWasAccepted
  <2> SUFFICES ASSUME SessionInv, session.pc = "process", ~astray
               PROVE  /\ SameEnvelope /\ session.size = client.sent
                      /\ session.size <= MaxMessageSize
    BY DEF EnvelopeIsWhatWasAccepted, SameEnvelope
  <2>1. session.size \in 0..MaxMessageSize
    BY DEF SessionInv, SessionTypeOK
  <2> QED BY <2>1 DEF SessionInv, StaysInStep
<1> QED BY <1>1, <1>2, <1>3, PTL DEF SessionSpec
-------------------------------------------------------------------------------
(* Induction over the naturals, for a set.                                  *)
LEMMA EveryNumber ==
  ASSUME NEW S, 0 \in S, \A n \in Nat : n \in S => n + 1 \in S
  PROVE  \A n \in Nat : n \in S
<1> DEFINE less == OpToRel(<, Nat)
           T == Nat \ S
<1> SUFFICES ASSUME T # {} PROVE FALSE
  OBVIOUS
<1>1. IsWellFoundedOn(less, Nat)
  BY NatLessThanWellFounded
<1>2. T \in SUBSET Nat
  OBVIOUS
<1> HIDE DEF less, T
<1>3. PICK x \in T : \A y \in T : ~(<<y, x>> \in less)
  BY <1>1, <1>2, WFMin
<1>4. x \in Nat /\ x \notin S /\ x # 0
  BY DEF T
<1>5. x - 1 \in Nat /\ x - 1 < x /\ (x - 1) + 1 = x
  BY <1>4
<1>6. x - 1 \notin S
  BY <1>4, <1>5
<1>7. x - 1 \in T
  BY <1>5, <1>6 DEF T
<1>8. <<x - 1, x>> \in less
  BY <1>4, <1>5 DEF less, OpToRel
<1> QED BY <1>3, <1>7, <1>8

(* What is below each n up to a bound.                                      *)
LEMMA MaxIsIn ==
  ASSUME NEW n \in Nat, NEW t \in SUBSET (1..n), t # {}
  PROVE  Max(t) \in t /\ \A y \in t : Max(t) >= y
<1> DEFINE Has(s) == \E x \in s : \A y \in s : x >= y
           S == {k \in Nat : \A s \in SUBSET (1..k) : s # {} => Has(s)}
<1>1. 0 \in S
  <2>1. 1..0 = {}
    OBVIOUS
  <2> QED BY <2>1
<1>2. ASSUME NEW k \in Nat, k \in S PROVE k + 1 \in S
  <2> SUFFICES ASSUME NEW s \in SUBSET (1..(k + 1)), s # {} PROVE Has(s)
    OBVIOUS
  <2>1. CASE k + 1 \in s
    BY <2>1
  <2>2. CASE k + 1 \notin s
    <3>1. s \in SUBSET (1..k)
      BY <2>2
    <3> QED BY <1>2, <3>1
  <2> QED BY <2>1, <2>2
<1>3. n \in S
  <2> HIDE DEF S
  <2> QED BY <1>1, <1>2, EveryNumber
<1>4. Has(t)
  BY <1>3
<1> QED BY <1>4 DEF Max

LEMMA MaxOfInterval ==
  ASSUME NEW n \in Nat \ {0}
  PROVE  Max(1..n) = n /\ (1..n) \ {n} = 1..(n - 1)
<1>1. 1..n \in SUBSET (1..n) /\ n \in 1..n
  OBVIOUS
<1>2. Max(1..n) \in 1..n /\ Max(1..n) >= n
  BY <1>1, MaxIsIn
<1>3. Max(1..n) = n
  BY <1>2
<1> QED BY <1>3

(* A recursion over the subsets of a finite set, one element at a time, has *)
(* a solution.                                                              *)
Picks(pick, D) == \A t \in SUBSET D : t # {} => pick[t] \in t

IsFold(f, D, V, base, step, pick) ==
  /\ f \in [SUBSET D -> V]
  /\ \A t \in SUBSET D : f[t] = IF t = {} THEN base ELSE step[<<f[t \ {pick[t]}], pick[t]>>]

(* A function that is defined by taking out one element of a set at a time, *)
(* as the folds of the community modules are, exists on a finite set.       *)
LEMMA FoldExists ==
  ASSUME NEW D, IsFiniteSet(D), NEW V, NEW base \in V, NEW step \in [V \X D -> V],
         NEW pick, Picks(pick, D)
  PROVE  \E f : IsFold(f, D, V, base, step, pick)
<1>0. \A t \in SUBSET D : t # {} => pick[t] \in t
  BY DEF Picks
<1> DEFINE Small(n) == {t \in SUBSET D : Cardinality(t) <= n}
           Solves(f, n) ==
             /\ f \in [Small(n) -> V]
             /\ \A t \in Small(n) :
                  f[t] = IF t = {} THEN base ELSE step[<<f[t \ {pick[t]}], pick[t]>>]
           S == {n \in Nat : \E f : Solves(f, n)}
<1>1. ASSUME NEW t \in SUBSET D
      PROVE  /\ IsFiniteSet(t) /\ Cardinality(t) \in Nat /\ Cardinality(t) <= Cardinality(D)
             /\ Cardinality(D) \in Nat
             /\ Cardinality(t) = 0 <=> t = {}
             /\ t # {} => /\ t \ {pick[t]} \in SUBSET D /\ pick[t] \in D
                          /\ Cardinality(t \ {pick[t]}) = Cardinality(t) - 1
  <2>1. IsFiniteSet(t) /\ Cardinality(t) <= Cardinality(D)
    BY FS_Subset
  <2>2. Cardinality(t) \in Nat /\ Cardinality(D) \in Nat
    BY <2>1, FS_CardinalityType
  <2>3. Cardinality(t) = 0 <=> t = {}
    BY <2>1, FS_EmptySet
  <2>4. t # {} => Cardinality(t \ {pick[t]}) = Cardinality(t) - 1
    BY <2>1, FS_RemoveElement, <1>0
  <2> QED BY <2>1, <2>2, <2>3, <2>4, <1>0
<1>2. 0 \in S
  <2> DEFINE f == [t \in Small(0) |-> base]
  <2>1. ASSUME NEW t \in Small(0) PROVE t = {}
    <3>1. t \in SUBSET D /\ Cardinality(t) <= 0
      OBVIOUS
    <3>2. Cardinality(t) \in Nat /\ (Cardinality(t) = 0 <=> t = {})
      BY <1>1, <3>1
    <3> QED BY <3>1, <3>2
  <2>2. Solves(f, 0)
    BY <2>1
  <2> QED BY <2>2
<1>3. ASSUME NEW n \in Nat, n \in S PROVE n + 1 \in S
  <2>1. PICK f : Solves(f, n)
    BY <1>3
  <2> DEFINE g == [t \in Small(n + 1) |->
                     IF t = {} THEN base ELSE step[<<f[t \ {pick[t]}], pick[t]>>]]
  <2>2. ASSUME NEW t \in Small(n + 1), t # {} PROVE t \ {pick[t]} \in Small(n) /\ pick[t] \in D
    <3>1. t \in SUBSET D /\ Cardinality(t) <= n + 1
      OBVIOUS
    <3>2. /\ t \ {pick[t]} \in SUBSET D /\ pick[t] \in D
          /\ Cardinality(t \ {pick[t]}) = Cardinality(t) - 1 /\ Cardinality(t) \in Nat
      BY <1>1, <2>2, <3>1
    <3>3. Cardinality(t \ {pick[t]}) <= n
      BY <3>1, <3>2
    <3> HIDE DEF Solves, S, g
    <3> QED BY <3>2, <3>3
  <2>3. ASSUME NEW t \in Small(n) PROVE t \in Small(n + 1) /\ g[t] = f[t]
    <3>1. t \in SUBSET D /\ Cardinality(t) <= n
      OBVIOUS
    <3>2. Cardinality(t) \in Nat
      BY <1>1, <3>1
    <3>3. t \in Small(n + 1)
      BY <3>1, <3>2
    <3> QED BY <2>1, <3>3
  <2>4. g \in [Small(n + 1) -> V]
    <3>1. ASSUME NEW t \in Small(n + 1), t # {} PROVE step[<<f[t \ {pick[t]}], pick[t]>>] \in V
      <4>1. f[t \ {pick[t]}] \in V /\ pick[t] \in D
        BY <2>1, <2>2, <3>1
      <4> QED BY <4>1
    <3> QED BY <3>1
  <2>5. Solves(g, n + 1)
    <3> SUFFICES ASSUME NEW t \in Small(n + 1)
                 PROVE  g[t] = IF t = {} THEN base ELSE step[<<g[t \ {pick[t]}], pick[t]>>]
      BY <2>4
    <3>1. CASE t = {}
      BY <3>1
    <3>2. CASE t # {}
      <4>1. g[t \ {pick[t]}] = f[t \ {pick[t]}]
        BY <2>2, <2>3, <3>2
      <4> HIDE DEF Small
      <4> QED BY <3>2, <4>1
    <3> QED BY <3>1, <3>2
  <2> HIDE DEF g, Solves
  <2> QED BY <2>5
<1>4. Cardinality(D) \in S
  <2> HIDE DEF S
  <2> QED BY <1>1, <1>2, <1>3, EveryNumber
<1>5. PICK f : Solves(f, Cardinality(D))
  BY <1>4
<1>6. Small(Cardinality(D)) = SUBSET D
  BY <1>1
<1>7. IsFold(f, D, V, base, step, pick)
  <2> HIDE DEF Small
  <2> QED BY <1>5, <1>6 DEF IsFold
<1> HIDE DEF Solves
<1> QED BY <1>7
-------------------------------------------------------------------------------
(* What Nested says is what it is.                                          *)
NestedIn(P) == Leaf \cup [kind : Multiparts, parts : Seq(P)]

(* The parts of each depth are leaves and multiparts of the depth below:    *)
(* the recursive function Nested exists.                                    *)
LEMMA NestedIs ==
  /\ Nested[0] = Leaf
  /\ \A n \in 1..MaxNesting : Nested[n] = NestedIn(Nested[n - 1])
<1> DEFINE Solves(f, m) == f = [n \in 0..m |-> IF n = 0 THEN Leaf ELSE NestedIn(f[n - 1])]
           S == {m \in Nat : \E f : Solves(f, m)}
<1>1. MaxNesting \in Nat
  BY MimeAssumption DEF MimeAssumption
<1> HIDE DEF NestedIn
<1>2. 0 \in S
  <2>1. Solves([n \in 0..0 |-> Leaf], 0)
    OBVIOUS
  <2> HIDE DEF Solves
  <2> QED BY <2>1
<1>3. ASSUME NEW m \in Nat, m \in S PROVE m + 1 \in S
  <2>1. PICK f : Solves(f, m)
    BY <1>3
  <2> DEFINE g == [n \in 0..(m + 1) |-> IF n = m + 1 THEN NestedIn(f[m]) ELSE f[n]]
  <2>2. ASSUME NEW n \in 0..(m + 1)
        PROVE  g[n] = IF n = 0 THEN Leaf ELSE NestedIn(g[n - 1])
    <3>1. CASE n = m + 1
      BY <3>1
    <3>2. CASE n # m + 1
      <4>1. n \in 0..m /\ (n # 0 => n - 1 \in 0..m)
        BY <3>2
      <4>2. f[n] = IF n = 0 THEN Leaf ELSE NestedIn(f[n - 1])
        BY <2>1, <4>1
      <4> QED BY <3>2, <4>1, <4>2
    <3> QED BY <3>1, <3>2
  <2>3. g = [n \in 0..(m + 1) |-> IF n = 0 THEN Leaf ELSE NestedIn(g[n - 1])]
    <3>1. DOMAIN g = 0..(m + 1) /\ g = [n \in 0..(m + 1) |-> g[n]]
      OBVIOUS
    <3> HIDE DEF g
    <3> QED BY <2>2, <3>1
  <2>4. Solves(g, m + 1)
    BY <2>3
  <2>5. m + 1 \in Nat
    OBVIOUS
  <2> HIDE DEF g, Solves
  <2> QED BY <2>4, <2>5
<1>4. MaxNesting \in S
  <2> HIDE DEF S
  <2> QED BY <1>1, <1>2, <1>3, EveryNumber
<1>5. Nested = CHOOSE f : Solves(f, MaxNesting)
  BY DEF Nested, NestedIn
<1>6. Solves(Nested, MaxNesting)
  <2> HIDE DEF Solves
  <2> QED BY <1>4, <1>5
<1> QED BY <1>1, <1>6

(* A part is a leaf, or a multipart of parts.                               *)
LEMMA LeavesAreNoMultiparts ==
  ASSUME NEW p \in Leaf
  PROVE  ~IsMultipart(p)
BY DEF Leaf, IsMultipart, Multiparts, Alternatives

LEMMA MultipartsAre ==
  ASSUME NEW P, NEW p \in NestedIn(P), p \notin Leaf
  PROVE  IsMultipart(p) /\ p \in [kind : Multiparts, parts : Seq(P)] /\ p.parts \in Seq(P)
BY DEF NestedIn, IsMultipart

(* What is nested less deep is nested as deep, too.                         *)
LEMMA NestedGrows ==
  ASSUME NEW n \in 0..MaxNesting
  PROVE  \A k \in 0..n : Nested[k] \subseteq Nested[n]
<1> DEFINE S == {m \in Nat : m < MaxNesting => Nested[m] \subseteq Nested[m + 1]}
           T == {m \in Nat : m <= MaxNesting => \A k \in 0..m : Nested[k] \subseteq Nested[m]}
<1>1. MaxNesting \in Nat
  BY MimeAssumption DEF MimeAssumption
<1>2. 0 \in S
  <2>1. 0 < MaxNesting => Nested[1] = NestedIn(Nested[0]) /\ Nested[0] = Leaf
    <3>1. 0 < MaxNesting => 1 \in 1..MaxNesting /\ 1 - 1 = 0
      BY <1>1
    <3> QED BY <3>1, NestedIs
  <2> QED BY <2>1 DEF NestedIn
<1>3. ASSUME NEW m \in Nat, m \in S PROVE m + 1 \in S
  <2> SUFFICES ASSUME m + 1 < MaxNesting PROVE Nested[m + 1] \subseteq Nested[m + 1 + 1]
    OBVIOUS
  <2>1. m + 1 \in 1..MaxNesting /\ m + 1 + 1 \in 1..MaxNesting /\ m < MaxNesting
        /\ (m + 1) - 1 = m /\ (m + 1 + 1) - 1 = m + 1
    BY <1>1
  <2>2. Nested[m] \subseteq Nested[m + 1]
    BY <1>3, <2>1
  <2>3. Nested[m + 1] = NestedIn(Nested[m]) /\ Nested[m + 1 + 1] = NestedIn(Nested[m + 1])
    BY <2>1, NestedIs
  <2>4. Seq(Nested[m]) \subseteq Seq(Nested[m + 1])
    BY <2>2
  <2>5. NestedIn(Nested[m]) \subseteq NestedIn(Nested[m + 1])
    BY <2>4 DEF NestedIn
  <2> QED BY <2>3, <2>5
<1>4. \A m \in Nat : m \in S
  <2> HIDE DEF S
  <2> QED BY <1>2, <1>3, EveryNumber
<1>5. 0 \in T
  OBVIOUS
<1>6. ASSUME NEW m \in Nat, m \in T PROVE m + 1 \in T
  <2> SUFFICES ASSUME m + 1 <= MaxNesting, NEW k \in 0..(m + 1)
               PROVE  Nested[k] \subseteq Nested[m + 1]
    OBVIOUS
  <2>1. Nested[m] \subseteq Nested[m + 1]
    BY <1>1, <1>4
  <2>2. CASE k = m + 1
    BY <2>2
  <2>3. CASE k # m + 1
    <3>1. k \in 0..m /\ m <= MaxNesting
      BY <1>1, <2>3
    <3>2. Nested[k] \subseteq Nested[m]
      BY <1>6, <3>1
    <3> QED BY <2>1, <3>2
  <2> QED BY <2>2, <2>3
<1>7. n \in Nat /\ n <= MaxNesting
  BY <1>1
<1>8. n \in T
  <2> HIDE DEF T
  <2> QED BY <1>5, <1>6, <1>7, EveryNumber
<1> QED BY <1>7, <1>8

(* A part is a leaf, or a multipart with a sequence of parts.               *)
LEMMA PartsAre ==
  /\ Leaf \subseteq Part
  /\ \A n \in 0..MaxNesting : Nested[n] \subseteq Part
  /\ \A p \in Part : IF IsMultipart(p) THEN p.parts \in Seq(Part) /\ p.kind \in Multiparts
                                        ELSE p \in Leaf
<1>1. MaxNesting \in Nat
  BY MimeAssumption DEF MimeAssumption
<1>2. ASSUME NEW n \in 0..MaxNesting PROVE Nested[n] \subseteq Part
  <2>1. MaxNesting \in 0..MaxNesting
    BY <1>1
  <2> QED BY <2>1, NestedGrows DEF Part
<1>3. Leaf \subseteq Part
  BY <1>1, <1>2, NestedIs
<1>4. ASSUME NEW p \in Part
      PROVE  IF IsMultipart(p) THEN p.parts \in Seq(Part) /\ p.kind \in Multiparts ELSE p \in Leaf
  <2>1. CASE p \in Leaf
    BY <2>1, LeavesAreNoMultiparts
  <2>2. CASE p \notin Leaf
    <3>1. MaxNesting # 0
      BY <2>2, NestedIs DEF Part
    <3>2. MaxNesting \in 1..MaxNesting /\ MaxNesting - 1 \in 0..MaxNesting
      BY <1>1, <3>1
    <3>3. p \in NestedIn(Nested[MaxNesting - 1])
      BY <3>2, NestedIs DEF Part
    <3>4. IsMultipart(p) /\ p.parts \in Seq(Nested[MaxNesting - 1])
      BY <2>2, <3>3, MultipartsAre
    <3>5. p.parts \in Seq(Part)
      BY <1>2, <3>2, <3>4
    <3> QED BY <3>4, <3>5 DEF IsMultipart
  <2> QED BY <2>1, <2>2
<1> QED BY <1>2, <1>3, <1>4

(* Induction and recursion over parts.                                      *)
LEMMA EveryPart ==
  ASSUME NEW S, Leaf \subseteq S,
         \A p \in Part : IsMultipart(p) /\ p.parts \in Seq(S) => p \in S
  PROVE  Part \subseteq S
<1> DEFINE T == {n \in Nat : n <= MaxNesting => Nested[n] \subseteq S}
<1>1. MaxNesting \in Nat
  BY MimeAssumption DEF MimeAssumption
<1>2. 0 \in T
  BY NestedIs
<1>3. ASSUME NEW n \in Nat, n \in T PROVE n + 1 \in T
  <2> SUFFICES ASSUME n + 1 <= MaxNesting, NEW p \in Nested[n + 1], p \notin Leaf PROVE p \in S
    OBVIOUS
  <2>1. n + 1 \in 1..MaxNesting /\ n + 1 \in 0..MaxNesting /\ (n + 1) - 1 = n /\ n <= MaxNesting
    BY <1>1
  <2>2. p \in NestedIn(Nested[n]) /\ p \in Part
    BY <2>1, NestedIs, PartsAre
  <2>3. IsMultipart(p) /\ p.parts \in Seq(Nested[n])
    BY <2>2, MultipartsAre
  <2>4. Nested[n] \subseteq S
    BY <1>3, <2>1
  <2>5. p.parts \in Seq(S)
    BY <2>3, <2>4
  <2> QED BY <2>2, <2>3, <2>5
<1>4. MaxNesting \in T
  <2> HIDE DEF T
  <2> QED BY <1>1, <1>2, <1>3, EveryNumber
<1> QED BY <1>1, <1>4 DEF Part

LEMMA ElementsOf ==
  ASSUME NEW X, NEW s \in Seq(X)
  PROVE  DOMAIN s = 1..Len(s) /\ Len(s) \in Nat /\ \A i \in DOMAIN s : s[i] \in X
OBVIOUS

Mapped(f, s) == [i \in DOMAIN s |-> f[s[i]]]

LEMMA MappedSeq ==
  ASSUME NEW X, NEW V, NEW s \in Seq(X), NEW f \in [X -> V]
  PROVE  Mapped(f, s) \in Seq(V)
BY DEF Mapped

IsWalk(f, V, leaf, join) ==
  /\ f \in [Part -> V]
  /\ \A p \in Part :
       f[p] = IF IsMultipart(p) THEN join[<<p, [i \in DOMAIN p.parts |-> f[p.parts[i]]]>>]
                                ELSE leaf[p]

(* A walk over the parts, given by what it makes of a leaf and how it joins *)
(* the results of a multipart's parts, exists.                              *)
LEMMA PartRecursion ==
  ASSUME NEW V, NEW leaf \in [Leaf -> V], NEW join \in [Part \X Seq(V) -> V]
  PROVE  \E f : IsWalk(f, V, leaf, join)
<1> DEFINE Is(f, p) ==
             f[p] = IF IsMultipart(p) THEN join[<<p, [i \in DOMAIN p.parts |-> f[p.parts[i]]]>>]
                                      ELSE leaf[p]
           Solves(f, n) == f \in [Nested[n] -> V] /\ \A p \in Nested[n] : Is(f, p)
           S == {n \in Nat : n <= MaxNesting => \E f : Solves(f, n)}
<1>1. MaxNesting \in Nat
  BY MimeAssumption DEF MimeAssumption
<1>2. 0 \in S
  <2>1. ASSUME NEW p \in Leaf PROVE Is(leaf, p)
    BY LeavesAreNoMultiparts
  <2>2. Nested[0] = Leaf
    BY NestedIs
  <2>3. Solves(leaf, 0)
    BY <2>1, <2>2
  <2> HIDE DEF Solves
  <2> QED BY <2>3
<1>3. ASSUME NEW n \in Nat, n \in S PROVE n + 1 \in S
  <2> SUFFICES ASSUME n + 1 <= MaxNesting PROVE \E g : Solves(g, n + 1)
    <3> HIDE DEF Solves
    <3> QED OBVIOUS
  <2>1. n + 1 \in 1..MaxNesting /\ n + 1 \in 0..MaxNesting /\ n \in 0..MaxNesting
        /\ (n + 1) - 1 = n /\ n <= MaxNesting /\ n \in 0..(n + 1)
    BY <1>1
  <2>2. PICK f : Solves(f, n)
    BY <1>3, <2>1
  <2>3. Nested[n + 1] = NestedIn(Nested[n]) /\ Nested[n] \subseteq Nested[n + 1]
        /\ Nested[n + 1] \subseteq Part
    BY <2>1, NestedIs, NestedGrows, PartsAre
  <2>4. ASSUME NEW p \in Nested[n + 1], IsMultipart(p)
        PROVE  /\ p.parts \in Seq(Nested[n]) /\ p \in Part
               /\ [i \in DOMAIN p.parts |-> f[p.parts[i]]] \in Seq(V)
    <3>1. p \notin Leaf /\ p \in Part
      BY <2>3, <2>4, LeavesAreNoMultiparts
    <3>2. p.parts \in Seq(Nested[n])
      BY <2>3, <3>1, MultipartsAre
    <3>3. f \in [Nested[n] -> V]
      BY <2>2
    <3>4. [i \in DOMAIN p.parts |-> f[p.parts[i]]] \in Seq(V)
      <4>1. Mapped(f, p.parts) \in Seq(V)
        BY <3>2, <3>3, MappedSeq, ZenonT(40)
      <4> QED BY <4>1 DEF Mapped
    <3> QED BY <3>1, <3>2, <3>4
  <2> DEFINE g == [p \in Nested[n + 1] |->
                     IF IsMultipart(p) THEN join[<<p, [i \in DOMAIN p.parts |-> f[p.parts[i]]]>>]
                                       ELSE leaf[p]]
  <2>5. g \in [Nested[n + 1] -> V]
    <3>1. ASSUME NEW p \in Nested[n + 1], IsMultipart(p)
          PROVE  join[<<p, [i \in DOMAIN p.parts |-> f[p.parts[i]]]>>] \in V
      BY <2>4, <3>1
    <3>2. ASSUME NEW p \in Nested[n + 1], ~IsMultipart(p) PROVE leaf[p] \in V
      BY <2>3, <3>2, PartsAre
    <3> QED BY <3>1, <3>2
  <2>6. ASSUME NEW p \in Nested[n] PROVE g[p] = f[p]
    <3>1. Is(f, p) /\ p \in Nested[n + 1]
      BY <2>2, <2>3
    <3> QED BY <3>1
  <2>7. ASSUME NEW p \in Nested[n + 1] PROVE Is(g, p)
    <3>1. CASE IsMultipart(p)
      <4>1. \A i \in DOMAIN p.parts : p.parts[i] \in Nested[n]
        <5> HIDE DEF Solves, S, Is, g
        <5> QED BY <2>4, <3>1, ElementsOf
      <4>2. \A i \in DOMAIN p.parts : g[p.parts[i]] = f[p.parts[i]]
        BY <2>6, <4>1
      <4>3. [i \in DOMAIN p.parts |-> g[p.parts[i]]] = [i \in DOMAIN p.parts |-> f[p.parts[i]]]
        BY <4>2
      <4>4. g[p] = join[<<p, [i \in DOMAIN p.parts |-> f[p.parts[i]]]>>]
        BY <3>1
      <4> HIDE DEF g
      <4> QED BY <3>1, <4>3, <4>4
    <3>2. CASE ~IsMultipart(p)
      BY <3>2
    <3> QED BY <3>1, <3>2
  <2> HIDE DEF g
  <2>8. Solves(g, n + 1)
    BY <2>5, <2>7
  <2> HIDE DEF Solves
  <2> QED BY <2>8
<1>4. MaxNesting \in S
  <2> HIDE DEF S
  <2> QED BY <1>1, <1>2, <1>3, EveryNumber
<1>5. PICK f : Solves(f, MaxNesting)
  <2> HIDE DEF Solves
  <2> QED BY <1>1, <1>4
<1>6. IsWalk(f, V, leaf, join)
  BY <1>5 DEF Part, IsWalk
<1> HIDE DEF Solves
<1> QED BY <1>6
-------------------------------------------------------------------------------
(* FoldLeft goes through a sequence from its first element to its last:     *)
(* what it has after i elements.                                            *)
(* FoldLeft picks the last element first.                                   *)
Lasts(n) == [t \in SUBSET (1..n) |-> Max(t)]

(* A fold over a sequence is one over the set of its indices, from the last *)
(* on.                                                                      *)
LEMMA FoldLeftExists ==
  ASSUME NEW n \in Nat, NEW V, NEW base \in V, NEW step \in [V \X (1..n) -> V]
  PROVE  \E f : IsFold(f, 1..n, V, base, step, Lasts(n))
<1>1. Picks(Lasts(n), 1..n)
  BY MaxIsIn DEF Picks, Lasts
<1>2. IsFiniteSet(1..n)
  BY FS_Interval
<1> QED BY <1>1, <1>2, FoldExists

-------------------------------------------------------------------------------
(* What a fold over a sequence of n elements has after each of them.        *)
IsIter(g, n, V, base, step) ==
  \A t \in SUBSET (1..n) :
    IF t = {} THEN g[t] = base
    ELSE g[t \ {Max(t)}] \in V => g[t] = step[<<g[t \ {Max(t)}], Max(t)>>]

IsRun(b, n, V, base, step) ==
  /\ b \in [0..n -> V] /\ b[0] = base
  /\ \A i \in 1..n : b[i] = step[<<b[i - 1], i>>]

RunsTo(v, n, V, base, step) == \E b : IsRun(b, n, V, base, step) /\ b[n] = v

(* A value that is reached by such a function is reached by the steps of a  *)
(* loop.                                                                    *)
LEMMA RunExists ==
  ASSUME NEW n \in Nat, NEW V, NEW base \in V, NEW step \in [V \X (1..n) -> V], NEW g,
         IsIter(g, n, V, base, step)
  PROVE  RunsTo(g[1..n], n, V, base, step)
<1> DEFINE b == [i \in 0..n |-> g[1..i]]
<1>0. DOMAIN b = 0..n /\ b = [i \in 0..n |-> b[i]] /\ \A i \in 0..n : b[i] = g[1..i]
  OBVIOUS
<1> HIDE DEF b
<1> DEFINE S == {i \in Nat : i <= n => b[i] \in V /\ (i > 0 => b[i] = step[<<b[i - 1], i>>])}
<1>1. b[0] = base
  <2>1. 1..0 = {} /\ 0 \in 0..n /\ {} \in SUBSET (1..n)
    OBVIOUS
  <2>2. g[{}] = base
    BY <2>1 DEF IsIter
  <2> QED BY <1>0, <2>1, <2>2
<1>2. 0 \in S
  BY <1>1
<1>3. ASSUME NEW i \in Nat, i \in S PROVE i + 1 \in S
  <2> SUFFICES ASSUME i + 1 <= n
               PROVE  b[i + 1] \in V /\ b[i + 1] = step[<<b[(i + 1) - 1], i + 1>>]
    <3>1. i + 1 \in Nat
      OBVIOUS
    <3> QED BY <3>1
  <2>1. /\ i + 1 \in Nat \ {0} /\ i <= n /\ (i + 1) - 1 = i /\ i \in 0..n /\ i + 1 \in 0..n
        /\ i + 1 \in 1..n /\ 1..(i + 1) \in SUBSET (1..n) /\ 1..(i + 1) # {}
    <3>1. i + 1 \in 1..(i + 1)
      OBVIOUS
    <3> QED BY <3>1
  <2>2. Max(1..(i + 1)) = i + 1 /\ (1..(i + 1)) \ {i + 1} = 1..i
    BY <2>1, MaxOfInterval
  <2>3. g[1..i] \in V
    BY <1>0, <1>3, <2>1
  <2>4. g[1..(i + 1)] = step[<<g[1..i], i + 1>>]
    BY <2>1, <2>2, <2>3 DEF IsIter
  <2>5. step[<<g[1..i], i + 1>>] \in V
    BY <2>1, <2>3
  <2> HIDE DEF S
  <2> QED BY <1>0, <2>1, <2>4, <2>5
<1>4. \A i \in Nat : i \in S
  <2> HIDE DEF S
  <2> QED BY <1>2, <1>3, EveryNumber
<1>5. ASSUME NEW i \in 0..n PROVE b[i] \in V
  <2>1. i \in S /\ i <= n
    BY <1>4
  <2> QED BY <2>1
<1>6. ASSUME NEW i \in 1..n PROVE b[i] = step[<<b[i - 1], i>>]
  <2>1. i \in S /\ i <= n /\ i > 0
    BY <1>4
  <2> QED BY <2>1
<1>7. b \in [0..n -> V]
  BY <1>0, <1>5
<1>8. b[n] = g[1..n]
  BY <1>0
<1> QED BY <1>1, <1>6, <1>7, <1>8 DEF IsRun, RunsTo
-------------------------------------------------------------------------------
BodyNames == Name \cup {NoBody}
BodyPairs == [html : BodyNames, text : BodyNames]

LEMMA BodiesAre ==
  /\ Nothing \in BodyPairs /\ Nothing.html = NoBody /\ Nothing.text = NoBody
  /\ \A b, c \in BodyPairs : Over(b, c) \in BodyPairs
  /\ \A p \in Part : LeafBodies(p) \in BodyPairs
<1>1. Nothing \in BodyPairs /\ Nothing.html = NoBody /\ Nothing.text = NoBody
  BY DEF Nothing, Bodies, BodyPairs, BodyNames
<1>2. \A b, c \in BodyPairs : Over(b, c) \in BodyPairs
  BY DEF Over, Bodies, BodyPairs
<1>3. ASSUME NEW p \in Part PROVE LeafBodies(p) \in BodyPairs
  <2>1. CASE IsMultipart(p)
    BY <1>1, <2>1 DEF LeafBodies, IsMultipart, Multiparts, Alternatives
  <2>2. CASE ~IsMultipart(p)
    <3>1. p \in Leaf
      BY <2>2, PartsAre
    <3>2. p.name \in Name
      BY <3>1 DEF Leaf
    <3> QED BY <1>1, <3>2 DEF LeafBodies, Bodies, BodyPairs, BodyNames
  <2> QED BY <2>1, <2>2
<1> QED BY <1>1, <1>2, <1>3

(* The bodies c[i], one after the other: the last one of a kind counts, or  *)
(* the first one.                                                           *)
Onto(c) == [x \in BodyPairs \X DOMAIN c |-> Over(x[1], c[x[2]])]
Under(c) == [x \in BodyPairs \X DOMAIN c |-> Over(c[x[2]], x[1])]

LEMMA OntoAndUnder ==
  ASSUME NEW n \in Nat, NEW c \in [1..n -> BodyPairs]
  PROVE  /\ Onto(c) \in [BodyPairs \X (1..n) -> BodyPairs]
         /\ Under(c) \in [BodyPairs \X (1..n) -> BodyPairs]
         /\ \A b \in BodyPairs : \A i \in 1..n :
              Onto(c)[<<b, i>>] = Over(b, c[i]) /\ Under(c)[<<b, i>>] = Over(c[i], b)
BY BodiesAre DEF Onto, Under

(* Joined: bodies b are of c, and missing only where all of c lack them.    *)
Joined(b, n, c) ==
  /\ b \in BodyPairs
  /\ IF b.html = NoBody THEN \A i \in 1..n : c[i].html = NoBody
                        ELSE \E i \in 1..n : c[i].html = b.html
  /\ IF b.text = NoBody THEN \A i \in 1..n : c[i].text = NoBody
                        ELSE \E i \in 1..n : c[i].text = b.text

(* Loops that put bodies over bodies, from either side: there is a body at  *)
(* the end when one of the elements had one, and it is one of theirs.       *)
LEMMA RunsJoin ==
  ASSUME NEW n \in Nat, NEW c \in [1..n -> BodyPairs], NEW b,
         \/ IsRun(b, n, BodyPairs, Nothing, Onto(c))
         \/ IsRun(b, n, BodyPairs, Nothing, Under(c))
  PROVE  Joined(b[n], n, c)
<1>1. /\ b \in [0..n -> BodyPairs] /\ b[0] = Nothing
      /\ \A i \in 1..n : \/ b[i] = Over(b[i - 1], c[i])
                         \/ b[i] = Over(c[i], b[i - 1])
  <2>1. ASSUME NEW i \in 1..n, b \in [0..n -> BodyPairs]
        PROVE  /\ Onto(c)[<<b[i - 1], i>>] = Over(b[i - 1], c[i])
               /\ Under(c)[<<b[i - 1], i>>] = Over(c[i], b[i - 1])
    <3>1. i - 1 \in 0..n
      OBVIOUS
    <3>2. b[i - 1] \in BodyPairs
      BY <2>1, <3>1
    <3> QED BY <3>2, OntoAndUnder
  <2> QED BY <2>1 DEF IsRun
<1> DEFINE S == {i \in Nat : i <= n => Joined(b[i], i, c)}
<1>2. 0 \in S
  BY <1>1, BodiesAre DEF Joined
<1>3. ASSUME NEW i \in Nat, i \in S PROVE i + 1 \in S
  <2> SUFFICES ASSUME i + 1 <= n PROVE Joined(b[i + 1], i + 1, c)
    OBVIOUS
  <2>1. i + 1 \in 1..n /\ i \in 0..n /\ i <= n /\ (i + 1) - 1 = i /\ i + 1 \in 0..n
    OBVIOUS
  <2>2. Joined(b[i], i, c) /\ b[i + 1] \in BodyPairs
    BY <1>1, <1>3, <2>1
  <2>3. \/ b[i + 1] = Over(b[i], c[i + 1])
        \/ b[i + 1] = Over(c[i + 1], b[i])
    BY <1>1, <2>1
  <2>4. \A k \in 1..(i + 1) : k = i + 1 \/ k \in 1..i
    OBVIOUS
  <2>5. \A k \in 1..i : k \in 1..(i + 1)
    OBVIOUS
  <2>6. i + 1 \in 1..(i + 1)
    OBVIOUS
  <2>7. IF b[i + 1].html = NoBody THEN b[i].html = NoBody /\ c[i + 1].html = NoBody
                                  ELSE b[i + 1].html \in {b[i].html, c[i + 1].html}
    BY <2>3 DEF Over, Bodies
  <2>8. IF b[i + 1].text = NoBody THEN b[i].text = NoBody /\ c[i + 1].text = NoBody
                                  ELSE b[i + 1].text \in {b[i].text, c[i + 1].text}
    BY <2>3 DEF Over, Bodies
  <2> QED BY <2>2, <2>4, <2>5, <2>6, <2>7, <2>8 DEF Joined
<1>4. n \in S
  <2> HIDE DEF S
  <2> QED BY <1>2, <1>3, EveryNumber
<1> QED BY <1>4

(* What a fold computes, from the function that its definition chooses.     *)
BodiesOf(s) == [i \in DOMAIN s |-> LeafBodies(s[i])]

(* extractMultipartAlternative is a loop over the bodies of the parts.      *)
LEMMA AlternativeIs ==
  ASSUME NEW s \in Seq(Part)
  PROVE  /\ BodiesOf(s) \in [1..Len(s) -> BodyPairs]
         /\ Joined(ExtractMultipartAlternative(s), Len(s), BodiesOf(s))
<1> DEFINE n == Len(s)
           Solves(f) == f = [t \in SUBSET DOMAIN s |->
                               IF t = {} THEN Nothing
                               ELSE Over(f[t \ {Max(t)}], LeafBodies(s[Max(t)]))]
           c == BodiesOf(s)
           g == CHOOSE f : Solves(f)
<1>1. n \in Nat /\ DOMAIN s = 1..n /\ \A i \in 1..n : s[i] \in Part
  BY ElementsOf
<1>2. c \in [1..n -> BodyPairs] /\ \A i \in 1..n : c[i] = LeafBodies(s[i])
  BY <1>1, BodiesAre DEF BodiesOf
<1> HIDE DEF n, c
<1>3. ASSUME NEW t \in SUBSET (1..n), t # {}, NEW b \in BodyPairs
      PROVE  Onto(c)[<<b, Max(t)>>] = Over(b, LeafBodies(s[Max(t)]))
  <2>1. Max(t) \in 1..n
    BY <1>1, <1>3, MaxIsIn
  <2> QED BY <1>1, <1>2, <2>1, OntoAndUnder, ZenonT(40)
<1>4. \E f : Solves(f)
  <2>1. PICK f : IsFold(f, 1..n, BodyPairs, Nothing, Onto(c), Lasts(n))
    BY <1>1, <1>2, BodiesAre, OntoAndUnder, FoldLeftExists
  <2>2. ASSUME NEW t \in SUBSET (1..n), t # {} PROVE f[t \ {Max(t)}] \in BodyPairs
    <3>1. t \ {Max(t)} \in SUBSET (1..n)
      OBVIOUS
    <3> QED BY <2>1, <3>1 DEF IsFold
  <2>3. Solves(f)
    BY <1>1, <1>3, <2>1, <2>2 DEF IsFold, Lasts
  <2> QED BY <2>3
<1>5. ExtractMultipartAlternative(s) = g[1..n]
  BY <1>1 DEF ExtractMultipartAlternative, FoldLeft, MapThenFoldSet
<1>6. Solves(g)
  BY <1>4
<1> HIDE DEF g
<1>7. IsIter(g, n, BodyPairs, Nothing, Onto(c))
  BY <1>1, <1>3, <1>6 DEF IsIter
<1>8. PICK b : IsRun(b, n, BodyPairs, Nothing, Onto(c)) /\ b[n] = g[1..n]
  <2>1. Onto(c) \in [BodyPairs \X (1..n) -> BodyPairs] /\ Nothing \in BodyPairs /\ n \in Nat
    BY <1>1, <1>2, BodiesAre, OntoAndUnder
  <2>2. RunsTo(g[1..n], n, BodyPairs, Nothing, Onto(c))
    BY <1>7, <2>1, RunExists
  <2> QED BY <2>2 DEF RunsTo
<1> QED BY <1>1, <1>2, <1>5, <1>8, RunsJoin DEF n, c

IsBodyPart(p) == IF IsMultipart(p) THEN p.kind # "attached" ELSE p.disposition # "attachment"

(* The bodies of the parts of a mixed message, where attachments have none. *)
MixedBodies(p) ==
  IF ~IsBodyPart(p) THEN Nothing
  ELSE IF p.kind = "alternative" THEN ExtractMultipartAlternative(p.parts) ELSE LeafBodies(p)
MixedBodiesOf(s) == [i \in DOMAIN s |-> MixedBodies(s[i])]

LEMMA MixedBodiesAre ==
  ASSUME NEW p \in Part
  PROVE  MixedBodies(p) \in BodyPairs
<1>1. CASE p.kind = "alternative"
  <2>1. IsMultipart(p)
    BY <1>1 DEF IsMultipart, Multiparts, Alternatives
  <2>2. p.parts \in Seq(Part)
    BY <2>1, PartsAre
  <2>3. Joined(ExtractMultipartAlternative(p.parts), Len(p.parts), BodiesOf(p.parts))
    BY <2>2, AlternativeIs
  <2> QED BY <1>1, <2>1, <2>3 DEF Joined, MixedBodies, IsBodyPart
<1>2. CASE p.kind # "alternative"
  BY <1>2, BodiesAre DEF MixedBodies
<1> QED BY <1>1, <1>2

LEMMA OverNothing ==
  ASSUME NEW b \in BodyPairs
  PROVE  Over(b, Nothing) = b
BY DEF Over, Nothing, Bodies, BodyPairs

(* extractMultipartMixed is a loop over the bodies of the parts that are    *)
(* not attachments.                                                         *)
LEMMA MixedIs ==
  ASSUME NEW s \in Seq(Part)
  PROVE  /\ MixedBodiesOf(s) \in [1..Len(s) -> BodyPairs]
         /\ Joined(ExtractMultipartMixed(s), Len(s), MixedBodiesOf(s))
<1> DEFINE n == Len(s)
           Of(p) == IF p.kind = "alternative" THEN ExtractMultipartAlternative(p.parts)
                                              ELSE LeafBodies(p)
           Step(b, p) ==
             IF IF IsMultipart(p) THEN p.kind # "attached" ELSE p.disposition # "attachment"
               THEN Over(b, Of(p)) ELSE b
           Solves(f) == f = [t \in SUBSET DOMAIN s |->
                               IF t = {} THEN Nothing
                               ELSE Step(f[t \ {Max(t)}], s[Max(t)])]
           c == MixedBodiesOf(s)
           g == CHOOSE f : Solves(f)
<1>1. n \in Nat /\ DOMAIN s = 1..n /\ \A i \in 1..n : s[i] \in Part
  BY ElementsOf
<1>2. c \in [1..n -> BodyPairs] /\ \A i \in 1..n : c[i] = MixedBodies(s[i])
  BY <1>1, MixedBodiesAre DEF MixedBodiesOf
<1>5. ExtractMultipartMixed(s) = g[1..n]
  <2>1. ExtractMultipartMixed(s) = g[DOMAIN s]
    BY DEF ExtractMultipartMixed, FoldLeft, MapThenFoldSet
  <2> QED BY <1>1, <2>1
<1> HIDE DEF n, c
<1>3. ASSUME NEW t \in SUBSET (1..n), t # {}, NEW b \in BodyPairs
      PROVE  Onto(c)[<<b, Max(t)>>] = Step(b, s[Max(t)])
  <2>1. Max(t) \in 1..n
    BY <1>1, <1>3, MaxIsIn
  <2>2. Onto(c)[<<b, Max(t)>>] = Over(b, MixedBodies(s[Max(t)]))
    BY <1>1, <1>2, <2>1, OntoAndUnder, ZenonT(40)
  <2>3. Over(b, MixedBodies(s[Max(t)])) = Step(b, s[Max(t)])
    BY OverNothing DEF MixedBodies, IsBodyPart
  <2> QED BY <2>2, <2>3
<1> HIDE DEF Step
<1>4. \E f : Solves(f)
  <2>1. PICK f : IsFold(f, 1..n, BodyPairs, Nothing, Onto(c), Lasts(n))
    BY <1>1, <1>2, BodiesAre, OntoAndUnder, FoldLeftExists
  <2>2. ASSUME NEW t \in SUBSET (1..n), t # {} PROVE f[t \ {Max(t)}] \in BodyPairs
    <3>1. t \ {Max(t)} \in SUBSET (1..n)
      OBVIOUS
    <3> QED BY <2>1, <3>1 DEF IsFold
  <2>3. Solves(f)
    BY <1>1, <1>3, <2>1, <2>2 DEF IsFold, Lasts
  <2> QED BY <2>3
<1>6. Solves(g)
  BY <1>4
<1> HIDE DEF g
<1>7. IsIter(g, n, BodyPairs, Nothing, Onto(c))
  BY <1>1, <1>3, <1>6 DEF IsIter
<1>8. PICK b : IsRun(b, n, BodyPairs, Nothing, Onto(c)) /\ b[n] = g[1..n]
  <2>1. Onto(c) \in [BodyPairs \X (1..n) -> BodyPairs] /\ Nothing \in BodyPairs /\ n \in Nat
    BY <1>1, <1>2, BodiesAre, OntoAndUnder
  <2>2. RunsTo(g[1..n], n, BodyPairs, Nothing, Onto(c))
    BY <1>7, <2>1, RunExists
  <2> QED BY <2>2 DEF RunsTo
<1> QED BY <1>1, <1>2, <1>5, <1>8, RunsJoin DEF n, c

(* Two runs of one loop are the same.                                       *)
LEMMA RunIsUnique ==
  ASSUME NEW n \in Nat, NEW V, NEW base, NEW step, NEW b, NEW c,
         IsRun(b, n, V, base, step), IsRun(c, n, V, base, step)
  PROVE  b[n] = c[n]
<1> DEFINE S == {i \in Nat : i <= n => b[i] = c[i]}
<1>1. 0 \in S
  BY DEF IsRun
<1>2. ASSUME NEW i \in Nat, i \in S PROVE i + 1 \in S
  <2> SUFFICES ASSUME i + 1 <= n PROVE b[i + 1] = c[i + 1]
    OBVIOUS
  <2>1. i + 1 \in 1..n /\ (i + 1) - 1 = i /\ i <= n
    OBVIOUS
  <2>2. b[i] = c[i]
    BY <1>2, <2>1
  <2>3. b[i + 1] = step[<<b[(i + 1) - 1], i + 1>>] /\ c[i + 1] = step[<<c[(i + 1) - 1], i + 1>>]
    BY <2>1 DEF IsRun
  <2> QED BY <2>1, <2>2, <2>3
<1>3. n \in S
  <2> HIDE DEF S
  <2> QED BY <1>1, <1>2, EveryNumber
<1> QED BY <1>3

(* Every step has a run.                                                    *)
LEMMA EveryRunExists ==
  ASSUME NEW n \in Nat, NEW V, NEW base \in V, NEW step \in [V \X (1..n) -> V]
  PROVE  \E b : IsRun(b, n, V, base, step)
<1>1. PICK f : IsFold(f, 1..n, V, base, step, Lasts(n))
  BY FoldLeftExists
<1>2. IsIter(f, n, V, base, step)
  BY <1>1 DEF IsFold, IsIter, Lasts
<1>3. RunsTo(f[1..n], n, V, base, step)
  BY <1>2, RunExists
<1> QED BY <1>3 DEF RunsTo

GenericBodiesOf(f, s) == [i \in DOMAIN s |-> f[s[i]]]

(* What the first bodies are in a fold that takes those of a part from f.   *)
FirstBodies(f, s) == FoldLeft(LAMBDA b, q : Over(f[q], b), Nothing, s)

(* extractMultipartGeneric at one multipart is a loop over what the walk    *)
(* returns for its parts.                                                   *)
LEMMA FirstBodiesRun ==
  ASSUME NEW f, NEW s \in Seq(Part), GenericBodiesOf(f, s) \in [1..Len(s) -> BodyPairs]
  PROVE  RunsTo(FirstBodies(f, s), Len(s), BodyPairs, Nothing, Under(GenericBodiesOf(f, s)))
<1> DEFINE n == Len(s)
           Step(b, p) == Over(f[p], b)
           Solves(h) == h = [t \in SUBSET DOMAIN s |->
                               IF t = {} THEN Nothing
                               ELSE Step(h[t \ {Max(t)}], s[Max(t)])]
           c == GenericBodiesOf(f, s)
           g == CHOOSE h : Solves(h)
<1>1. n \in Nat /\ DOMAIN s = 1..n /\ \A i \in 1..n : s[i] \in Part
  BY ElementsOf
<1>2. c \in [1..n -> BodyPairs] /\ \A i \in 1..n : c[i] = f[s[i]]
  BY <1>1 DEF GenericBodiesOf
<1>5. FirstBodies(f, s) = g[1..n]
  <2>1. FirstBodies(f, s) = g[DOMAIN s]
    BY DEF FirstBodies, FoldLeft, MapThenFoldSet
  <2> QED BY <1>1, <2>1
<1> HIDE DEF n, c
<1>3. ASSUME NEW t \in SUBSET (1..n), t # {}, NEW b \in BodyPairs
      PROVE  Under(c)[<<b, Max(t)>>] = Step(b, s[Max(t)])
  <2>1. Max(t) \in 1..n
    BY <1>1, <1>3, MaxIsIn
  <2>2. Under(c)[<<b, Max(t)>>] = Over(c[Max(t)], b)
    BY <1>1, <1>2, <2>1, OntoAndUnder
  <2>3. c[Max(t)] = f[s[Max(t)]]
    BY <1>2, <2>1
  <2> QED BY <2>2, <2>3
<1> HIDE DEF Step
<1>4. \E h : Solves(h)
  <2>1. PICK h : IsFold(h, 1..n, BodyPairs, Nothing, Under(c), Lasts(n))
    BY <1>1, <1>2, BodiesAre, OntoAndUnder, FoldLeftExists
  <2>2. ASSUME NEW t \in SUBSET (1..n), t # {} PROVE h[t \ {Max(t)}] \in BodyPairs
    <3>1. t \ {Max(t)} \in SUBSET (1..n)
      OBVIOUS
    <3> QED BY <2>1, <3>1 DEF IsFold
  <2>3. Solves(h)
    BY <1>1, <1>3, <2>1, <2>2 DEF IsFold, Lasts
  <2> QED BY <2>3
<1>6. Solves(g)
  BY <1>4
<1> HIDE DEF g
<1>7. IsIter(g, n, BodyPairs, Nothing, Under(c))
  BY <1>1, <1>3, <1>6 DEF IsIter
<1>8. RunsTo(g[1..n], n, BodyPairs, Nothing, Under(c))
  <2>1. Under(c) \in [BodyPairs \X (1..n) -> BodyPairs] /\ Nothing \in BodyPairs /\ n \in Nat
    BY <1>1, <1>2, BodiesAre, OntoAndUnder
  <2> QED BY <1>7, <2>1, RunExists
<1> QED BY <1>5, <1>8 DEF n, c

(* The end of the run over the bodies c.                                    *)
FirstOf(c) == (CHOOSE b : IsRun(b, Len(c), BodyPairs, Nothing, Under(c)))[Len(c)]

LEMMA FirstOfIs ==
  ASSUME NEW c \in Seq(BodyPairs)
  PROVE  /\ FirstOf(c) \in BodyPairs
         /\ \A v : RunsTo(v, Len(c), BodyPairs, Nothing, Under(c)) => v = FirstOf(c)
<1> DEFINE n == Len(c)
           b == CHOOSE r : IsRun(r, n, BodyPairs, Nothing, Under(c))
<1>1. n \in Nat /\ c \in [1..n -> BodyPairs]
  OBVIOUS
<1>2. FirstOf(c) = b[n]
  BY DEF FirstOf
<1> HIDE DEF n
<1>3. Under(c) \in [BodyPairs \X (1..n) -> BodyPairs] /\ Nothing \in BodyPairs
  BY <1>1, BodiesAre, OntoAndUnder
<1>4. \E r : IsRun(r, n, BodyPairs, Nothing, Under(c))
  BY <1>1, <1>3, EveryRunExists
<1>5. IsRun(b, n, BodyPairs, Nothing, Under(c))
  BY <1>4
<1> HIDE DEF b
<1>6. b[n] \in BodyPairs
  BY <1>1, <1>5 DEF IsRun
<1>7. ASSUME NEW v, RunsTo(v, n, BodyPairs, Nothing, Under(c)) PROVE v = b[n]
  <2>1. PICK r : IsRun(r, n, BodyPairs, Nothing, Under(c)) /\ r[n] = v
    BY <1>7 DEF RunsTo
  <2> QED BY <1>1, <1>5, <2>1, RunIsUnique
<1> QED BY <1>2, <1>6, <1>7 DEF n

(* The recursive function ExtractMultipartGeneric exists and satisfies its  *)
(* equation for every part.                                                 *)
LEMMA GenericIs ==
  /\ ExtractMultipartGeneric \in [Part -> BodyPairs]
  /\ \A p \in Part : ExtractMultipartGeneric[p] =
       IF ~IsMultipart(p) THEN LeafBodies(p)
       ELSE IF p.kind \in Alternatives THEN ExtractMultipartAlternative(p.parts)
       ELSE FirstBodies(ExtractMultipartGeneric, p.parts)
<1> DEFINE Solves(f) ==
             f = [p \in Part |->
                    IF p.kind \in Alternatives THEN ExtractMultipartAlternative(p.parts)
                    ELSE IF IsMultipart(p) THEN FirstBodies(f, p.parts) ELSE LeafBodies(p)]
           leaf == [p \in Leaf |-> LeafBodies(p)]
           join == [x \in Part \X Seq(BodyPairs) |->
                      IF x[1].kind \in Alternatives
                        THEN IF IsMultipart(x[1]) THEN ExtractMultipartAlternative(x[1].parts)
                                                  ELSE Nothing
                        ELSE FirstOf(x[2])]
           Is(f, p) == f[p] = IF IsMultipart(p)
                                THEN join[<<p, [i \in DOMAIN p.parts |-> f[p.parts[i]]]>>]
                                ELSE leaf[p]
<1>1. leaf \in [Leaf -> BodyPairs] /\ \A p \in Leaf : leaf[p] = LeafBodies(p)
  BY BodiesAre, PartsAre
<1>2. ASSUME NEW p \in Part, IsMultipart(p)
      PROVE  /\ p.parts \in Seq(Part) /\ ExtractMultipartAlternative(p.parts) \in BodyPairs
             /\ p.kind \in Multiparts
  <2>1. p.parts \in Seq(Part) /\ p.kind \in Multiparts
    BY <1>2, PartsAre
  <2>2. Joined(ExtractMultipartAlternative(p.parts), Len(p.parts), BodiesOf(p.parts))
    BY <2>1, AlternativeIs
  <2> QED BY <2>1, <2>2 DEF Joined
<1>3. join \in [Part \X Seq(BodyPairs) -> BodyPairs]
  <2>1. Nothing \in BodyPairs
    BY BodiesAre
  <2>2. \A x \in Part \X Seq(BodyPairs) : x[1] \in Part /\ FirstOf(x[2]) \in BodyPairs
    BY FirstOfIs
  <2> QED BY <1>2, <2>1, <2>2
<1>4. \A p \in Part : \A vs \in Seq(BodyPairs) : IsMultipart(p) =>
        join[<<p, vs>>] = IF p.kind \in Alternatives THEN ExtractMultipartAlternative(p.parts)
                                                    ELSE FirstOf(vs)
  OBVIOUS
<1> HIDE DEF leaf, join
<1>5. PICK f \in [Part -> BodyPairs] : \A p \in Part : Is(f, p)
  <2>1. PICK f : IsWalk(f, BodyPairs, leaf, join)
    BY <1>1, <1>3, PartRecursion
  <2> QED BY <2>1 DEF IsWalk
<1>6. ASSUME NEW p \in Part, IsMultipart(p), NEW h \in [Part -> BodyPairs]
      PROVE  /\ GenericBodiesOf(h, p.parts) \in Seq(BodyPairs)
             /\ FirstOf(GenericBodiesOf(h, p.parts)) = FirstBodies(h, p.parts)
             /\ GenericBodiesOf(h, p.parts) = [i \in DOMAIN p.parts |-> h[p.parts[i]]]
  <2>1. p.parts \in Seq(Part)
    BY <1>2, <1>6
  <2>2. GenericBodiesOf(h, p.parts) \in Seq(BodyPairs)
        /\ GenericBodiesOf(h, p.parts) = [i \in DOMAIN p.parts |-> h[p.parts[i]]]
    <3>1. Mapped(h, p.parts) \in Seq(BodyPairs)
      BY <1>6, <2>1, MappedSeq, ZenonT(40)
    <3> QED BY <3>1 DEF Mapped, GenericBodiesOf
  <2>3. Len(GenericBodiesOf(h, p.parts)) = Len(p.parts)
    BY <2>1, <2>2, ElementsOf
  <2>4. RunsTo(FirstBodies(h, p.parts), Len(p.parts), BodyPairs, Nothing,
               Under(GenericBodiesOf(h, p.parts)))
    <3>1. Len(p.parts) \in Nat /\ DOMAIN p.parts = 1..Len(p.parts)
      BY <2>1, ElementsOf
    <3>2. GenericBodiesOf(h, p.parts) \in [1..Len(p.parts) -> BodyPairs]
      BY <2>2, <2>3, <3>1
    <3> QED BY <2>1, <3>2, FirstBodiesRun
  <2> QED BY <2>2, <2>3, <2>4, FirstOfIs
<1>7. ASSUME NEW p \in Part
      PROVE  f[p] = IF p.kind \in Alternatives THEN ExtractMultipartAlternative(p.parts)
                    ELSE IF IsMultipart(p) THEN FirstBodies(f, p.parts) ELSE LeafBodies(p)
  <2>1. CASE IsMultipart(p)
    <3>1. f[p] = join[<<p, GenericBodiesOf(f, p.parts)>>]
      BY <1>5, <1>6, <2>1
    <3>2. f[p] = IF p.kind \in Alternatives THEN ExtractMultipartAlternative(p.parts)
                                           ELSE FirstBodies(f, p.parts)
      BY <1>4, <1>6, <2>1, <3>1
    <3> QED BY <1>2, <2>1, <3>2 DEF Multiparts, Alternatives
  <2>2. CASE ~IsMultipart(p)
    <3>1. p \in Leaf
      BY <2>2, PartsAre
    <3>2. f[p] = LeafBodies(p)
      BY <1>1, <1>5, <2>2, <3>1
    <3> QED BY <2>2, <3>2 DEF IsMultipart, Multiparts, Alternatives
  <2> QED BY <2>1, <2>2
<1>8. Solves(f)
  <2>1. f = [p \in Part |-> f[p]]
    OBVIOUS
  <2> QED BY <1>7, <2>1
<1>9. ExtractMultipartGeneric = CHOOSE h : Solves(h)
  BY DEF ExtractMultipartGeneric, FirstBodies
<1>10. Solves(ExtractMultipartGeneric)
  <2> HIDE DEF Solves
  <2> QED BY <1>8, <1>9
<1>11. \A p \in Part : ExtractMultipartGeneric[p] =
         IF p.kind \in Alternatives THEN ExtractMultipartAlternative(p.parts)
         ELSE IF IsMultipart(p) THEN FirstBodies(ExtractMultipartGeneric, p.parts)
         ELSE LeafBodies(p)
  BY <1>10
<1> DEFINE S == {p \in Part : ExtractMultipartGeneric[p] \in BodyPairs}
<1>12. Leaf \subseteq S
  <2> SUFFICES ASSUME NEW p \in Leaf PROVE p \in S
    OBVIOUS
  <2>1. p \in Part /\ ~IsMultipart(p)
    BY PartsAre, LeavesAreNoMultiparts
  <2>2. p.kind \notin Alternatives
    BY <2>1 DEF IsMultipart, Multiparts, Alternatives
  <2> QED BY <1>11, <2>1, <2>2, BodiesAre
<1>13. ASSUME NEW p \in Part, IsMultipart(p), p.parts \in Seq(S) PROVE p \in S
  <2>1. CASE p.kind \in Alternatives
    BY <1>2, <1>11, <1>13, <2>1
  <2>2. CASE p.kind \notin Alternatives
    <3> DEFINE s == p.parts
               c == GenericBodiesOf(ExtractMultipartGeneric, s)
    <3>1. s \in Seq(Part) /\ DOMAIN s = 1..Len(s) /\ Len(s) \in Nat
      BY <1>2, <1>13
    <3>2. \A i \in 1..Len(s) : s[i] \in S
      BY <1>13
    <3>3. c \in [1..Len(s) -> BodyPairs]
      <4>1. \A i \in 1..Len(s) : ExtractMultipartGeneric[s[i]] \in BodyPairs
        BY <3>2
      <4> QED BY <3>1, <4>1 DEF GenericBodiesOf
    <3> HIDE DEF s, c
    <3>4. RunsTo(FirstBodies(ExtractMultipartGeneric, s), Len(s), BodyPairs, Nothing, Under(c))
      BY <3>1, <3>3, FirstBodiesRun DEF c
    <3>5. FirstBodies(ExtractMultipartGeneric, s) \in BodyPairs
      BY <3>1, <3>4 DEF RunsTo, IsRun
    <3>6. ExtractMultipartGeneric[p] = FirstBodies(ExtractMultipartGeneric, s)
      BY <1>11, <1>13, <2>2 DEF s
    <3> QED BY <3>5, <3>6
  <2> QED BY <2>1, <2>2
<1>14. Part \subseteq S
  <2> HIDE DEF S
  <2> QED BY <1>12, <1>13, EveryPart
<1>15. ExtractMultipartGeneric \in [Part -> BodyPairs]
  <2>1. DOMAIN ExtractMultipartGeneric = Part
        /\ ExtractMultipartGeneric = [p \in Part |-> ExtractMultipartGeneric[p]]
    BY <1>10
  <2> HIDE DEF Solves
  <2> QED BY <1>14, <2>1
<1>16. ASSUME NEW p \in Part PROVE p.kind \in Alternatives => IsMultipart(p)
  BY DEF IsMultipart, Multiparts, Alternatives
<1> HIDE DEF Solves
<1> QED BY <1>11, <1>15, <1>16

(* The generic walk takes the first bodies of the parts.                    *)
LEMMA GenericJoins ==
  ASSUME NEW p \in Part, IsMultipart(p), p.kind \notin Alternatives
  PROVE  /\ GenericBodiesOf(ExtractMultipartGeneric, p.parts) \in [1..Len(p.parts) -> BodyPairs]
         /\ Joined(ExtractMultipartGeneric[p], Len(p.parts),
                   GenericBodiesOf(ExtractMultipartGeneric, p.parts))
<1> DEFINE s == p.parts
           c == GenericBodiesOf(ExtractMultipartGeneric, s)
<1>1. s \in Seq(Part) /\ DOMAIN s = 1..Len(s) /\ Len(s) \in Nat
  BY PartsAre, ElementsOf
<1>2. \A i \in 1..Len(s) : ExtractMultipartGeneric[s[i]] \in BodyPairs
  BY <1>1, GenericIs
<1>3. c \in [1..Len(s) -> BodyPairs]
  BY <1>1, <1>2 DEF GenericBodiesOf
<1>4. ExtractMultipartGeneric[p] = FirstBodies(ExtractMultipartGeneric, s)
  BY GenericIs
<1> HIDE DEF s, c
<1>5. RunsTo(FirstBodies(ExtractMultipartGeneric, s), Len(s), BodyPairs, Nothing, Under(c))
  BY <1>1, <1>3, FirstBodiesRun DEF c
<1>6. PICK b : IsRun(b, Len(s), BodyPairs, Nothing, Under(c))
               /\ b[Len(s)] = FirstBodies(ExtractMultipartGeneric, s)
  BY <1>5 DEF RunsTo
<1>7. Joined(b[Len(s)], Len(s), c)
  BY <1>1, <1>3, <1>6, RunsJoin
<1> QED BY <1>3, <1>4, <1>6, <1>7 DEF s, c
-------------------------------------------------------------------------------
(* FlattenSeq puts the sequences one behind the other.                      *)
IsFlat(b, ss, X) ==
  /\ b \in [0..Len(ss) -> Seq(X)] /\ b[0] = << >>
  /\ \A i \in 1..Len(ss) : b[i] = b[i - 1] \o ss[i]

FlattensTo(v, ss, X) == \E b : IsFlat(b, ss, X) /\ v = b[Len(ss)]

(* FlattenSeq appends one sequence after the other.                         *)
LEMMA FlattenIs ==
  ASSUME NEW X, NEW ss \in Seq(Seq(X))
  PROVE  FlattensTo(FlattenSeq(ss), ss, X)
<1> DEFINE n == Len(ss)
           step == [x \in Seq(X) \X (1..n) |-> x[1] \o ss[x[2]]]
           Solves(g) == g = [i \in 1..n |-> IF i = 1 THEN ss[i] ELSE g[i - 1] \o ss[i]]
           g == CHOOSE h : Solves(h)
<1>1. n \in Nat /\ DOMAIN ss = 1..n /\ \A i \in 1..n : ss[i] \in Seq(X)
  BY ElementsOf
<1>2. FlattenSeq(ss) = IF n = 0 THEN ss ELSE g[n]
  BY DEF FlattenSeq
<1>3. n = 0 => ss = << >>
  OBVIOUS
<1> HIDE DEF n
<1>4. step \in [Seq(X) \X (1..n) -> Seq(X)]
      /\ \A v \in Seq(X) : \A i \in 1..n : step[<<v, i>>] = v \o ss[i]
  <2>1. \A x \in Seq(X) \X (1..n) : x[1] \in Seq(X) /\ ss[x[2]] \in Seq(X)
    BY <1>1
  <2>2. \A v, w \in Seq(X) : v \o w \in Seq(X)
    BY ConcatProperties
  <2>3. \A x \in Seq(X) \X (1..n) : x[1] \o ss[x[2]] \in Seq(X)
    BY <2>1, <2>2
  <2>4. \A v \in Seq(X) : \A i \in 1..n : step[<<v, i>>] = v \o ss[i]
    OBVIOUS
  <2> QED BY <2>3, <2>4
<1>5. << >> \in Seq(X)
  OBVIOUS
<1> HIDE DEF step
<1>6. PICK b : IsRun(b, n, Seq(X), << >>, step)
  BY <1>1, <1>4, <1>5, EveryRunExists
<1>7. /\ b \in [0..n -> Seq(X)] /\ b[0] = << >>
      /\ \A i \in 1..n : b[i] = b[i - 1] \o ss[i]
  <2>1. ASSUME NEW i \in 1..n PROVE i - 1 \in 0..n
    BY <1>1
  <2> QED BY <1>4, <1>6, <2>1 DEF IsRun
<1>8. IsFlat(b, ss, X)
  BY <1>7 DEF IsFlat, n
<1>9. Solves([i \in 1..n |-> b[i]])
  <2>1. ASSUME NEW i \in 1..n PROVE b[i] = IF i = 1 THEN ss[i] ELSE b[i - 1] \o ss[i]
    <3>1. i = 1 => b[i] = << >> \o ss[i]
      <4>1. i = 1 => i - 1 = 0
        OBVIOUS
      <4>2. b[i] = b[i - 1] \o ss[i]
        BY <1>7
      <4> QED BY <1>7, <4>1, <4>2
    <3>2. << >> \o ss[i] = ss[i]
      BY <1>1, <2>1
    <3> QED BY <1>7, <2>1, <3>1, <3>2
  <2>2. ASSUME NEW i \in 1..n, i # 1 PROVE i - 1 \in 1..n
    BY <1>1, <2>2
  <2> QED BY <2>1, <2>2
<1>10. Solves(g)
  <2> HIDE DEF Solves
  <2> QED BY <1>9
<1> HIDE DEF g
<1> DEFINE S == {i \in Nat : 1 <= i /\ i <= n => g[i] = b[i]}
<1>11. 0 \in S
  OBVIOUS
<1>12. ASSUME NEW i \in Nat, i \in S PROVE i + 1 \in S
  <2> SUFFICES ASSUME i + 1 <= n PROVE g[i + 1] = b[i + 1]
    OBVIOUS
  <2>1. i + 1 \in 1..n /\ (i + 1) - 1 = i /\ (i + 1 # 1 => 1 <= i /\ i <= n)
    BY <1>1
  <2>2. g[i + 1] = IF i + 1 = 1 THEN ss[i + 1] ELSE g[i] \o ss[i + 1]
    BY <1>10, <2>1
  <2>3. b[i + 1] = IF i + 1 = 1 THEN ss[i + 1] ELSE b[i] \o ss[i + 1]
    <3>1. b[i + 1] = b[i] \o ss[i + 1] /\ (i + 1 = 1 => b[i] = << >>)
      <4>1. i + 1 = 1 => i = 0
        OBVIOUS
      <4>2. b[i + 1] = b[(i + 1) - 1] \o ss[i + 1]
        BY <1>7, <2>1
      <4> QED BY <1>7, <2>1, <4>1, <4>2
    <3>2. << >> \o ss[i + 1] = ss[i + 1]
      BY <1>1, <2>1
    <3> QED BY <3>1, <3>2
  <2>4. i + 1 # 1 => g[i] = b[i]
    BY <1>12, <2>1
  <2> QED BY <2>2, <2>3, <2>4
<1>13. \A i \in Nat : i \in S
  <2> HIDE DEF S
  <2> QED BY <1>11, <1>12, EveryNumber
<1>14. FlattenSeq(ss) = b[n]
  <2>1. CASE n = 0
    BY <1>2, <1>3, <1>7, <2>1
  <2>2. CASE n # 0
    <3>1. n \in S /\ 1 <= n
      BY <1>1, <1>13, <2>2
    <3> QED BY <1>2, <2>2, <3>1
  <2> QED BY <2>1, <2>2
<1> QED BY <1>8, <1>14 DEF FlattensTo, n

(* What is in it, and when nothing is in it twice.                          *)
LEMMA FlattenHas ==
  ASSUME NEW X, NEW ss \in Seq(Seq(X))
  PROVE  /\ FlattenSeq(ss) \in Seq(X)
         /\ ToSet(FlattenSeq(ss)) = UNION {ToSet(ss[i]) : i \in DOMAIN ss}
         /\ (/\ \A i \in DOMAIN ss : IsInjective(ss[i])
             /\ \A i, j \in DOMAIN ss : i # j => ToSet(ss[i]) \cap ToSet(ss[j]) = {})
            => IsInjective(FlattenSeq(ss))
<1> DEFINE n == Len(ss)
<1>1. n \in Nat /\ DOMAIN ss = 1..n /\ \A i \in 1..n : ss[i] \in Seq(X)
  BY ElementsOf
<1>2. PICK b : IsFlat(b, ss, X) /\ FlattenSeq(ss) = b[n]
  BY FlattenIs DEF FlattensTo
<1>3. /\ b \in [0..n -> Seq(X)] /\ b[0] = << >>
      /\ \A i \in 1..n : b[i] = b[i - 1] \o ss[i]
  BY <1>2 DEF IsFlat
<1> DEFINE Apart == /\ \A i \in DOMAIN ss : IsInjective(ss[i])
                    /\ \A i, j \in DOMAIN ss : i # j => ToSet(ss[i]) \cap ToSet(ss[j]) = {}
           Of(i) == UNION {ToSet(ss[j]) : j \in 1..i}
           S == {i \in Nat : i <= n => ToSet(b[i]) = Of(i) /\ (Apart => IsInjective(b[i]))}
<1> HIDE DEF n
<1>4. 0 \in S
  <2>1. 1..0 = {}
    OBVIOUS
  <2>2. DOMAIN b[0] = {}
    BY <1>3
  <2>3. ToSet(b[0]) = {} /\ IsInjective(b[0])
    BY <2>2 DEF ToSet, IsInjective
  <2> QED BY <2>1, <2>3
<1>5. ASSUME NEW i \in Nat, i \in S PROVE i + 1 \in S
  <2> SUFFICES ASSUME i + 1 <= n
               PROVE  ToSet(b[i + 1]) = Of(i + 1) /\ (Apart => IsInjective(b[i + 1]))
    OBVIOUS
  <2>1. i + 1 \in 1..n /\ (i + 1) - 1 = i /\ i <= n /\ i \in 0..n
    BY <1>1
  <2>2. ToSet(b[i]) = Of(i) /\ (Apart => IsInjective(b[i]))
    BY <1>5, <2>1
  <2> DEFINE s == b[i]
             t == ss[i + 1]
  <2>3. s \in Seq(X) /\ t \in Seq(X) /\ b[i + 1] = s \o t
    BY <1>1, <1>3, <2>1
  <2>4. Of(i + 1) = Of(i) \cup ToSet(t)
    <3>1. 1..(i + 1) = (1..i) \cup {i + 1}
      OBVIOUS
    <3> QED BY <3>1
  <2>5. Apart => IsInjective(t) /\ ToSet(s) \cap ToSet(t) = {}
    <3>1. \A j \in 1..i : j \in DOMAIN ss /\ j # i + 1 /\ i + 1 \in DOMAIN ss
      BY <1>1, <2>1
    <3>2. Apart => \A j \in 1..i : ToSet(ss[j]) \cap ToSet(t) = {}
      BY <3>1
    <3>3. Apart => ToSet(s) \cap ToSet(t) = {}
      BY <2>2, <3>2
    <3>4. Apart => IsInjective(t)
      BY <1>1, <2>1
    <3> QED BY <3>3, <3>4
  <2> HIDE DEF s, t, Of
  <2>6. Len(s) \in Nat /\ Len(t) \in Nat /\ DOMAIN s = 1..Len(s) /\ DOMAIN t = 1..Len(t)
    BY <2>3
  <2>7. /\ DOMAIN (s \o t) = 1..(Len(s) + Len(t))
        /\ \A k \in 1..(Len(s) + Len(t)) :
             IF k <= Len(s) THEN k \in DOMAIN s /\ (s \o t)[k] = s[k]
             ELSE k - Len(s) \in DOMAIN t /\ (s \o t)[k] = t[k - Len(s)]
    BY <2>3, <2>6
  <2>8. ToSet(s \o t) = ToSet(s) \cup ToSet(t)
    <3>1. ASSUME NEW x \in ToSet(s \o t) PROVE x \in ToSet(s) \cup ToSet(t)
      BY <2>7 DEF ToSet
    <3>2. ASSUME NEW x \in ToSet(s) PROVE x \in ToSet(s \o t)
      <4>1. PICK k \in DOMAIN s : x = s[k]
        BY DEF ToSet
      <4>2. k \in 1..(Len(s) + Len(t)) /\ k <= Len(s)
        BY <2>6
      <4>3. k \in DOMAIN (s \o t) /\ x = (s \o t)[k]
        BY <2>7, <4>1, <4>2
      <4> QED BY <4>3 DEF ToSet
    <3>3. ASSUME NEW x \in ToSet(t) PROVE x \in ToSet(s \o t)
      <4>1. PICK k \in DOMAIN t : x = t[k]
        BY DEF ToSet
      <4>2. k + Len(s) \in 1..(Len(s) + Len(t)) /\ ~(k + Len(s) <= Len(s)) /\ (k + Len(s)) - Len(s) = k
        BY <2>6
      <4>3. k + Len(s) \in DOMAIN (s \o t) /\ x = (s \o t)[k + Len(s)]
        BY <2>7, <4>1, <4>2
      <4> QED BY <4>3 DEF ToSet
    <3> QED BY <3>1, <3>2, <3>3
  <2>9. ASSUME Apart PROVE IsInjective(s \o t)
    <3>1. IsInjective(s) /\ IsInjective(t) /\ ToSet(s) \cap ToSet(t) = {}
      BY <2>2, <2>5, <2>9 DEF s
    <3> HIDE DEF Apart
    <3> SUFFICES ASSUME NEW j \in DOMAIN (s \o t), NEW k \in DOMAIN (s \o t), (s \o t)[j] = (s \o t)[k]
                 PROVE  j = k
      BY DEF IsInjective
    <3>2. CASE j <= Len(s) /\ k <= Len(s)
      BY <2>7, <3>1, <3>2 DEF IsInjective
    <3>3. CASE ~(j <= Len(s)) /\ ~(k <= Len(s))
      <4>1. j - Len(s) \in DOMAIN t /\ k - Len(s) \in DOMAIN t /\ t[j - Len(s)] = t[k - Len(s)]
        BY <2>7, <3>3
      <4>2. j - Len(s) = k - Len(s)
        BY <3>1, <4>1 DEF IsInjective
      <4> QED BY <2>6, <2>7, <4>2
    <3>4. CASE (j <= Len(s)) # (k <= Len(s))
      <4>1. PICK x \in DOMAIN s, y \in DOMAIN t : s[x] = t[y]
        BY <2>7, <3>4
      <4>2. s[x] \in ToSet(s) /\ t[y] \in ToSet(t)
        BY DEF ToSet
      <4> QED BY <3>1, <4>1, <4>2
    <3> QED BY <3>2, <3>3, <3>4
  <2> HIDE DEF Apart
  <2> QED BY <2>2, <2>3, <2>4, <2>8, <2>9 DEF s
<1>6. n \in S
  <2> HIDE DEF S
  <2> QED BY <1>1, <1>4, <1>5, EveryNumber
<1>7. b[n] \in Seq(X)
  BY <1>1, <1>3
<1> QED BY <1>1, <1>2, <1>6, <1>7 DEF n
-------------------------------------------------------------------------------
(* The leaves of a part, with their places, and the files in it.            *)
Places == [part : Leaf, at : Seq(Nat), under : Seq(Multiparts)]

(* Leaf l of part i, as a leaf of p.                                        *)
Inside(p, i, l) ==
  [part |-> l.part, at |-> <<i>> \o l.at, under |-> <<p.kind>> \o l.under]

LeavesWithin(p, ls) == UNION {{Inside(p, i, l) : l \in ls[i]} : i \in DOMAIN ls}

LEMMA InsideIs ==
  ASSUME NEW p \in Part, IsMultipart(p), NEW i \in Nat, NEW l \in Places
  PROVE  /\ Inside(p, i, l) \in Places
         /\ Inside(p, i, l).part = l.part
         /\ Inside(p, i, l).at = <<i>> \o l.at
         /\ Inside(p, i, l).under = <<p.kind>> \o l.under
<1>1. p.kind \in Multiparts
  BY PartsAre
<1>2. l.part \in Leaf /\ l.at \in Seq(Nat) /\ l.under \in Seq(Multiparts)
  BY DEF Places
<1>3. <<i>> \in Seq(Nat) /\ <<p.kind>> \in Seq(Multiparts)
  BY <1>1
<1>4. <<i>> \o l.at \in Seq(Nat) /\ <<p.kind>> \o l.under \in Seq(Multiparts)
  BY <1>2, <1>3, ConcatProperties
<1> QED BY <1>2, <1>4 DEF Inside, Places

(* The recursive function Leaves exists and satisfies its equation for      *)
(* every part.                                                              *)
LEMMA LeavesAre ==
  /\ Leaves \in [Part -> SUBSET Places]
  /\ \A p \in Part : ~IsMultipart(p) =>
       Leaves[p] = {[part |-> p, at |-> << >>, under |-> << >>]}
  /\ \A p \in Part : IsMultipart(p) =>
       Leaves[p] = UNION {{Inside(p, i, l) : l \in Leaves[p.parts[i]]} : i \in DOMAIN p.parts}
<1> DEFINE V == SUBSET Places
           Solves(f) == f = [p \in Part |->
             IF IsMultipart(p)
               THEN UNION {{Inside(p, i, l) : l \in f[p.parts[i]]} : i \in DOMAIN p.parts}
               ELSE {[part |-> p, at |-> << >>, under |-> << >>]}]
           leaf == [p \in Leaf |-> {[part |-> p, at |-> << >>, under |-> << >>]}]
           join == [x \in Part \X Seq(V) |->
                      IF IsMultipart(x[1]) THEN LeavesWithin(x[1], x[2]) ELSE {}]
<1>1. leaf \in [Leaf -> V]
  <2>1. << >> \in Seq(Nat) /\ << >> \in Seq(Multiparts)
    OBVIOUS
  <2>2. \A p \in Leaf : [part |-> p, at |-> << >>, under |-> << >>] \in Places
    BY <2>1 DEF Places
  <2> QED BY <2>2
<1>2. ASSUME NEW p \in Part, IsMultipart(p), NEW ls \in Seq(V) PROVE LeavesWithin(p, ls) \in V
  <2> SUFFICES ASSUME NEW i \in DOMAIN ls, NEW l \in ls[i] PROVE Inside(p, i, l) \in Places
    BY DEF LeavesWithin
  <2>1. i \in Nat /\ ls[i] \in V
    BY ElementsOf
  <2> QED BY <1>2, <2>1, InsideIs
<1>3. join \in [Part \X Seq(V) -> V]
      /\ \A p \in Part : \A ls \in Seq(V) : IsMultipart(p) => join[<<p, ls>>] = LeavesWithin(p, ls)
  <2>1. \A x \in Part \X Seq(V) : x[1] \in Part /\ x[2] \in Seq(V)
    OBVIOUS
  <2>2. {} \in V
    OBVIOUS
  <2> HIDE DEF V
  <2> QED BY <1>2, <2>1, <2>2
<1> HIDE DEF join
<1>4. PICK f : IsWalk(f, V, leaf, join)
  BY <1>1, <1>3, PartRecursion
<1>5. ASSUME NEW p \in Part
      PROVE  f[p] = IF IsMultipart(p)
                      THEN UNION {{Inside(p, i, l) : l \in f[p.parts[i]]} : i \in DOMAIN p.parts}
                      ELSE {[part |-> p, at |-> << >>, under |-> << >>]}
  <2>1. CASE IsMultipart(p)
    <3> DEFINE ls == [i \in DOMAIN p.parts |-> f[p.parts[i]]]
    <3>1. p.parts \in Seq(Part) /\ f \in [Part -> V]
      BY <1>4, <2>1, PartsAre DEF IsWalk
    <3>2. ls \in Seq(V)
      <4>1. Mapped(f, p.parts) \in Seq(V)
        BY <3>1, MappedSeq, ZenonT(40)
      <4> QED BY <4>1 DEF Mapped
    <3>3. f[p] = join[<<p, ls>>]
      BY <1>4, <2>1 DEF IsWalk
    <3>4. f[p] = LeavesWithin(p, ls)
      BY <1>3, <2>1, <3>2, <3>3
    <3>5. LeavesWithin(p, ls)
            = UNION {{Inside(p, i, l) : l \in f[p.parts[i]]} : i \in DOMAIN p.parts}
      <4>1. DOMAIN ls = DOMAIN p.parts /\ \A i \in DOMAIN p.parts : ls[i] = f[p.parts[i]]
        OBVIOUS
      <4> HIDE DEF ls
      <4>2. \A i \in DOMAIN p.parts :
              {Inside(p, i, l) : l \in ls[i]} = {Inside(p, i, l) : l \in f[p.parts[i]]}
        BY <4>1
      <4>3. {{Inside(p, i, l) : l \in ls[i]} : i \in DOMAIN ls}
              = {{Inside(p, i, l) : l \in f[p.parts[i]]} : i \in DOMAIN p.parts}
        BY <4>1, <4>2
      <4> QED BY <4>3 DEF LeavesWithin
    <3> QED BY <2>1, <3>4, <3>5
  <2>2. CASE ~IsMultipart(p)
    <3>1. p \in Leaf
      BY <2>2, PartsAre
    <3>2. f[p] = leaf[p]
      BY <1>4, <2>2 DEF IsWalk
    <3> QED BY <2>2, <3>1, <3>2
  <2> QED BY <2>1, <2>2
<1>6. f \in [Part -> V]
  BY <1>4 DEF IsWalk
<1>7. Solves(f)
  <2>1. f = [p \in Part |-> f[p]]
    BY <1>6
  <2> QED BY <1>5, <2>1
<1>8. Leaves = CHOOSE h : Solves(h)
  BY DEF Leaves, Inside
<1>9. Solves(Leaves)
  <2> HIDE DEF Solves
  <2> QED BY <1>7, <1>8
<1> DEFINE g == Leaves
<1>10. DOMAIN g = Part /\ g = [p \in Part |-> g[p]]
       /\ \A p \in Part : g[p] = IF IsMultipart(p)
            THEN UNION {{Inside(p, i, l) : l \in g[p.parts[i]]} : i \in DOMAIN p.parts}
            ELSE {[part |-> p, at |-> << >>, under |-> << >>]}
  BY <1>9
<1> DEFINE S == {p \in Part : g[p] \in V}
<1>11. Leaf \subseteq S
  <2> SUFFICES ASSUME NEW p \in Leaf PROVE p \in S
    OBVIOUS
  <2>1. p \in Part /\ ~IsMultipart(p)
    BY PartsAre, LeavesAreNoMultiparts
  <2>2. g[p] = leaf[p]
    BY <1>10, <2>1
  <2> QED BY <1>1, <2>1, <2>2
<1>12. ASSUME NEW p \in Part, IsMultipart(p), p.parts \in Seq(S) PROVE p \in S
  <2> SUFFICES ASSUME NEW i \in DOMAIN p.parts, NEW l \in g[p.parts[i]]
               PROVE  Inside(p, i, l) \in Places
    BY <1>10, <1>12
  <2>1. i \in Nat /\ g[p.parts[i]] \in V
    BY <1>12, ElementsOf
  <2> QED BY <1>12, <2>1, InsideIs
<1>13. Part \subseteq S
  <2> HIDE DEF S
  <2> QED BY <1>11, <1>12, EveryPart
<1>14. g \in [Part -> V]
  <2> HIDE DEF g, V
  <2> QED BY <1>10, <1>13
<1> QED BY <1>10, <1>14

Files == {Attachment(p) : p \in Leaf}
FilesOf(f, s) == [i \in DOMAIN s |-> f[s[i]]]

LEMMA FlattenFiles ==
  ASSUME NEW ss \in Seq(Seq(Files))
  PROVE  FlattenSeq(ss) \in Seq(Files)
BY FlattenHas

(* The recursive function ExtractFromPart exists and satisfies its equation *)
(* for every part.                                                          *)
LEMMA ExtractedAre ==
  /\ ExtractFromPart \in [Part -> Seq(Files)]
  /\ \A p \in Part : ~IsMultipart(p) =>
       ExtractFromPart[p] = IF IsAttachment(p) THEN <<Attachment(p)>> ELSE << >>
  /\ \A p \in Part : IsMultipart(p) =>
       ExtractFromPart[p] = FlattenSeq(FilesOf(ExtractFromPart, p.parts))
<1> DEFINE V == Seq(Files)
           Solves(f) == f = [p \in Part |->
             IF IsMultipart(p) THEN FlattenSeq([i \in DOMAIN p.parts |-> f[p.parts[i]]])
             ELSE IF IsAttachment(p) THEN <<Attachment(p)>> ELSE << >>]
           leaf == [p \in Leaf |-> IF IsAttachment(p) THEN <<Attachment(p)>> ELSE << >>]
           join == [x \in Part \X Seq(V) |-> FlattenSeq(x[2])]
<1>1. leaf \in [Leaf -> V]
  <2>1. << >> \in V
    OBVIOUS
  <2>2. \A p \in Leaf : <<Attachment(p)>> \in V
    <3>1. \A p \in Leaf : Attachment(p) \in Files
      BY DEF Files
    <3> HIDE DEF Files
    <3> QED BY <3>1
  <2> HIDE DEF V
  <2> QED BY <2>1, <2>2
<1>2. join \in [Part \X Seq(V) -> V]
      /\ \A p \in Part : \A vs \in Seq(V) : join[<<p, vs>>] = FlattenSeq(vs)
  <2>1. \A x \in Part \X Seq(V) : FlattenSeq(x[2]) \in V
    BY FlattenFiles
  <2> HIDE DEF V
  <2> QED BY <2>1
<1> HIDE DEF join
<1>4. PICK f : IsWalk(f, V, leaf, join)
  <2> HIDE DEF V, leaf
  <2> QED BY <1>1, <1>2, PartRecursion
<1>5. ASSUME NEW p \in Part
      PROVE  f[p] = IF IsMultipart(p) THEN FlattenSeq([i \in DOMAIN p.parts |-> f[p.parts[i]]])
                    ELSE IF IsAttachment(p) THEN <<Attachment(p)>> ELSE << >>
  <2>1. CASE IsMultipart(p)
    <3>1. p.parts \in Seq(Part) /\ f \in [Part -> V]
      BY <1>4, <2>1, PartsAre DEF IsWalk
    <3>2. [i \in DOMAIN p.parts |-> f[p.parts[i]]] \in Seq(V)
      <4> HIDE DEF V
      <4>1. Mapped(f, p.parts) \in Seq(V)
        BY <3>1, MappedSeq, ZenonT(40)
      <4> QED BY <4>1 DEF Mapped
    <3>3. f[p] = join[<<p, [i \in DOMAIN p.parts |-> f[p.parts[i]]]>>]
      BY <1>4, <2>1 DEF IsWalk
    <3> HIDE DEF V
    <3> QED BY <1>2, <2>1, <3>2, <3>3
  <2>2. CASE ~IsMultipart(p)
    <3>1. p \in Leaf
      BY <2>2, PartsAre
    <3>2. f[p] = leaf[p]
      BY <1>4, <2>2 DEF IsWalk
    <3> QED BY <2>2, <3>1, <3>2
  <2> QED BY <2>1, <2>2
<1>6. f \in [Part -> V]
  BY <1>4 DEF IsWalk
<1>7. Solves(f)
  <2>1. f = [p \in Part |-> f[p]]
    BY <1>6
  <2> QED BY <1>5, <2>1
<1>8. ExtractFromPart = CHOOSE h : Solves(h)
  BY DEF ExtractFromPart
<1>9. Solves(ExtractFromPart)
  <2> HIDE DEF Solves
  <2> QED BY <1>7, <1>8
<1> DEFINE g == ExtractFromPart
<1>10. DOMAIN g = Part /\ g = [p \in Part |-> g[p]]
       /\ \A p \in Part : g[p] =
            IF IsMultipart(p) THEN FlattenSeq(FilesOf(g, p.parts))
            ELSE IF IsAttachment(p) THEN <<Attachment(p)>> ELSE << >>
  BY <1>9 DEF FilesOf
<1> DEFINE S == {p \in Part : g[p] \in V}
<1>11. Leaf \subseteq S
  <2> SUFFICES ASSUME NEW p \in Leaf PROVE p \in S
    OBVIOUS
  <2>1. p \in Part /\ ~IsMultipart(p)
    BY PartsAre, LeavesAreNoMultiparts
  <2>2. g[p] = leaf[p]
    BY <1>10, <2>1
  <2> QED BY <1>1, <2>1, <2>2
<1>12. ASSUME NEW p \in Part, IsMultipart(p), p.parts \in Seq(S) PROVE p \in S
  <2>1. \A i \in DOMAIN p.parts : g[p.parts[i]] \in V
    BY <1>12, ElementsOf
  <2>2. DOMAIN p.parts = 1..Len(p.parts) /\ Len(p.parts) \in Nat
    BY <1>12, ElementsOf
  <2>3. FilesOf(g, p.parts) \in Seq(V)
    <3> HIDE DEF g, V
    <3> QED BY <2>1, <2>2 DEF FilesOf
  <2>4. FlattenSeq(FilesOf(g, p.parts)) \in V
    BY <2>3, FlattenFiles
  <2> QED BY <1>10, <1>12, <2>4
<1>13. Part \subseteq S
  <2> HIDE DEF S
  <2> QED BY <1>11, <1>12, EveryPart
<1>14. g \in [Part -> V]
  <2> HIDE DEF g, V
  <2> QED BY <1>10, <1>13
<1> QED BY <1>10, <1>14
-------------------------------------------------------------------------------
(* Bodies b of part p: each is the name of a leaf of its kind (IsOf), and a *)
(* leaf shows when there is a body of its kind.                             *)
IsOf(b, p) ==
  /\ b.html = NoBody \/ \E l \in Leaves[p] : l.part.kind = "html" /\ l.part.name = b.html
  /\ b.text = NoBody \/ \E l \in Leaves[p] : l.part.kind = "plain" /\ l.part.name = b.text
Shows(b, l) ==
  /\ l.part.kind = "html" => b.html # NoBody
  /\ l.part.kind = "plain" => b.text # NoBody

LEMMA LeafShows ==
  ASSUME NEW p \in Part, ~IsMultipart(p)
  PROVE  /\ IsOf(LeafBodies(p), p)
         /\ \A l \in Leaves[p] : l.part = p /\ l.under = << >> /\ Shows(LeafBodies(p), l)
<1>1. p \in Leaf /\ Leaves[p] = {[part |-> p, at |-> << >>, under |-> << >>]}
  BY PartsAre, LeavesAre
<1>2. p.name \in Name /\ p.name # NoBody
  BY <1>1, MimeAssumption DEF Leaf, MimeAssumption
<1>3. \A l \in Leaves[p] : l.part = p /\ l.under = << >>
  BY <1>1
<1>4. \E l \in Leaves[p] : l.part = p
  BY <1>1
<1>5. /\ p.kind = "html" => LeafBodies(p).html = p.name /\ LeafBodies(p).text = NoBody
      /\ p.kind = "plain" => LeafBodies(p).html = NoBody /\ LeafBodies(p).text = p.name
      /\ p.kind \notin {"html", "plain"} => LeafBodies(p).html = NoBody /\ LeafBodies(p).text = NoBody
  BY DEF LeafBodies, Nothing, Bodies
<1>6. IsOf(LeafBodies(p), p)
  BY <1>4, <1>5 DEF IsOf
<1>7. \A l \in Leaves[p] : Shows(LeafBodies(p), l)
  BY <1>2, <1>3, <1>5 DEF Shows
<1> QED BY <1>3, <1>6, <1>7

LEMMA MultipartHasNoBody ==
  ASSUME NEW p, IsMultipart(p)
  PROVE  LeafBodies(p) = Nothing
BY DEF IsMultipart, Multiparts, Alternatives, LeafBodies

LEMMA NothingIsOf ==
  ASSUME NEW p
  PROVE  IsOf(Nothing, p)
BY DEF IsOf, Nothing, Bodies

(* The leaves of a multipart are those of its parts, each inside the        *)
(* multipart.                                                               *)
LEMMA LeavesOfParts ==
  ASSUME NEW p \in Part, IsMultipart(p)
  PROVE  /\ DOMAIN p.parts = 1..Len(p.parts) /\ Len(p.parts) \in Nat /\ p.parts \in Seq(Part)
         /\ \A i \in 1..Len(p.parts) :
              /\ p.parts[i] \in Part /\ Leaves[p.parts[i]] \subseteq Places
              /\ \A k \in Leaves[p.parts[i]] :
                   /\ Inside(p, i, k) \in Leaves[p] /\ Inside(p, i, k).part = k.part
                   /\ Inside(p, i, k).at = <<i>> \o k.at
                   /\ Inside(p, i, k).under = <<p.kind>> \o k.under
         /\ \A l \in Leaves[p] : \E i \in 1..Len(p.parts) : \E k \in Leaves[p.parts[i]] :
              l = Inside(p, i, k)
<1>1. DOMAIN p.parts = 1..Len(p.parts) /\ Len(p.parts) \in Nat /\ p.parts \in Seq(Part)
      /\ \A i \in 1..Len(p.parts) : p.parts[i] \in Part
  BY PartsAre, ElementsOf
<1>2. \A i \in 1..Len(p.parts) : Leaves[p.parts[i]] \subseteq Places
  BY <1>1, LeavesAre
<1>3. Leaves[p] = UNION {{Inside(p, i, l) : l \in Leaves[p.parts[i]]} : i \in 1..Len(p.parts)}
  BY <1>1, LeavesAre
<1>4. ASSUME NEW i \in 1..Len(p.parts), NEW k \in Leaves[p.parts[i]]
      PROVE  /\ Inside(p, i, k) \in Leaves[p] /\ Inside(p, i, k).part = k.part
             /\ Inside(p, i, k).at = <<i>> \o k.at
             /\ Inside(p, i, k).under = <<p.kind>> \o k.under
  <2>1. k \in Places /\ i \in Nat
    BY <1>2
  <2>2. Inside(p, i, k) \in Leaves[p]
    <3>1. Inside(p, i, k) \in {Inside(p, i, l) : l \in Leaves[p.parts[i]]}
      OBVIOUS
    <3>2. {Inside(p, i, l) : l \in Leaves[p.parts[i]]}
            \in {{Inside(p, j, l) : l \in Leaves[p.parts[j]]} : j \in 1..Len(p.parts)}
      OBVIOUS
    <3> HIDE DEF Inside
    <3> QED BY <1>3, <3>1, <3>2
  <2> QED BY <2>1, <2>2, InsideIs
<1>5. ASSUME NEW l \in Leaves[p]
      PROVE  \E i \in 1..Len(p.parts) : \E k \in Leaves[p.parts[i]] : l = Inside(p, i, k)
  BY <1>3
<1> QED BY <1>1, <1>2, <1>4, <1>5

(* Bodies that are joined from the bodies of the parts are bodies of the    *)
(* multipart.                                                               *)
LEMMA JoinedIsOf ==
  ASSUME NEW p \in Part, IsMultipart(p), NEW c, NEW b, Joined(b, Len(p.parts), c),
         \A i \in 1..Len(p.parts) : IsOf(c[i], p.parts[i])
  PROVE  IsOf(b, p)
<1>1. ASSUME b.html # NoBody
      PROVE  \E l \in Leaves[p] : l.part.kind = "html" /\ l.part.name = b.html
  <2>1. PICK i \in 1..Len(p.parts) : c[i].html = b.html
    BY <1>1 DEF Joined
  <2>2. PICK k \in Leaves[p.parts[i]] : k.part.kind = "html" /\ k.part.name = b.html
    BY <1>1, <2>1 DEF IsOf
  <2>3. Inside(p, i, k) \in Leaves[p] /\ Inside(p, i, k).part = k.part
    BY LeavesOfParts
  <2> QED BY <2>2, <2>3
<1>2. ASSUME b.text # NoBody
      PROVE  \E l \in Leaves[p] : l.part.kind = "plain" /\ l.part.name = b.text
  <2>1. PICK i \in 1..Len(p.parts) : c[i].text = b.text
    BY <1>2 DEF Joined
  <2>2. PICK k \in Leaves[p.parts[i]] : k.part.kind = "plain" /\ k.part.name = b.text
    BY <1>2, <2>1 DEF IsOf
  <2>3. Inside(p, i, k) \in Leaves[p] /\ Inside(p, i, k).part = k.part
    BY LeavesOfParts
  <2> QED BY <2>2, <2>3
<1> QED BY <1>1, <1>2 DEF IsOf

(* What shows in the bodies of a part shows in the joined ones.             *)
LEMMA JoinedShows ==
  ASSUME NEW p \in Part, IsMultipart(p), NEW c, NEW b, Joined(b, Len(p.parts), c),
         NEW i \in 1..Len(p.parts), NEW k \in Leaves[p.parts[i]], Shows(c[i], k)
  PROVE  Shows(b, Inside(p, i, k))
<1>1. Inside(p, i, k).part = k.part
  BY LeavesOfParts
<1> QED BY <1>1 DEF Shows, Joined

(* In a multipart within an alternative.                                    *)
Buried(under) == \E i \in 1 .. Len(under) - 1 : under[i] \in Alternatives

(* A leaf that is not buried in a multipart is not buried in its part       *)
(* either, and is that part when the multipart is an alternative.           *)
LEMMA BuriedBelow ==
  ASSUME NEW p \in Part, IsMultipart(p), NEW i \in 1..Len(p.parts), NEW k \in Leaves[p.parts[i]],
         ~Buried(Inside(p, i, k).under)
  PROVE  /\ ~Buried(k.under)
         /\ p.kind \in Alternatives => k.under = << >>
<1>1. k.under \in Seq(Multiparts) /\ Inside(p, i, k).under = <<p.kind>> \o k.under
      /\ p.kind \in Multiparts
  BY LeavesOfParts, PartsAre DEF Places
<1> DEFINE u == k.under
           v == <<p.kind>> \o u
<1>2. /\ u \in Seq(Multiparts) /\ Len(u) \in Nat /\ Len(v) = Len(u) + 1
      /\ v[1] = p.kind /\ \A j \in 1..Len(u) : v[j + 1] = u[j]
  BY <1>1
<1>3. ~Buried(v)
  BY <1>1
<1> HIDE DEF u, v
<1>4. ASSUME NEW j \in 1 .. Len(u) - 1 PROVE u[j] \notin Alternatives
  <2>1. j + 1 \in 1 .. Len(v) - 1 /\ v[j + 1] = u[j]
    BY <1>2
  <2> QED BY <1>3, <2>1 DEF Buried
<1>5. ASSUME p.kind \in Alternatives PROVE u = << >>
  <2>1. Len(u) = 0
    <3>1. Len(u) # 0 => 1 \in 1 .. Len(v) - 1
      BY <1>2
    <3> QED BY <1>2, <1>3, <1>5, <3>1 DEF Buried
  <2> QED BY <1>2, <2>1
<1> QED BY <1>4, <1>5 DEF Buried, u

(* Only a leaf has a leaf that is in no multipart.                          *)
LEMMA LeafInNothing ==
  ASSUME NEW p \in Part, NEW l \in Leaves[p]
  PROVE  l.under = << >> <=> ~IsMultipart(p)
<1>1. CASE IsMultipart(p)
  <2>0. PICK i \in 1..Len(p.parts) : \E k \in Leaves[p.parts[i]] : l = Inside(p, i, k)
    BY <1>1, LeavesOfParts
  <2>1. PICK k \in Leaves[p.parts[i]] : l = Inside(p, i, k)
    BY <2>0
  <2>2. l.under = <<p.kind>> \o k.under /\ k.under \in Seq(Multiparts) /\ p.kind \in Multiparts
    BY <1>1, <2>1, LeavesOfParts, PartsAre DEF Places
  <2>3. Len(l.under) = Len(k.under) + 1 /\ Len(k.under) \in Nat
    BY <2>2
  <2>4. Len(l.under) # 0
    BY <2>3
  <2> QED BY <1>1, <2>4
<1>2. CASE ~IsMultipart(p)
  BY <1>2, LeafShows
<1> QED BY <1>1, <1>2

(* What the three walks find.                                               *)
LEMMA AlternativeShows ==
  ASSUME NEW p \in Part, p.kind \in Alternatives
  PROVE  /\ IsMultipart(p) /\ IsOf(ExtractMultipartAlternative(p.parts), p)
         /\ \A l \in Leaves[p] : ~Buried(l.under) => Shows(ExtractMultipartAlternative(p.parts), l)
<1> DEFINE b == ExtractMultipartAlternative(p.parts)
           c == BodiesOf(p.parts)
<1>1. IsMultipart(p)
  BY DEF IsMultipart, Multiparts, Alternatives
<1>2. p.parts \in Seq(Part) /\ DOMAIN p.parts = 1..Len(p.parts)
      /\ \A i \in 1..Len(p.parts) : p.parts[i] \in Part
  BY <1>1, LeavesOfParts
<1>3. Joined(b, Len(p.parts), c)
  BY <1>2, AlternativeIs
<1>4. \A i \in 1..Len(p.parts) : c[i] = LeafBodies(p.parts[i])
  BY <1>2 DEF BodiesOf
<1> HIDE DEF b, c
<1>5. ASSUME NEW i \in 1..Len(p.parts) PROVE IsOf(c[i], p.parts[i])
  <2>1. p.parts[i] \in Part /\ c[i] = LeafBodies(p.parts[i])
    BY <1>2, <1>4
  <2>2. CASE IsMultipart(p.parts[i])
    BY <2>1, <2>2, MultipartHasNoBody, NothingIsOf
  <2>3. CASE ~IsMultipart(p.parts[i])
    BY <2>1, <2>3, LeafShows
  <2> QED BY <2>2, <2>3
<1>6. IsOf(b, p)
  BY <1>1, <1>3, <1>5, JoinedIsOf
<1>7. ASSUME NEW l \in Leaves[p], ~Buried(l.under) PROVE Shows(b, l)
  <2>1. PICK i \in 1..Len(p.parts) : \E k \in Leaves[p.parts[i]] : l = Inside(p, i, k)
    BY <1>1, LeavesOfParts
  <2>2. PICK k \in Leaves[p.parts[i]] : l = Inside(p, i, k)
    BY <2>1
  <2>3. k.under = << >>
    BY <1>1, <1>7, <2>2, BuriedBelow
  <2>4. p.parts[i] \in Part /\ ~IsMultipart(p.parts[i])
    BY <1>2, <2>3, LeafInNothing
  <2>5. Shows(c[i], k)
    BY <1>4, <2>4, LeafShows
  <2> QED BY <1>1, <1>3, <2>2, <2>5, JoinedShows
<1> QED BY <1>1, <1>6, <1>7 DEF b

(* Every leaf that is in no multipart within an alternative shows in the    *)
(* bodies of the generic walk; by induction over the parts.                 *)
LEMMA GenericShows ==
  ASSUME NEW p \in Part
  PROVE  /\ IsOf(ExtractMultipartGeneric[p], p)
         /\ \A l \in Leaves[p] : ~Buried(l.under) => Shows(ExtractMultipartGeneric[p], l)
<1> DEFINE G(q) == ExtractMultipartGeneric[q]
           Good(q) == /\ IsOf(G(q), q)
                      /\ \A l \in Leaves[q] : ~Buried(l.under) => Shows(G(q), l)
           S == {q \in Part : Good(q)}
<1>1. Leaf \subseteq S
  <2> SUFFICES ASSUME NEW q \in Leaf PROVE q \in S
    OBVIOUS
  <2>1. q \in Part /\ ~IsMultipart(q)
    BY PartsAre, LeavesAreNoMultiparts
  <2>2. G(q) = LeafBodies(q)
    BY <2>1, GenericIs
  <2> QED BY <2>1, <2>2, LeafShows
<1>2. ASSUME NEW q \in Part, IsMultipart(q), q.parts \in Seq(S) PROVE q \in S
  <2>1. CASE q.kind \in Alternatives
    <3>1. G(q) = ExtractMultipartAlternative(q.parts)
      BY <1>2, <2>1, GenericIs
    <3> QED BY <2>1, <3>1, AlternativeShows
  <2>2. CASE q.kind \notin Alternatives
    <3> DEFINE c == GenericBodiesOf(ExtractMultipartGeneric, q.parts)
    <3>1. Joined(G(q), Len(q.parts), c)
      BY <1>2, <2>2, GenericJoins
    <3>2. \A i \in 1..Len(q.parts) : q.parts[i] \in S
      BY <1>2
    <3>3. DOMAIN q.parts = 1..Len(q.parts)
      BY <1>2, LeavesOfParts
    <3>4. \A i \in 1..Len(q.parts) : c[i] = G(q.parts[i])
      BY <3>3 DEF GenericBodiesOf
    <3> HIDE DEF c, G
    <3>5. \A i \in 1..Len(q.parts) : IsOf(c[i], q.parts[i])
      BY <3>2, <3>4
    <3>6. IsOf(G(q), q)
      BY <1>2, <3>1, <3>5, JoinedIsOf
    <3>7. ASSUME NEW l \in Leaves[q], ~Buried(l.under) PROVE Shows(G(q), l)
      <4>1. PICK i \in 1..Len(q.parts) : \E k \in Leaves[q.parts[i]] : l = Inside(q, i, k)
        BY <1>2, LeavesOfParts
      <4>2. PICK k \in Leaves[q.parts[i]] : l = Inside(q, i, k)
        BY <4>1
      <4>3. ~Buried(k.under)
        BY <1>2, <3>7, <4>2, BuriedBelow
      <4>4. Shows(c[i], k)
        BY <3>2, <3>4, <4>3
      <4> QED BY <1>2, <3>1, <4>2, <4>4, JoinedShows
    <3> QED BY <3>6, <3>7
  <2> QED BY <2>1, <2>2
<1>3. Part \subseteq S
  <2> HIDE DEF S
  <2> QED BY <1>1, <1>2, EveryPart
<1> QED BY <1>3

(* Every leaf that is not hidden, nor an attachment, shows in the bodies of *)
(* a mixed multipart.                                                       *)
LEMMA MixedShows ==
  ASSUME NEW p \in Part, p.kind = "mixed"
  PROVE  /\ IsMultipart(p) /\ IsOf(ExtractMultipartMixed(p.parts), p)
         /\ \A l \in Leaves[p] : ~Hidden(l.under) /\ l.part.disposition # "attachment"
                                   => Shows(ExtractMultipartMixed(p.parts), l)
<1> DEFINE b == ExtractMultipartMixed(p.parts)
           c == MixedBodiesOf(p.parts)
<1>1. IsMultipart(p)
  BY DEF IsMultipart, Multiparts, Alternatives
<1>2. p.parts \in Seq(Part) /\ DOMAIN p.parts = 1..Len(p.parts)
      /\ \A i \in 1..Len(p.parts) : p.parts[i] \in Part
  BY <1>1, LeavesOfParts
<1>3. Joined(b, Len(p.parts), c)
  BY <1>2, MixedIs
<1>4. \A i \in 1..Len(p.parts) : c[i] = MixedBodies(p.parts[i])
  BY <1>2 DEF MixedBodiesOf
<1> HIDE DEF b, c
<1>5. ASSUME NEW i \in 1..Len(p.parts) PROVE IsOf(c[i], p.parts[i])
  <2> DEFINE q == p.parts[i]
  <2>1. q \in Part /\ c[i] = MixedBodies(q)
    BY <1>2, <1>4
  <2> HIDE DEF q
  <2>2. \/ MixedBodies(q) \in {Nothing, LeafBodies(q)}
        \/ /\ q.kind = "alternative"
           /\ MixedBodies(q) = ExtractMultipartAlternative(q.parts)
    BY DEF MixedBodies
  <2>3. IsOf(LeafBodies(q), q)
    BY <2>1, MultipartHasNoBody, NothingIsOf, LeafShows
  <2>4. IsOf(MixedBodies(q), q)
    BY <2>1, <2>2, <2>3, NothingIsOf, AlternativeShows DEF Alternatives
  <2> QED BY <2>1, <2>4 DEF q
<1>6. IsOf(b, p)
  BY <1>1, <1>3, <1>5, JoinedIsOf
<1>7. ASSUME NEW l \in Leaves[p], ~Hidden(l.under), l.part.disposition # "attachment"
      PROVE  Shows(b, l)
  <2>1. PICK i \in 1..Len(p.parts) : \E k \in Leaves[p.parts[i]] : l = Inside(p, i, k)
    BY <1>1, LeavesOfParts
  <2>2. PICK k \in Leaves[p.parts[i]] : l = Inside(p, i, k)
    BY <2>1
  <2> DEFINE q == p.parts[i]
  <2>3. q \in Part /\ c[i] = MixedBodies(q) /\ k \in Leaves[q] /\ l.part = k.part
        /\ l.under = <<p.kind>> \o k.under /\ k \in Places
    BY <1>1, <1>2, <1>4, <2>2, LeavesOfParts
  <2>4. ~Buried(l.under)
    BY <1>7 DEF Hidden, Buried
  <2>5. ~Buried(k.under)
    BY <1>1, <2>2, <2>4, BuriedBelow
  <2> HIDE DEF q
  <2>6. CASE ~IsMultipart(q)
    <3>1. k.part = q /\ Shows(LeafBodies(q), k)
      BY <2>3, <2>6, LeafShows
    <3>2. q.disposition # "attachment" /\ q.kind # "alternative"
      BY <1>7, <2>3, <2>6, <3>1 DEF IsMultipart, Multiparts, Alternatives
    <3>3. MixedBodies(q) = LeafBodies(q)
      BY <2>6, <3>2 DEF MixedBodies, IsBodyPart
    <3>4. Shows(c[i], k)
      BY <2>3, <3>1, <3>3
    <3> QED BY <1>1, <1>3, <2>2, <3>4, JoinedShows
  <2>7. CASE IsMultipart(q)
    <3>1. PICK j \in 1..Len(q.parts) : \E x \in Leaves[q.parts[j]] : k = Inside(q, j, x)
      BY <2>3, <2>7, LeavesOfParts
    <3>2. PICK x \in Leaves[q.parts[j]] : k = Inside(q, j, x)
      BY <3>1
    <3>3. k.under = <<q.kind>> \o x.under /\ x \in Places /\ q.kind \in Multiparts
          /\ p.kind \in Multiparts
      BY <1>1, <2>3, <2>7, <3>2, LeavesOfParts, PartsAre
    <3> DEFINE u == x.under
    <3>4. u \in Seq(Multiparts) /\ l.under = <<p.kind>> \o (<<q.kind>> \o u)
      BY <2>3, <3>3 DEF Places
    <3> HIDE DEF u
    <3>5. Len(<<q.kind>> \o u) = Len(u) + 1 /\ (<<q.kind>> \o u)[1] = q.kind
          /\ <<q.kind>> \o u \in Seq(Multiparts) /\ Len(u) \in Nat
      BY <3>3, <3>4
    <3>6. Len(l.under) > 1 /\ l.under[1] = p.kind /\ l.under[2] = q.kind
      <4> DEFINE v == <<q.kind>> \o u
      <4>1. v \in Seq(Multiparts) /\ Len(v) \in Nat \ {0} /\ v[1] = q.kind /\ l.under = <<p.kind>> \o v
        BY <3>4, <3>5
      <4> HIDE DEF v
      <4>2. Len(l.under) = Len(v) + 1 /\ l.under[1] = p.kind /\ l.under[2] = v[1]
        BY <3>3, <4>1
      <4> QED BY <4>1, <4>2
    <3>7. q.kind = "alternative"
      BY <1>7, <3>6 DEF Hidden
    <3>8. MixedBodies(q) = ExtractMultipartAlternative(q.parts)
      BY <2>7, <3>7 DEF MixedBodies, IsBodyPart
    <3>9. Shows(c[i], k)
      BY <2>3, <2>5, <3>7, <3>8, AlternativeShows DEF Alternatives
    <3> QED BY <1>1, <1>3, <2>2, <3>9, JoinedShows
  <2> QED BY <2>6, <2>7
<1> QED BY <1>1, <1>6, <1>7 DEF b

(* The bodies of a message: what IsAccountedFor says of them.               *)
BodyAccounted(l, b) ==
  \/ l.part.name \in {b.html, b.text}
  \/ Hidden(l.under) \/ Superseded(l.part, [bodies |-> b])
  \/ l.part.kind = "other" /\ l.under # << >>

(* The bodies ExtractBody returns are leaves of their kinds, and every leaf *)
(* that is no file is one of them, hidden, superseded, or of another kind.  *)
LEMMA BodiesAccounted ==
  ASSUME NEW p \in Part
  PROVE  LET b == ExtractBody(p) IN
         /\ \A l \in Leaves[p] : l.under = << >> \/ ~IsAttachment(l.part) => BodyAccounted(l, b)
         /\ b.html \in {NoBody} \cup {l.part.name : l \in {k \in Leaves[p] : k.part.kind = "html"}}
         /\ b.text \in {NoBody} \cup
              {l.part.name : l \in {k \in Leaves[p] : k.part.kind = "plain" \/ k.under = << >>}}
<1> DEFINE b == ExtractBody(p)
<1> SUFFICES /\ \A l \in Leaves[p] : l.under = << >> \/ ~IsAttachment(l.part) => BodyAccounted(l, b)
             /\ b.html = NoBody \/ \E l \in Leaves[p] : l.part.kind = "html" /\ l.part.name = b.html
             /\ b.text = NoBody \/ \E l \in Leaves[p] : (l.part.kind = "plain" \/ l.under = << >>)
                                                        /\ l.part.name = b.text
  <2> HIDE DEF b
  <2> QED BY DEF b
<1>1. ASSUME IsMultipart(p), NEW l \in Leaves[p] PROVE l.under # << >>
  BY <1>1, LeafInNothing
<1>2. ASSUME NEW l \in Leaves[p] PROVE l.part.kind \in {"plain", "html", "other"}
  <2>1. l.part \in Leaf
    BY LeavesAre DEF Places
  <2> QED BY <2>1 DEF Leaf
<1>3. ASSUME NEW l \in Leaves[p], l.under # << >>, Shows(b, l) PROVE BodyAccounted(l, b)
  <2> HIDE DEF b
  <2> QED BY <1>2, <1>3 DEF BodyAccounted, Superseded, Shows
<1>4. ASSUME NEW l \in Leaves[p], Buried(l.under) PROVE BodyAccounted(l, b)
  BY <1>4 DEF BodyAccounted, Hidden, Buried
<1>5. CASE p.kind \in Alternatives
  <2>1. b = ExtractMultipartAlternative(p.parts)
    BY <1>5 DEF ExtractBody, Alternatives
  <2> HIDE DEF b
  <2>2. IsMultipart(p) /\ IsOf(b, p) /\ \A l \in Leaves[p] : ~Buried(l.under) => Shows(b, l)
    BY <1>5, <2>1, AlternativeShows
  <2> QED BY <1>1, <1>3, <1>4, <2>2 DEF IsOf
<1>6. CASE p.kind = "mixed"
  <2>1. b = ExtractMultipartMixed(p.parts)
    BY <1>6 DEF ExtractBody, Alternatives
  <2> HIDE DEF b
  <2>2. /\ IsMultipart(p) /\ IsOf(b, p)
        /\ \A l \in Leaves[p] : ~Hidden(l.under) /\ l.part.disposition # "attachment" => Shows(b, l)
    BY <1>6, <2>1, MixedShows
  <2>3. ASSUME NEW l \in Leaves[p], Hidden(l.under) PROVE BodyAccounted(l, b)
    BY <2>3 DEF BodyAccounted
  <2>4. ASSUME NEW l \in Leaves[p], ~IsAttachment(l.part) PROVE l.part.disposition # "attachment"
    BY <2>4 DEF IsAttachment
  <2> QED BY <1>1, <1>3, <2>2, <2>3, <2>4 DEF IsOf
<1>7. CASE p.kind = "related"
  <2>1. b = ExtractMultipartGeneric[p]
    BY <1>7 DEF ExtractBody, Alternatives
  <2>2. IsMultipart(p)
    BY <1>7 DEF IsMultipart, Multiparts, Alternatives
  <2> HIDE DEF b
  <2>3. IsOf(b, p) /\ \A l \in Leaves[p] : ~Buried(l.under) => Shows(b, l)
    BY <2>1, GenericShows
  <2> QED BY <1>1, <1>3, <1>4, <2>2, <2>3 DEF IsOf
<1>8. CASE ~IsMultipart(p)
  <2>1. /\ b = IF p.kind = "html" THEN LeafBodies(p) ELSE Bodies(NoBody, p.name)
        /\ p.kind = "html" => LeafBodies(p) = Bodies(p.name, NoBody)
    BY <1>8 DEF ExtractBody, IsMultipart, Multiparts, Alternatives, LeafBodies
  <2>2. /\ \A l \in Leaves[p] : l.part = p /\ l.under = << >>
        /\ \E l \in Leaves[p] : l.part = p /\ l.under = << >>
    <3>1. Leaves[p] = {[part |-> p, at |-> << >>, under |-> << >>]}
      BY <1>8, LeavesAre
    <3>2. [part |-> p, at |-> << >>, under |-> << >>].part = p
          /\ [part |-> p, at |-> << >>, under |-> << >>].under = << >>
      OBVIOUS
    <3> QED BY <3>1, <3>2
  <2> HIDE DEF b
  <2>3. \/ p.kind = "html" /\ b.html = p.name /\ b.text = NoBody
        \/ b.html = NoBody /\ b.text = p.name
    BY <2>1 DEF Bodies
  <2> QED BY <2>2, <2>3 DEF BodyAccounted
<1> QED BY <1>5, <1>6, <1>7, <1>8 DEF IsMultipart, Multiparts, Alternatives
-------------------------------------------------------------------------------
(* The files in a part.                                                     *)
Apart(p) == \A l, k \in Leaves[p] : l.part.name = k.part.name => l = k
FileLeaves(p) == {l \in Leaves[p] : IsAttachment(l.part)}

LEMMA AttachmentKeeps ==
  ASSUME NEW p \in Leaf
  PROVE  /\ Attachment(p).name = p.name /\ Attachment(p).extension = p.extension
         /\ Attachment(p).declared = p.declared /\ Attachment(p).magic = p.magic
         /\ Attachment(p).content = p.content /\ Attachment(p).data = DecodeContent(p)
         /\ p.name \in Name
BY DEF Attachment, Leaf

Prefixed(x, a) == <<x>> \o a

(* Sequences that are equal with an element put in front were equal.        *)
LEMMA SamePrefixed ==
  ASSUME NEW X, NEW x \in X, NEW y \in X, NEW a \in Seq(X), NEW b \in Seq(X),
         Prefixed(x, a) = Prefixed(y, b)
  PROVE  x = y /\ a = b
<1>1. /\ Len(Prefixed(x, a)) = Len(a) + 1 /\ Prefixed(x, a)[1] = x /\ Len(a) \in Nat
      /\ \A k \in 1..Len(a) : Prefixed(x, a)[k + 1] = a[k]
  BY DEF Prefixed
<1>2. /\ Len(Prefixed(y, b)) = Len(b) + 1 /\ Prefixed(y, b)[1] = y /\ Len(b) \in Nat
      /\ \A k \in 1..Len(b) : Prefixed(y, b)[k + 1] = b[k]
  BY DEF Prefixed
<1>3. x = y /\ Len(a) = Len(b)
  BY <1>1, <1>2
<1>4. \A k \in 1..Len(a) : a[k] = b[k]
  BY <1>1, <1>2, <1>3
<1> QED BY <1>3, <1>4, SeqEqual

(* A leaf of a multipart is inside one of its parts, and one leaf of that.  *)
LEMMA InsideIsOneLeaf ==
  ASSUME NEW p \in Part, IsMultipart(p), NEW i \in 1..Len(p.parts), NEW j \in 1..Len(p.parts),
         NEW l \in Leaves[p.parts[i]], NEW k \in Leaves[p.parts[j]],
         Inside(p, i, l) = Inside(p, j, k)
  PROVE  i = j /\ l = k
<1>1. p.kind \in Multiparts /\ Len(p.parts) \in Nat
      /\ \A x \in 1..Len(p.parts) : Leaves[p.parts[x]] \subseteq Places
  BY LeavesOfParts, PartsAre
<1>2. l \in Places /\ k \in Places /\ i \in Nat /\ j \in Nat
  BY <1>1
<1>3. /\ Inside(p, i, l).part = l.part /\ Inside(p, i, l).at = Prefixed(i, l.at)
      /\ Inside(p, i, l).under = Prefixed(p.kind, l.under)
      /\ Inside(p, j, k).part = k.part /\ Inside(p, j, k).at = Prefixed(j, k.at)
      /\ Inside(p, j, k).under = Prefixed(p.kind, k.under)
  BY <1>2, InsideIs DEF Prefixed
<1>4. l.part = k.part /\ Prefixed(i, l.at) = Prefixed(j, k.at)
      /\ Prefixed(p.kind, l.under) = Prefixed(p.kind, k.under)
  <2> HIDE DEF Inside
  <2> QED BY <1>3
<1>5. /\ l.at \in Seq(Nat) /\ k.at \in Seq(Nat)
      /\ l.under \in Seq(Multiparts) /\ k.under \in Seq(Multiparts)
      /\ l = [part |-> l.part, at |-> l.at, under |-> l.under]
      /\ k = [part |-> k.part, at |-> k.at, under |-> k.under]
  BY <1>2 DEF Places
<1>6. i = j /\ l.at = k.at
  <2>1. \A x, y \in Nat : \A a, b \in Seq(Nat) : Prefixed(x, a) = Prefixed(y, b) => x = y /\ a = b
    BY SamePrefixed, ZenonT(40)
  <2> QED BY <1>2, <1>4, <1>5, <2>1
<1>7. l.under = k.under
  BY <1>1, <1>4, <1>5, SamePrefixed
<1> QED BY <1>4, <1>5, <1>6, <1>7

(* Where names tell the leaves of a multipart apart, they do within a part  *)
(* and between two parts.                                                   *)
LEMMA PartsApart ==
  ASSUME NEW p \in Part, IsMultipart(p), Apart(p),
         NEW i \in 1..Len(p.parts), NEW j \in 1..Len(p.parts),
         NEW l \in Leaves[p.parts[i]], NEW k \in Leaves[p.parts[j]],
         l.part.name = k.part.name
  PROVE  i = j /\ l = k
<1>1. Inside(p, i, l) \in Leaves[p] /\ Inside(p, i, l).part = l.part
  BY LeavesOfParts
<1>2. Inside(p, j, k) \in Leaves[p] /\ Inside(p, j, k).part = k.part
  BY LeavesOfParts
<1>3. Inside(p, i, l) = Inside(p, j, k)
  BY <1>1, <1>2 DEF Apart
<1> QED BY <1>3, InsideIsOneLeaf

(* The attachments that are found are those of the leaves that are files,   *)
(* and where names tell leaves apart each is found once.                    *)
LEMMA ExtractedFiles ==
  ASSUME NEW p \in Part
  PROVE  /\ ToSet(ExtractFromPart[p]) = {Attachment(l.part) : l \in FileLeaves(p)}
         /\ Apart(p) => IsInjective(ExtractFromPart[p])
<1> DEFINE E(q) == ExtractFromPart[q]
           Has(q) == {Attachment(l.part) : l \in FileLeaves(q)}
           S == {q \in Part : ToSet(E(q)) = Has(q) /\ (Apart(q) => IsInjective(E(q)))}
<1>1. ASSUME NEW q \in Leaf PROVE q \in S
  <2>1. q \in Part /\ ~IsMultipart(q)
    BY PartsAre, LeavesAreNoMultiparts
  <2>2. /\ Leaves[q] = {[part |-> q, at |-> << >>, under |-> << >>]}
        /\ E(q) = IF IsAttachment(q) THEN <<Attachment(q)>> ELSE << >>
    BY <2>1, LeavesAre, ExtractedAre
  <2>3. FileLeaves(q) = IF IsAttachment(q) THEN {[part |-> q, at |-> << >>, under |-> << >>]}
                                           ELSE {}
    BY <2>2 DEF FileLeaves
  <2>4. Has(q) = IF IsAttachment(q) THEN {Attachment(q)} ELSE {}
    <3>1. [part |-> q, at |-> << >>, under |-> << >>].part = q
      OBVIOUS
    <3> QED BY <2>3, <3>1
  <2>5. ToSet(E(q)) = Has(q) /\ IsInjective(E(q))
    <3>1. CASE IsAttachment(q)
      <4>1. E(q) = <<Attachment(q)>> /\ Has(q) = {Attachment(q)}
        BY <2>2, <2>4, <3>1
      <4>2. DOMAIN <<Attachment(q)>> = {1} /\ <<Attachment(q)>>[1] = Attachment(q)
        OBVIOUS
      <4> HIDE DEF E, Has
      <4>3. ToSet(<<Attachment(q)>>) = {Attachment(q)} /\ IsInjective(<<Attachment(q)>>)
        BY <4>2 DEF ToSet, IsInjective
      <4> QED BY <4>1, <4>3
    <3>2. CASE ~IsAttachment(q)
      <4>1. E(q) = << >> /\ Has(q) = {}
        BY <2>2, <2>4, <3>2
      <4>2. DOMAIN << >> = {}
        OBVIOUS
      <4> HIDE DEF E, Has
      <4> QED BY <4>1, <4>2 DEF ToSet, IsInjective
    <3> QED BY <3>1, <3>2
  <2> QED BY <2>1, <2>5
<1>2. ASSUME NEW q \in Part, IsMultipart(q), q.parts \in Seq(S) PROVE q \in S
  <2> DEFINE n == Len(q.parts)
             ss == FilesOf(ExtractFromPart, q.parts)
  <2>1. /\ DOMAIN q.parts = 1..n /\ n \in Nat
        /\ \A i \in 1..n : q.parts[i] \in S /\ q.parts[i] \in Part
    <3>1. DOMAIN q.parts = 1..n /\ n \in Nat
      BY <1>2, LeavesOfParts
    <3>2. \A i \in 1..n : q.parts[i] \in S
      <4> HIDE DEF S
      <4> QED BY <1>2, <3>1, ElementsOf
    <3> QED BY <3>1, <3>2
  <2>2. DOMAIN ss = 1..n /\ \A i \in 1..n : ss[i] = E(q.parts[i])
    BY <2>1 DEF FilesOf
  <2>3. ss \in Seq(Seq(Files))
    <3>1. \A i \in 1..n : E(q.parts[i]) \in Seq(Files)
      BY <2>1, ExtractedAre
    <3> HIDE DEF E, n
    <3>2. ss = [i \in 1..n |-> E(q.parts[i])]
      BY <2>1 DEF FilesOf, E
    <3> HIDE DEF ss
    <3> QED BY <2>1, <3>1, <3>2
  <2>4. E(q) = FlattenSeq(ss)
    BY <1>2, ExtractedAre
  <2> HIDE DEF ss, E, n
  <2>5. \A i \in 1..n : ToSet(ss[i]) = Has(q.parts[i])
                        /\ (Apart(q.parts[i]) => IsInjective(ss[i]))
    BY <2>1, <2>2
  <2>6. ToSet(E(q)) = UNION {ToSet(ss[i]) : i \in 1..n}
    BY <2>2, <2>3, <2>4, FlattenHas
  <2>7. \A x : x \in ToSet(E(q)) <=> \E i \in 1..n : x \in Has(q.parts[i])
    BY <2>5, <2>6
  <2>8. ASSUME NEW i \in 1..n, NEW l \in FileLeaves(q.parts[i])
        PROVE  Attachment(l.part) \in Has(q)
    <3>1. Inside(q, i, l) \in Leaves[q] /\ Inside(q, i, l).part = l.part
      BY <1>2, LeavesOfParts DEF n, FileLeaves
    <3>2. Inside(q, i, l) \in FileLeaves(q)
      BY <3>1 DEF FileLeaves
    <3> HIDE DEF Inside
    <3> QED BY <3>1, <3>2
  <2>9. ASSUME NEW l \in FileLeaves(q)
        PROVE  \E i \in 1..n : Attachment(l.part) \in Has(q.parts[i])
    <3>1. PICK i \in 1..n : \E k \in Leaves[q.parts[i]] : l = Inside(q, i, k)
      BY <1>2, LeavesOfParts DEF n, FileLeaves
    <3>2. PICK k \in Leaves[q.parts[i]] : l = Inside(q, i, k)
      BY <3>1
    <3>3. l.part = k.part
      BY <1>2, <3>2, LeavesOfParts DEF n
    <3>4. k \in FileLeaves(q.parts[i])
      BY <3>2, <3>3 DEF FileLeaves
    <3> QED BY <3>3, <3>4
  <2>10. ToSet(E(q)) = Has(q)
    BY <2>7, <2>8, <2>9
  <2>11. ASSUME Apart(q) PROVE IsInjective(E(q))
    <3>1. ASSUME NEW i \in 1..n PROVE IsInjective(ss[i])
      <4>1. Apart(q.parts[i])
        BY <1>2, <2>11, PartsApart DEF Apart, n
      <4> QED BY <2>5, <4>1
    <3>2. ASSUME NEW i \in 1..n, NEW j \in 1..n, NEW x, x \in ToSet(ss[i]), x \in ToSet(ss[j])
          PROVE  i = j
      <4>1. PICK l \in FileLeaves(q.parts[i]) : x = Attachment(l.part)
        BY <2>5, <3>2
      <4>2. PICK k \in FileLeaves(q.parts[j]) : x = Attachment(k.part)
        BY <2>5, <3>2
      <4>3. l \in Leaves[q.parts[i]] /\ k \in Leaves[q.parts[j]]
        BY DEF FileLeaves
      <4>4. l.part \in Leaf /\ k.part \in Leaf
        BY <2>1, <4>3, LeavesAre DEF Places
      <4>5. l.part.name = k.part.name
        <5>1. Attachment(l.part).name = l.part.name /\ Attachment(k.part).name = k.part.name
          BY <4>4, AttachmentKeeps
        <5> QED BY <4>1, <4>2, <5>1
      <4> QED BY <1>2, <2>11, <4>3, <4>5, PartsApart DEF n
    <3>3. \A i, j \in 1..n : i # j => ToSet(ss[i]) \cap ToSet(ss[j]) = {}
      BY <3>2
    <3> QED BY <2>2, <2>3, <2>4, <3>1, <3>3, FlattenHas
  <2> QED BY <2>10, <2>11
<1>3. Leaf \subseteq S
  <2> HIDE DEF S
  <2> QED BY <1>1
<1>4. Part \subseteq S
  <2> HIDE DEF S
  <2> QED BY <1>2, <1>3, EveryPart
<1> QED BY <1>4
-------------------------------------------------------------------------------
(* The attachments that ProcessAttachments keeps.                           *)
Kept(s) == FoldLeft(LAMBDA kept, p : IF ValidateAttachment(p) THEN Append(kept, p) ELSE kept,
                    << >>, s)

KeptSteps(s) ==
  [x \in Seq(Files) \X (1..Len(s)) |->
     IF ValidateAttachment(s[x[2]]) THEN Append(x[1], s[x[2]]) ELSE x[1]]

(* The validations are a loop over the attachments.                         *)
LEMMA KeptRun ==
  ASSUME NEW s \in Seq(Files)
  PROVE  RunsTo(Kept(s), Len(s), Seq(Files), << >>, KeptSteps(s))
<1> DEFINE n == Len(s)
           V == Seq(Files)
           Step(b, p) == IF ValidateAttachment(p) THEN Append(b, p) ELSE b
           Solves(h) == h = [t \in SUBSET DOMAIN s |->
                               IF t = {} THEN << >>
                               ELSE Step(h[t \ {Max(t)}], s[Max(t)])]
           g == CHOOSE h : Solves(h)
           step == KeptSteps(s)
<1>1. n \in Nat /\ DOMAIN s = 1..n /\ \A i \in 1..n : s[i] \in Files
  BY ElementsOf
<1>2. Kept(s) = g[1..n]
  <2>1. Kept(s) = g[DOMAIN s]
    BY DEF Kept, FoldLeft, MapThenFoldSet
  <2> QED BY <1>1, <2>1
<1>3. step \in [V \X (1..n) -> V]
      /\ \A b \in V : \A i \in 1..n : step[<<b, i>>] = Step(b, s[i])
  <2>1. \A b \in V : \A i \in 1..n : Append(b, s[i]) \in V
    BY <1>1, AppendProperties
  <2> HIDE DEF V
  <2>2. step = [x \in V \X (1..n) |-> Step(x[1], s[x[2]])]
    BY DEF KeptSteps, V
  <2>3. \A x \in V \X (1..n) : Step(x[1], s[x[2]]) \in V
    BY <2>1
  <2> HIDE DEF step, Step
  <2> QED BY <2>2, <2>3
<1>4. << >> \in V
  OBVIOUS
<1> HIDE DEF n, V, Step, step
<1>5. ASSUME NEW t \in SUBSET (1..n), t # {}, NEW b \in V
      PROVE  step[<<b, Max(t)>>] = Step(b, s[Max(t)])
  <2>1. Max(t) \in 1..n
    BY <1>1, <1>5, MaxIsIn
  <2> QED BY <1>3, <2>1
<1>6. \E h : Solves(h)
  <2>1. PICK h : IsFold(h, 1..n, V, << >>, step, Lasts(n))
    BY <1>1, <1>3, <1>4, FoldLeftExists
  <2>2. ASSUME NEW t \in SUBSET (1..n), t # {} PROVE h[t \ {Max(t)}] \in V
    <3>1. t \ {Max(t)} \in SUBSET (1..n)
      OBVIOUS
    <3> QED BY <2>1, <3>1 DEF IsFold
  <2>3. Solves(h)
    BY <1>1, <1>5, <2>1, <2>2 DEF IsFold, Lasts
  <2> QED BY <2>3
<1>7. Solves(g)
  BY <1>6
<1> HIDE DEF g
<1>8. IsIter(g, n, V, << >>, step)
  BY <1>1, <1>5, <1>7 DEF IsIter
<1>9. RunsTo(g[1..n], n, V, << >>, step)
  BY <1>1, <1>3, <1>4, <1>8, RunExists
<1> QED BY <1>2, <1>9 DEF n, V, step

LEMMA EmptyHasNothing ==
  /\ ToSet(<< >>) = {} /\ IsInjective(<< >>)
<1>1. DOMAIN << >> = {}
  OBVIOUS
<1> QED BY <1>1 DEF ToSet, IsInjective

LEMMA AppendHas ==
  ASSUME NEW X, NEW s \in Seq(X), NEW a \in X
  PROVE  /\ Append(s, a) \in Seq(X) /\ ToSet(Append(s, a)) = ToSet(s) \cup {a}
         /\ IsInjective(s) /\ a \notin ToSet(s) => IsInjective(Append(s, a))
<1> DEFINE t == Append(s, a)
<1>1. /\ Len(s) \in Nat /\ DOMAIN s = 1..Len(s) /\ DOMAIN t = 1..(Len(s) + 1) /\ t \in Seq(X)
      /\ t[Len(s) + 1] = a /\ \A i \in 1..Len(s) : t[i] = s[i]
  OBVIOUS
<1> HIDE DEF t
<1>2. ToSet(t) = ToSet(s) \cup {a}
  <2>1. \A i \in DOMAIN t : i = Len(s) + 1 \/ i \in DOMAIN s
    BY <1>1
  <2>2. \A i \in DOMAIN s : i \in DOMAIN t
    BY <1>1
  <2>3. Len(s) + 1 \in DOMAIN t
    BY <1>1
  <2> QED BY <1>1, <2>1, <2>2, <2>3 DEF ToSet
<1>3. ASSUME IsInjective(s), a \notin ToSet(s) PROVE IsInjective(t)
  <2> SUFFICES ASSUME NEW i \in DOMAIN t, NEW j \in DOMAIN t, t[i] = t[j] PROVE i = j
    BY DEF IsInjective
  <2>1. \A k \in DOMAIN s : s[k] # a
    BY <1>3 DEF ToSet
  <2>2. \A k \in DOMAIN t : k = Len(s) + 1 \/ k \in DOMAIN s
    BY <1>1
  <2> QED BY <1>1, <1>3, <2>1, <2>2 DEF IsInjective
<1> QED BY <1>1, <1>2, <1>3 DEF t

(* It keeps those that pass, and none twice.                                *)
LEMMA KeptAre ==
  ASSUME NEW s \in Seq(Files)
  PROVE  /\ Kept(s) \in Seq(Files)
         /\ ToSet(Kept(s)) = {a \in ToSet(s) : ValidateAttachment(a)}
         /\ IsInjective(s) => IsInjective(Kept(s))
<1> DEFINE n == Len(s)
<1>1. n \in Nat /\ DOMAIN s = 1..n /\ \A i \in 1..n : s[i] \in Files
  BY ElementsOf
<1>2. PICK b : IsRun(b, n, Seq(Files), << >>, KeptSteps(s)) /\ b[n] = Kept(s)
  BY KeptRun DEF RunsTo
<1>3. /\ b \in [0..n -> Seq(Files)] /\ b[0] = << >>
      /\ \A i \in 1..n : b[i] = IF ValidateAttachment(s[i]) THEN Append(b[i - 1], s[i]) ELSE b[i - 1]
  <2>1. ASSUME NEW i \in 1..n PROVE i - 1 \in 0..n
    BY <1>1
  <2> QED BY <1>2, <2>1 DEF IsRun, KeptSteps
<1> HIDE DEF n
<1> DEFINE Upto(i) == {s[j] : j \in 1..i}
           S == {i \in Nat : i <= n => /\ ToSet(b[i]) = {a \in Upto(i) : ValidateAttachment(a)}
                                       /\ IsInjective(s) => IsInjective(b[i])}
<1>4. 0 \in S
  <2>1. Upto(0) = {}
    OBVIOUS
  <2> QED BY <1>3, <2>1, EmptyHasNothing
<1>5. ASSUME NEW i \in Nat, i \in S PROVE i + 1 \in S
  <2> SUFFICES ASSUME i + 1 <= n
               PROVE  /\ ToSet(b[i + 1]) = {a \in Upto(i + 1) : ValidateAttachment(a)}
                      /\ IsInjective(s) => IsInjective(b[i + 1])
    OBVIOUS
  <2>1. i + 1 \in 1..n /\ (i + 1) - 1 = i /\ i <= n /\ i \in 0..n
    BY <1>1
  <2>2. /\ ToSet(b[i]) = {a \in Upto(i) : ValidateAttachment(a)}
        /\ IsInjective(s) => IsInjective(b[i])
    BY <1>5, <2>1
  <2>3. b[i] \in Seq(Files) /\ s[i + 1] \in Files
        /\ b[i + 1] = IF ValidateAttachment(s[i + 1]) THEN Append(b[i], s[i + 1]) ELSE b[i]
    BY <1>1, <1>3, <2>1
  <2>4. Upto(i + 1) = Upto(i) \cup {s[i + 1]}
    <3>1. 1..(i + 1) = (1..i) \cup {i + 1}
      OBVIOUS
    <3> QED BY <3>1
  <2>5. IsInjective(s) => s[i + 1] \notin Upto(i)
    <3>1. \A j \in 1..i : j \in DOMAIN s /\ j # i + 1
      BY <1>1, <2>1
    <3>2. i + 1 \in DOMAIN s
      BY <1>1, <2>1
    <3> QED BY <3>1, <3>2 DEF IsInjective
  <2> HIDE DEF Upto
  <2>6. CASE ValidateAttachment(s[i + 1])
    <3>1. ToSet(b[i + 1]) = ToSet(b[i]) \cup {s[i + 1]}
          /\ (IsInjective(b[i]) /\ s[i + 1] \notin ToSet(b[i]) => IsInjective(b[i + 1]))
      BY <2>3, <2>6, AppendHas
    <3> QED BY <2>2, <2>4, <2>5, <2>6, <3>1
  <2>7. CASE ~ValidateAttachment(s[i + 1])
    BY <2>2, <2>3, <2>4, <2>7
  <2> QED BY <2>6, <2>7
<1>6. n \in S
  <2> HIDE DEF S
  <2> QED BY <1>1, <1>4, <1>5, EveryNumber
<1>7. Upto(n) = ToSet(s)
  BY <1>1 DEF ToSet
<1>8. b[n] \in Seq(Files)
  BY <1>1, <1>3
<1> QED BY <1>1, <1>2, <1>6, <1>7, <1>8
-------------------------------------------------------------------------------
(* Sums over finite sets: the elements can be taken in any order.           *)
IsSum(f, D, w) ==
  /\ f \in [SUBSET D -> Nat] /\ f[{}] = 0
  /\ \A t \in SUBSET D : t # {} => \E x \in t : f[t] = w[x] + f[t \ {x}]

IsPickedSum(f, D, w, pick) ==
  /\ DOMAIN f = SUBSET D /\ f = [t \in SUBSET D |-> f[t]] /\ f[{}] = 0
  /\ \A t \in SUBSET D : t # {} => \/ f[t] = w[pick[t]] + f[t \ {pick[t]}]
                                  \/ f[t] = f[t \ {pick[t]}] + w[pick[t]]

IsNatSum(f, D, w, pick) ==
  /\ f \in [SUBSET D -> Nat] /\ f[{}] = 0
  /\ \A t \in SUBSET D : t # {} => /\ f[t] = w[pick[t]] + f[t \ {pick[t]}]
                                  /\ f[t] = f[t \ {pick[t]}] + w[pick[t]]
                                  /\ pick[t] \in t

(* Induction over the subsets of a finite set.                              *)
LEMMA EverySubset ==
  ASSUME NEW D, IsFiniteSet(D), NEW S, {} \in S,
         \A t \in SUBSET D : t # {} /\ (\A x \in t : t \ {x} \in S) => t \in S
  PROVE  \A t \in SUBSET D : t \in S
<1> DEFINE T == {n \in Nat : \A t \in SUBSET D : Cardinality(t) = n => t \in S}
<1>1. ASSUME NEW t \in SUBSET D
      PROVE  /\ Cardinality(t) \in Nat /\ (Cardinality(t) = 0 <=> t = {})
             /\ \A x \in t : t \ {x} \in SUBSET D /\ Cardinality(t \ {x}) = Cardinality(t) - 1
  <2>1. IsFiniteSet(t)
    BY FS_Subset
  <2>2. Cardinality(t) \in Nat /\ (Cardinality(t) = 0 <=> t = {})
    BY <2>1, FS_CardinalityType, FS_EmptySet
  <2>3. \A x \in t : Cardinality(t \ {x}) = Cardinality(t) - 1
    BY <2>1, FS_RemoveElement
  <2> QED BY <2>2, <2>3
<1>2. 0 \in T
  BY <1>1
<1>3. ASSUME NEW n \in Nat, n \in T PROVE n + 1 \in T
  <2> SUFFICES ASSUME NEW t \in SUBSET D, Cardinality(t) = n + 1 PROVE t \in S
    OBVIOUS
  <2>1. t # {} /\ \A x \in t : t \ {x} \in SUBSET D /\ Cardinality(t \ {x}) = n
    BY <1>1
  <2>2. \A x \in t : t \ {x} \in S
    BY <1>3, <2>1
  <2> QED BY <2>1, <2>2
<1>4. \A n \in Nat : n \in T
  <2> HIDE DEF T
  <2> QED BY <1>2, <1>3, EveryNumber
<1> QED BY <1>1, <1>4

(* The sum the community modules compute is a sum.                          *)
LEMMA PickedSumIs ==
  ASSUME NEW D, IsFiniteSet(D), NEW w \in [D -> Nat], NEW pick, Picks(pick, D), NEW f,
         IsPickedSum(f, D, w, pick)
  PROVE  IsSum(f, D, w)
<1> DEFINE S == {t \in SUBSET D : f[t] \in Nat}
<1>1. {} \in S
  BY DEF IsPickedSum
<1>2. ASSUME NEW t \in SUBSET D, t # {}, \A x \in t : t \ {x} \in S PROVE t \in S
  <2>1. pick[t] \in t
    BY <1>2 DEF Picks
  <2>2. f[t \ {pick[t]}] \in Nat /\ w[pick[t]] \in Nat
    BY <1>2, <2>1
  <2>3. \/ f[t] = w[pick[t]] + f[t \ {pick[t]}]
        \/ f[t] = f[t \ {pick[t]}] + w[pick[t]]
    BY <1>2 DEF IsPickedSum
  <2>4. f[t] \in Nat
    BY <2>2, <2>3
  <2> QED BY <2>4
<1>3. \A t \in SUBSET D : t \in S
  <2> HIDE DEF S
  <2> QED BY <1>1, <1>2, EverySubset
<1>4. f \in [SUBSET D -> Nat]
  BY <1>3 DEF IsPickedSum
<1>5. ASSUME NEW t \in SUBSET D, t # {} PROVE \E x \in t : f[t] = w[x] + f[t \ {x}]
  <2>1. pick[t] \in t
    BY <1>5 DEF Picks
  <2>2. \/ f[t] = w[pick[t]] + f[t \ {pick[t]}]
        \/ f[t] = f[t \ {pick[t]}] + w[pick[t]]
    BY <1>5 DEF IsPickedSum
  <2>3. t \ {pick[t]} \in SUBSET D
    OBVIOUS
  <2>4. f[t \ {pick[t]}] \in Nat /\ w[pick[t]] \in Nat
    BY <1>4, <2>1, <2>3
  <2>5. f[t] = w[pick[t]] + f[t \ {pick[t]}]
    BY <2>2, <2>4
  <2> QED BY <2>1, <2>5
<1> QED BY <1>4, <1>5 DEF IsSum, IsPickedSum

(* It exists for natural weights on a finite set.                           *)
LEMMA PickedSumExists ==
  ASSUME NEW D, IsFiniteSet(D), NEW w \in [D -> Nat], NEW pick, Picks(pick, D)
  PROVE  \E f : IsNatSum(f, D, w, pick)
<1> DEFINE step == [x \in Nat \X D |-> w[x[2]] + x[1]]
<1>1. step \in [Nat \X D -> Nat] /\ \A v \in Nat : \A x \in D : step[<<v, x>>] = w[x] + v
  OBVIOUS
<1> HIDE DEF step
<1>2. PICK f : IsFold(f, D, Nat, 0, step, pick)
  <2>1. 0 \in Nat
    OBVIOUS
  <2> QED BY <1>1, <2>1, FoldExists
<1>3. f \in [SUBSET D -> Nat]
  BY <1>2 DEF IsFold
<1>4. ASSUME NEW t \in SUBSET D, t # {}
      PROVE  /\ f[t] = w[pick[t]] + f[t \ {pick[t]}]
             /\ f[t] = f[t \ {pick[t]}] + w[pick[t]]
             /\ pick[t] \in t
  <2>1. pick[t] \in D /\ pick[t] \in t /\ t \ {pick[t]} \in SUBSET D
    BY <1>4 DEF Picks
  <2>2. f[t] = step[<<f[t \ {pick[t]}], pick[t]>>]
    BY <1>2, <1>4 DEF IsFold
  <2>3. f[t \ {pick[t]}] \in Nat
    BY <1>3, <2>1
  <2>4. f[t] = w[pick[t]] + f[t \ {pick[t]}]
    BY <1>1, <2>1, <2>2, <2>3
  <2>5. w[pick[t]] \in Nat
    BY <2>1
  <2>6. w[pick[t]] + f[t \ {pick[t]}] = f[t \ {pick[t]}] + w[pick[t]]
    BY <2>3, <2>5
  <2> QED BY <2>1, <2>4, <2>6
<1>5. f[{}] = 0
  BY <1>2 DEF IsFold
<1>6. IsNatSum(f, D, w, pick)
  BY <1>3, <1>4, <1>5 DEF IsNatSum
<1> QED BY <1>6

(* Whichever element is taken out first, the sum is the same.               *)
LEMMA SumTakesAny ==
  ASSUME NEW D, IsFiniteSet(D), NEW w \in [D -> Nat], NEW f, IsSum(f, D, w)
  PROVE  \A t \in SUBSET D : \A x \in t : f[t] = w[x] + f[t \ {x}]
<1> DEFINE S == {t \in SUBSET D : \A x \in t : f[t] = w[x] + f[t \ {x}]}
<1>1. {} \in S
  OBVIOUS
<1>2. ASSUME NEW t \in SUBSET D, t # {}, \A x \in t : t \ {x} \in S PROVE t \in S
  <2> SUFFICES ASSUME NEW x \in t PROVE f[t] = w[x] + f[t \ {x}]
    OBVIOUS
  <2>1. PICK y \in t : f[t] = w[y] + f[t \ {y}]
    BY <1>2 DEF IsSum
  <2>2. CASE x = y
    BY <2>1, <2>2
  <2>3. CASE x # y
    <3>1. x \in t \ {y} /\ y \in t \ {x}
      BY <2>3
    <3>2. f[t \ {y}] = w[x] + f[(t \ {y}) \ {x}]
      BY <1>2, <3>1
    <3>3. f[t \ {x}] = w[y] + f[(t \ {x}) \ {y}]
      BY <1>2, <3>1
    <3>4. (t \ {y}) \ {x} = (t \ {x}) \ {y} /\ (t \ {x}) \ {y} \in SUBSET D
      OBVIOUS
    <3> DEFINE a == w[x]
               b == w[y]
               c == f[(t \ {x}) \ {y}]
    <3>5. a \in Nat /\ b \in Nat /\ c \in Nat
      BY <3>4 DEF IsSum
    <3>6. f[t] = b + (a + c) /\ f[t \ {x}] = b + c
      BY <2>1, <3>2, <3>3, <3>4
    <3> HIDE DEF a, b, c
    <3>7. f[t] = a + f[t \ {x}]
      BY <3>5, <3>6
    <3> QED BY <3>7 DEF a
  <2> QED BY <2>2, <2>3
<1>3. \A t \in SUBSET D : t \in S
  <2> HIDE DEF S
  <2> QED BY <1>1, <1>2, EverySubset
<1> QED BY <1>3

Images(h, D) == {h[x] : x \in D}
KeepsWeights(h, D, w, v) == \A x \in D : v[h[x]] = w[x]

(* A sum is the same over the images of a function that keeps the weights   *)
(* and takes no two elements to one.                                        *)
LEMMA SumMoves ==
  ASSUME NEW D, IsFiniteSet(D), NEW w \in [D -> Nat], NEW f, IsSum(f, D, w),
         NEW E, IsFiniteSet(E), NEW v \in [E -> Nat], NEW g, IsSum(g, E, v),
         NEW h \in [D -> E], IsInjective(h), KeepsWeights(h, D, w, v)
  PROVE  f[D] = g[Images(h, D)]
<1> DEFINE To(t) == {h[x] : x \in t}
           S == {t \in SUBSET D : f[t] = g[To(t)]}
<1>1. {} \in S
  BY DEF IsSum
<1>2. ASSUME NEW t \in SUBSET D, t # {}, \A x \in t : t \ {x} \in S PROVE t \in S
  <2>1. PICK x \in t : TRUE
    BY <1>2
  <2>2. f[t] = w[x] + f[t \ {x}]
    BY SumTakesAny
  <2>3. f[t \ {x}] = g[To(t \ {x})]
    BY <1>2, <2>1
  <2>4. To(t \ {x}) = To(t) \ {h[x]}
    BY DEF IsInjective
  <2>5. h[x] \in To(t) /\ To(t) \in SUBSET E
    OBVIOUS
  <2> HIDE DEF To
  <2>6. g[To(t)] = v[h[x]] + g[To(t) \ {h[x]}]
    BY <2>5, SumTakesAny
  <2> QED BY <2>2, <2>3, <2>4, <2>6 DEF KeepsWeights
<1>3. \A t \in SUBSET D : t \in S
  <2> HIDE DEF S
  <2> QED BY <1>1, <1>2, EverySubset
<1> QED BY <1>3 DEF Images

(* The two sums that are compared: over the attachments, over the leaves.   *)
DataSizes(s) == [i \in 1..Len(s) |-> Len(s[i].data)]

(* TotalSize is a sum over the indices of the attachments ...               *)
LEMMA TotalSizeIs ==
  ASSUME NEW s, NEW X, s \in Seq(X), DataSizes(s) \in [1..Len(s) -> Nat]
  PROVE  \E f : IsSum(f, 1..Len(s), DataSizes(s)) /\ TotalSize(s) = f[1..Len(s)]
<1> DEFINE n == Len(s)
           w == DataSizes(s)
           Solves(h) == h = [t \in SUBSET DOMAIN s |->
                               IF t = {} THEN 0
                               ELSE h[t \ {Max(t)}] + Len(s[Max(t)].data)]
           g == CHOOSE h : Solves(h)
<1>1. n \in Nat /\ DOMAIN s = 1..n
  BY ElementsOf
<1>2. \A i \in 1..n : w[i] = Len(s[i].data)
  BY DEF DataSizes
<1>3. TotalSize(s) = g[1..n]
  <2>1. TotalSize(s) = g[DOMAIN s]
    BY DEF TotalSize, FoldLeft, MapThenFoldSet
  <2> QED BY <1>1, <2>1
<1> HIDE DEF n, w
<1>4. w \in [1..n -> Nat]
  BY DEF n, w
<1>5. Picks(Lasts(n), 1..n) /\ IsFiniteSet(1..n)
  <2>1. Picks(Lasts(n), 1..n)
    BY <1>1, MaxIsIn DEF Picks, Lasts
  <2>2. IsFiniteSet(1..n)
    BY <1>1, FS_Interval
  <2> QED BY <2>1, <2>2
<1>6. ASSUME NEW t \in SUBSET (1..n), t # {}
      PROVE  Lasts(n)[t] = Max(t) /\ w[Max(t)] = Len(s[Max(t)].data)
  <2>1. Max(t) \in 1..n
    BY <1>1, <1>6, MaxIsIn
  <2> QED BY <1>2, <2>1 DEF Lasts
<1>7. \E h : Solves(h)
  <2>1. PICK h : IsNatSum(h, 1..n, w, Lasts(n))
    BY <1>4, <1>5, PickedSumExists
  <2>2. h = [t \in SUBSET (1..n) |-> h[t]]
    BY <2>1 DEF IsNatSum
  <2>3. \A t \in SUBSET (1..n) : h[t] = IF t = {} THEN 0 ELSE h[t \ {Max(t)}] + Len(s[Max(t)].data)
    BY <1>6, <2>1, ZenonT(40) DEF IsNatSum
  <2>4. Solves(h)
    BY <1>1, <2>2, <2>3
  <2> QED BY <2>4
<1>8. Solves(g)
  BY <1>7
<1> HIDE DEF g
<1>9. IsPickedSum(g, 1..n, w, Lasts(n))
  <2>1. /\ DOMAIN g = SUBSET (1..n) /\ g = [t \in SUBSET (1..n) |-> g[t]]
        /\ \A t \in SUBSET (1..n) :
             g[t] = IF t = {} THEN 0 ELSE g[t \ {Max(t)}] + Len(s[Max(t)].data)
    BY <1>1, <1>8
  <2> QED BY <1>6, <2>1 DEF IsPickedSum
<1>10. IsSum(g, 1..n, w)
  BY <1>4, <1>5, <1>9, PickedSumIs
<1> QED BY <1>3, <1>10 DEF n, w

ContentSizes(D) == [l \in D |-> Len(l.part.content)]
AnyOf(D) == [t \in SUBSET D |-> CHOOSE x \in t : TRUE]

(* ... and what IsAccountedFor compares with the limit a sum over leaves.   *)
LEMMA ContentSizeIs ==
  ASSUME NEW D, IsFiniteSet(D), ContentSizes(D) \in [D -> Nat]
  PROVE  \E f : IsSum(f, D, ContentSizes(D))
                /\ MapThenSumSet(LAMBDA l : Len(l.part.content), D) = f[D]
<1> DEFINE w == ContentSizes(D)
           Solves(h) == h = [t \in SUBSET D |->
                               IF t = {} THEN 0
                               ELSE Len((CHOOSE x \in t : TRUE).part.content)
                                      + h[t \ {CHOOSE x \in t : TRUE}]]
           g == CHOOSE h : Solves(h)
<1>1. MapThenSumSet(LAMBDA l : Len(l.part.content), D) = g[D]
  BY DEF MapThenSumSet, MapThenFoldSet
<1>2. \A x \in D : w[x] = Len(x.part.content)
  BY DEF ContentSizes
<1> HIDE DEF w
<1>3. w \in [D -> Nat]
  BY DEF w
<1>4. Picks(AnyOf(D), D)
  BY DEF Picks, AnyOf
<1>5. ASSUME NEW t \in SUBSET D, t # {}
      PROVE  AnyOf(D)[t] = (CHOOSE x \in t : TRUE) /\ w[AnyOf(D)[t]] = Len((CHOOSE x \in t : TRUE).part.content)
  <2>1. AnyOf(D)[t] = (CHOOSE x \in t : TRUE) /\ AnyOf(D)[t] \in D
    BY <1>4, <1>5 DEF AnyOf, Picks
  <2> QED BY <1>2, <2>1
<1>6. \E h : Solves(h)
  <2>1. PICK h : IsNatSum(h, D, w, AnyOf(D))
    BY <1>3, <1>4, PickedSumExists
  <2>2. h = [t \in SUBSET D |-> h[t]]
    BY <2>1 DEF IsNatSum
  <2>3. \A t \in SUBSET D :
          h[t] = IF t = {} THEN 0
                 ELSE Len((CHOOSE x \in t : TRUE).part.content) + h[t \ {CHOOSE x \in t : TRUE}]
    BY <1>5, <2>1, ZenonT(40) DEF IsNatSum
  <2>4. Solves(h)
    BY <2>2, <2>3
  <2> QED BY <2>4
<1>7. Solves(g)
  BY <1>6
<1> HIDE DEF g
<1>8. IsPickedSum(g, D, w, AnyOf(D))
  <2>1. /\ DOMAIN g = SUBSET D /\ g = [t \in SUBSET D |-> g[t]]
        /\ \A t \in SUBSET D :
             g[t] = IF t = {} THEN 0
                    ELSE Len((CHOOSE x \in t : TRUE).part.content) + g[t \ {CHOOSE x \in t : TRUE}]
    BY <1>7
  <2> QED BY <1>5, <2>1, ZenonT(40) DEF IsPickedSum
<1>9. IsSum(g, D, w)
  BY <1>3, <1>4, <1>8, PickedSumIs
<1> QED BY <1>1, <1>9 DEF w
-------------------------------------------------------------------------------
(* base64: what is decoded is what was encoded.                             *)
LEMMA FirstByte ==
  ASSUME NEW x \in 0..255, NEW y \in 0..255
  PROVE  /\ (x \div 4) \in 0..63 /\ ((x % 4) * 16 + (y \div 16)) \in 0..63
         /\ (x \div 4) * 4 + (((x % 4) * 16 + (y \div 16)) \div 16) = x
OBVIOUS

LEMMA ThirdByte ==
  ASSUME NEW y \in 0..255, NEW z \in 0..255
  PROVE  /\ (z % 64) \in 0..63
         /\ (((y % 16) * 4 + (z \div 64)) % 4) * 64 + (z % 64) = z
OBVIOUS

LEMMA LowBits ==
  ASSUME NEW a \in 0..3, NEW b \in 0..15
  PROVE  (a * 16 + b) % 16 = b
<1>1. a = 0 \/ a = 1 \/ a = 2 \/ a = 3
  OBVIOUS
<1> QED BY <1>1

LEMMA CharPlaces ==
  ASSUME NEW k \in Nat \ {0}, NEW j \in 0..3
  PROVE  ((4 * k - 3 + j) - 1) \div 4 = k - 1 /\ ((4 * k - 3 + j) - 1) % 4 = j
OBVIOUS

LEMMA BlocksAre ==
  ASSUME NEW n \in Nat
  PROVE  LET m == (n + 2) \div 3 IN
         /\ m \in Nat /\ (4 * m + 3) \div 4 = m /\ 3 * m >= n /\ 3 * m < n + 3
OBVIOUS

LEMMA FirstOfThree ==
  ASSUME NEW a \in Nat, NEW b \in Nat, NEW c \in Nat, NEW k \in 0..3
  PROVE  LET s == SubSeq(<<a, b, c>>, 1, k) IN
         /\ s \in Seq(Nat) /\ Len(s) = k
         /\ k >= 1 => s[1] = a
         /\ k >= 2 => s[2] = b
         /\ k >= 3 => s[3] = c
<1> DEFINE t == <<a, b, c>>
           s == SubSeq(t, 1, k)
<1>1. t \in Seq(Nat) /\ Len(t) = 3 /\ t[1] = a /\ t[2] = b /\ t[3] = c
  OBVIOUS
<1> HIDE DEF t
<1>2. s \in Seq(Nat) /\ Len(s) = k /\ \A i \in 1..k : s[i] = t[i]
  <2>1. 1 \in Int /\ k \in Int /\ k <= Len(t)
    BY <1>1
  <2>2. \A i \in 1..k : i \in DOMAIN t
    BY <1>1
  <2> QED BY <1>1, <2>1, <2>2
<1> HIDE DEF s
<1> QED BY <1>1, <1>2 DEF s, t

Char(src, i, j) == IF i + j <= Len(src) /\ src[i + j] # Padding THEN src[i + j] ELSE 0
Valid(src, i) == Cardinality({j \in 0..3 : i + j <= Len(src) /\ src[i + j] # Padding})
Block(src, i) ==
  SubSeq(<<Char(src, i, 0) * 4 + Char(src, i, 1) \div 16,
           (Char(src, i, 1) % 16) * 16 + Char(src, i, 2) \div 4,
           (Char(src, i, 2) % 4) * 64 + Char(src, i, 3)>>, 1,
         IF Valid(src, i) = 0 THEN 0 ELSE Valid(src, i) - 1)

(* DecodeBase64 puts the bytes of the blocks of four characters together.   *)
LEMMA DecodeIs ==
  ASSUME NEW data
  PROVE  LET src == WithoutSpace(data) IN
         DecodeBase64(data) = FlattenSeq([k \in 1 .. (Len(src) + 3) \div 4 |-> Block(src, 4 * k - 3)])
BY DEF DecodeBase64, Block, Valid, Char

ByteOf(content, i) == IF i <= Len(content) THEN content[i] ELSE 0
CharOf(content, b, j) ==
  IF j = 0 THEN ByteOf(content, b + 1) \div 4
  ELSE IF j = 1 THEN (ByteOf(content, b + 1) % 4) * 16 + (ByteOf(content, b + 2) \div 16)
  ELSE IF j = 2 THEN IF b + 2 > Len(content) THEN Padding
                     ELSE (ByteOf(content, b + 2) % 16) * 4 + (ByteOf(content, b + 3) \div 64)
  ELSE IF b + 3 > Len(content) THEN Padding ELSE ByteOf(content, b + 3) % 64

(* Base64 has four characters for three bytes, the last of which may be     *)
(* missing.                                                                 *)
LEMMA EncodedIs ==
  ASSUME NEW content \in Seq(0..255)
  PROVE  LET m == (Len(content) + 2) \div 3
             src == Base64(content) IN
         /\ Len(src) = 4 * m
         /\ \A i \in 1 .. 4 * m : src[i] = CharOf(content, 3 * ((i - 1) \div 4), (i - 1) % 4)
<1> DEFINE m == (Len(content) + 2) \div 3
           src == Base64(content)
<1>1. Len(content) \in Nat /\ m \in Nat
  <2>1. Len(content) \in Nat
    OBVIOUS
  <2> QED BY <2>1, BlocksAre
<1>2. src = [i \in 1 .. 4 * m |-> CharOf(content, 3 * ((i - 1) \div 4), (i - 1) % 4)]
  BY DEF Base64, CharOf, ByteOf
<1> HIDE DEF src, m
<1>3. 4 * m \in Nat
  BY <1>1
<1>4. Len(src) = 4 * m
  BY <1>2, <1>3
<1> QED BY <1>2, <1>4 DEF src, m

(* Four characters are decoded to the three bytes, or the one or two at the *)
(* end, they were made from.                                                *)
LEMMA BlockIs ==
  ASSUME NEW content \in Seq(0..255), NEW k \in 1 .. (Len(content) + 2) \div 3
  PROVE  LET b == Block(Base64(content), 4 * k - 3)
             v == IF 3 * k <= Len(content) THEN 3 ELSE Len(content) - 3 * (k - 1) IN
         /\ b \in Seq(Nat) /\ Len(b) = v /\ v \in 1..3
         /\ \A j \in 1..v : b[j] = content[3 * (k - 1) + j]
<1> DEFINE n == Len(content)
           m == (n + 2) \div 3
           src == Base64(content)
           f == 3 * (k - 1)
           v == IF 3 * k <= n THEN 3 ELSE n - f
           x == ByteOf(content, f + 1)
           y == ByteOf(content, f + 2)
           z == ByteOf(content, f + 3)
<1>1. n \in Nat /\ \A i \in 1..n : content[i] \in 0..255
  BY ElementsOf, ZenonT(40)
<1>2. Len(src) = 4 * m /\ \A i \in 1 .. 4 * m : src[i] = CharOf(content, 3 * ((i - 1) \div 4), (i - 1) % 4)
  BY EncodedIs
<1>3. m \in Nat /\ 3 * m >= n /\ 3 * m < n + 3
  BY <1>1, BlocksAre
<1>4. k \in Nat /\ 1 <= k /\ k <= m
  BY <1>3
<1> HIDE DEF n, m, src
<1>5. /\ f \in Nat /\ f + 1 <= n /\ v \in 1..3 /\ (v = 3 <=> f + 3 <= n) /\ (v >= 2 <=> f + 2 <= n)
      /\ (v = 2 => n = f + 2) /\ (v = 1 => n = f + 1)
  BY <1>1, <1>3, <1>4
<1>6. /\ x \in 0..255 /\ y \in 0..255 /\ z \in 0..255 /\ x = content[f + 1]
      /\ v >= 2 => y = content[f + 2]
      /\ v = 3 => z = content[f + 3]
  <2>1. f + 1 \in 1..n /\ (f + 2 <= n => f + 2 \in 1..n) /\ (f + 3 <= n => f + 3 \in 1..n)
    BY <1>1, <1>5
  <2> QED BY <1>1, <1>5, <2>1 DEF ByteOf, n
<1>7. ASSUME NEW j \in 0..3
      PROVE  4 * k - 3 + j \in 1 .. 4 * m /\ src[4 * k - 3 + j] = CharOf(content, f, j)
  <2>1. 4 * k - 3 + j \in 1 .. 4 * m
    BY <1>3, <1>4
  <2>2. ((4 * k - 3 + j) - 1) \div 4 = k - 1 /\ ((4 * k - 3 + j) - 1) % 4 = j
    BY <1>4, CharPlaces
  <2> QED BY <1>2, <2>1, <2>2
<1> DEFINE c0 == x \div 4
           c1 == (x % 4) * 16 + (y \div 16)
           c2 == (y % 16) * 4 + (z \div 64)
           c3 == z % 64
<1>8. /\ CharOf(content, f, 0) = c0 /\ CharOf(content, f, 1) = c1
      /\ CharOf(content, f, 2) = IF v >= 2 THEN c2 ELSE Padding
      /\ CharOf(content, f, 3) = IF v = 3 THEN c3 ELSE Padding
  BY <1>1, <1>5 DEF CharOf, n
<1> HIDE DEF x, y, z, f, v
<1>9. c0 \in 0..63 /\ c1 \in 0..63 /\ c2 \in 0..63 /\ c3 \in 0..63
  <2>1. c0 \in 0..63 /\ c1 \in 0..63
    BY <1>6, FirstByte, ZenonT(40)
  <2>2. c2 \in 0..63
    <3>1. x \in 0..255 /\ y \in 0..255 /\ z \in 0..255
      BY <1>6
    <3> QED BY <3>1
  <2>3. c3 \in 0..63
    BY <1>6, ThirdByte, ZenonT(40)
  <2> QED BY <2>1, <2>2, <2>3
<1>10. /\ c0 * 4 + (c1 \div 16) = x /\ (c1 % 16) * 16 + (c2 \div 4) = y
       /\ (c2 % 4) * 64 + c3 = z
  <2>1. c0 * 4 + (c1 \div 16) = x
    BY <1>6, FirstByte
  <2>2. (c1 % 16) * 16 + (c2 \div 4) = y
    <3>1. x \in 0..255 /\ y \in 0..255 /\ z \in 0..255
      BY <1>6
    <3>2. c1 % 16 = y \div 16
      <4> DEFINE a == x % 4
                 b == y \div 16
      <4>1. a \in 0..3 /\ b \in 0..15
        BY <3>1
      <4> HIDE DEF a, b
      <4>2. (a * 16 + b) % 16 = b
        BY <4>1, LowBits
      <4> QED BY <4>2 DEF a, b
    <3>3. c2 \div 4 = y % 16
      BY <3>1
    <3>4. (y \div 16) * 16 + (y % 16) = y
      BY <3>1
    <3> HIDE DEF c1, c2
    <3> QED BY <3>2, <3>3, <3>4
  <2>3. (c2 % 4) * 64 + c3 = z
    BY <1>6, ThirdByte, ZenonT(40)
  <2> QED BY <2>1, <2>2, <2>3
<1> DEFINE i0 == 4 * k - 3
<1>11. \A j \in 0..3 : i0 + j <= Len(src) /\ src[i0 + j] = CharOf(content, f, j)
  <2> SUFFICES ASSUME NEW j \in 0..3 PROVE i0 + j <= Len(src) /\ src[i0 + j] = CharOf(content, f, j)
    OBVIOUS
  <2>1. i0 + j \in 1 .. 4 * m /\ src[i0 + j] = CharOf(content, f, j)
    BY <1>7
  <2> QED BY <1>2, <1>3, <2>1
<1> HIDE DEF i0, c0, c1, c2, c3
<1>12. /\ src[i0 + 0] = c0 /\ src[i0 + 1] = c1
       /\ src[i0 + 2] = IF v >= 2 THEN c2 ELSE Padding
       /\ src[i0 + 3] = IF v = 3 THEN c3 ELSE Padding
  BY <1>8, <1>11
<1>13. c0 # Padding /\ c1 # Padding /\ c2 # Padding /\ c3 # Padding
  BY <1>9 DEF Padding
<1>14. /\ Char(src, i0, 0) = c0 /\ Char(src, i0, 1) = c1
       /\ Char(src, i0, 2) = IF v >= 2 THEN c2 ELSE 0
       /\ Char(src, i0, 3) = IF v = 3 THEN c3 ELSE 0
  BY <1>11, <1>12, <1>13 DEF Char
<1>15. Valid(src, i0) = v + 1
  <2>1. {j \in 0..3 : i0 + j <= Len(src) /\ src[i0 + j] # Padding} = 0..v
    <3>1. \A j \in 0..3 : src[i0 + j] # Padding <=> j <= v
      <4>1. /\ 0 <= v /\ 1 <= v /\ v \in Nat
            /\ 2 <= v <=> v >= 2
            /\ 3 <= v <=> v = 3
        BY <1>5
      <4>2. src[i0 + 0] # Padding /\ src[i0 + 1] # Padding
        BY <1>12, <1>13
      <4>3. (src[i0 + 2] # Padding <=> v >= 2) /\ (src[i0 + 3] # Padding <=> v = 3)
        BY <1>12, <1>13
      <4>4. /\ src[i0 + 0] # Padding <=> 0 <= v
            /\ src[i0 + 1] # Padding <=> 1 <= v
            /\ src[i0 + 2] # Padding <=> 2 <= v
            /\ src[i0 + 3] # Padding <=> 3 <= v
        BY <4>1, <4>2, <4>3
      <4>5. 0..3 = {0, 1, 2, 3}
        OBVIOUS
      <4> QED BY <4>4, <4>5, Zenon
    <3>2. \A j \in 0..3 : i0 + j <= Len(src) /\ src[i0 + j] # Padding <=> j <= v
      BY <1>11, <3>1, Zenon
    <3>3. {j \in 0..3 : j <= v} = 0..v
      BY <1>5
    <3> QED BY <3>2, <3>3, Zenon
  <2>2. Cardinality(0..v) = v + 1
    <3>1. 0 \in Int /\ v \in Int /\ ~(0 > v)
      BY <1>5
    <3>2. Cardinality(0..v) = v - 0 + 1
      BY <3>1, FS_Interval
    <3> QED BY <1>5, <3>2
  <2> QED BY <2>1, <2>2 DEF Valid
<1> DEFINE d2 == Char(src, i0, 2)
           d3 == Char(src, i0, 3)
           b == Block(src, i0)
<1>16. b = SubSeq(<<c0 * 4 + (c1 \div 16), (c1 % 16) * 16 + (d2 \div 4), (d2 % 4) * 64 + d3>>, 1, v)
  <2>1. (IF Valid(src, i0) = 0 THEN 0 ELSE Valid(src, i0) - 1) = v
    BY <1>5, <1>15
  <2> QED BY <1>14, <2>1 DEF Block
<1>17. d2 = (IF v >= 2 THEN c2 ELSE 0) /\ d3 = (IF v = 3 THEN c3 ELSE 0)
  BY <1>14
<1> HIDE DEF d2, d3, b
<1>18. d2 \in 0..63 /\ d3 \in 0..63
  BY <1>9, <1>17
<1>19. c0 * 4 + (c1 \div 16) \in Nat /\ (c1 % 16) * 16 + (d2 \div 4) \in Nat /\ (d2 % 4) * 64 + d3 \in Nat
  BY <1>9, <1>18
<1>20. /\ b \in Seq(Nat) /\ Len(b) = v
       /\ v >= 1 => b[1] = c0 * 4 + (c1 \div 16)
       /\ v >= 2 => b[2] = (c1 % 16) * 16 + (d2 \div 4)
       /\ v >= 3 => b[3] = (d2 % 4) * 64 + d3
  <2>1. v \in 0..3
    BY <1>5
  <2> QED BY <1>16, <1>19, <2>1, FirstOfThree
<1>21. /\ b[1] = content[f + 1]
       /\ v >= 2 => b[2] = content[f + 2]
       /\ v = 3 => b[3] = content[f + 3]
  <2>1. v >= 1 /\ (v = 3 => v >= 2 /\ v >= 3)
    BY <1>5
  <2> QED BY <1>6, <1>10, <1>17, <1>20, <2>1
<1>22. \A j \in 1..v : b[j] = content[f + j]
  <2>1. \A j \in 1..v : j = 1 \/ (j = 2 /\ v >= 2) \/ (j = 3 /\ v = 3)
    BY <1>5
  <2> QED BY <1>21, <2>1
<1> QED BY <1>5, <1>20, <1>22 DEF b, i0, v, f, n, src

IsConcat(r, s, t) ==
  /\ Len(r) = Len(s) + Len(t)
  /\ \A i \in 1..Len(s) : r[i] = s[i]
  /\ \A i \in 1..Len(t) : r[Len(s) + i] = t[i]

LEMMA ConcatHas ==
  ASSUME NEW X, NEW s \in Seq(X), NEW t \in Seq(X)
  PROVE  IsConcat(s \o t, s, t)
<1>1. Len(s) \in Nat /\ Len(t) \in Nat
  OBVIOUS
<1> QED BY <1>1, ConcatProperties DEF IsConcat

LEMMA SeqOfLength ==
  ASSUME NEW Y, NEW m \in Nat, NEW s, s = [k \in 1..m |-> s[k]], \A k \in 1..m : s[k] \in Y
  PROVE  s \in Seq(Y) /\ Len(s) = m
OBVIOUS

LEMMA SeqWithin ==
  ASSUME NEW X, NEW Y, X \subseteq Y, NEW s \in Seq(X)
  PROVE  s \in Seq(Y)
<1>1. Len(s) \in Nat /\ s = [k \in 1..Len(s) |-> s[k]] /\ \A k \in 1..Len(s) : s[k] \in X
  OBVIOUS
<1>2. \A k \in 1..Len(s) : s[k] \in Y
  BY <1>1
<1> QED BY <1>1, <1>2, SeqOfLength

(* What is decoded is what was encoded, whatever the length of the content  *)
(* and wherever white space was put into it (DecodeBase64, parser.go:537).  *)
THEOREM Base64RoundTrip ==
  ASSUME NEW content \in Seq(0..255), NEW data, WithoutSpace(data) = Base64(content)
  PROVE  DecodeBase64(data) = content
<1> DEFINE n == Len(content)
           m == (n + 2) \div 3
           src == Base64(content)
           ss == [k \in 1..m |-> Block(src, 4 * k - 3)]
<1>1. n \in Nat /\ DOMAIN content = 1..n
  BY ElementsOf
<1>2. m \in Nat /\ (4 * m + 3) \div 4 = m /\ 3 * m >= n
  BY <1>1, BlocksAre
<1>3. Len(src) = 4 * m
  BY EncodedIs
<1>4. DecodeBase64(data) = FlattenSeq(ss)
  <2>1. DecodeBase64(data) = FlattenSeq([k \in 1 .. (Len(src) + 3) \div 4 |-> Block(src, 4 * k - 3)])
    <3> HIDE DEF m
    <3> QED BY DecodeIs
  <2> HIDE DEF src, m
  <2> QED BY <1>2, <1>3, <2>1
<1> DEFINE Size(k) == IF 3 * k <= n THEN 3 ELSE n - 3 * (k - 1)
<1>5. ASSUME NEW k \in 1..m
      PROVE  /\ ss[k] \in Seq(Nat) /\ Len(ss[k]) = Size(k) /\ Size(k) \in 1..3
             /\ \A j \in 1..Size(k) : ss[k][j] = content[3 * (k - 1) + j]
  <2>1. LET b == Block(src, 4 * k - 3) IN
        /\ b \in Seq(Nat) /\ Len(b) = Size(k) /\ Size(k) \in 1..3
        /\ \A j \in 1..Size(k) : b[j] = content[3 * (k - 1) + j]
    BY BlockIs
  <2>2. ss[k] = Block(src, 4 * k - 3)
    <3> HIDE DEF src, m
    <3> QED OBVIOUS
  <2> HIDE DEF ss, src, m, Size, n
  <2> QED BY <2>1, <2>2
<1>6. ss \in Seq(Seq(Nat)) /\ Len(ss) = m
  <2>1. ss = [k \in 1..m |-> ss[k]]
    <3> HIDE DEF src, m
    <3> QED OBVIOUS
  <2>2. \A k \in 1..m : ss[k] \in Seq(Nat)
    <3> HIDE DEF ss, m, Size
    <3> QED BY <1>5
  <2> HIDE DEF ss, src, m, Size
  <2> QED BY <1>2, <2>1, <2>2, SeqOfLength
<1> HIDE DEF ss, src, m, n
<1>7. PICK b : IsFlat(b, ss, Nat) /\ FlattenSeq(ss) = b[m]
  BY <1>6, FlattenIs DEF FlattensTo
<1>8. /\ b \in [0..m -> Seq(Nat)] /\ b[0] = << >>
      /\ \A k \in 1..m : b[k] = b[k - 1] \o ss[k]
  BY <1>6, <1>7 DEF IsFlat
<1> DEFINE Upto(k) == IF 3 * k <= n THEN 3 * k ELSE n
           S == {k \in Nat : k <= m => /\ Len(b[k]) = Upto(k)
                                       /\ \A i \in 1..Upto(k) : b[k][i] = content[i]}
<1>9. 0 \in S
  BY <1>1, <1>8
<1>10. ASSUME NEW k \in Nat, k \in S PROVE k + 1 \in S
  <2> SUFFICES ASSUME k + 1 <= m
               PROVE  /\ Len(b[k + 1]) = Upto(k + 1)
                      /\ \A i \in 1..Upto(k + 1) : b[k + 1][i] = content[i]
    OBVIOUS
  <2>1. k + 1 \in 1..m /\ (k + 1) - 1 = k /\ k <= m /\ k \in 0..m
    BY <1>2
  <2>2. Len(b[k]) = Upto(k) /\ \A i \in 1..Upto(k) : b[k][i] = content[i]
    BY <1>10, <2>1
  <2>3. b[k] \in Seq(Nat) /\ b[k + 1] = b[k] \o ss[k + 1]
    BY <1>8, <2>1
  <2>4. /\ ss[k + 1] \in Seq(Nat) /\ Len(ss[k + 1]) = Size(k + 1) /\ Size(k + 1) \in 1..3
        /\ \A j \in 1..Size(k + 1) : ss[k + 1][j] = content[3 * ((k + 1) - 1) + j]
    BY <1>5, <2>1
  <2>5. Upto(k) = 3 * k /\ Upto(k) \in Nat /\ Upto(k + 1) = 3 * k + Size(k + 1)
    BY <1>1, <2>1, <2>4
  <2> DEFINE z == Size(k + 1)
             f == 3 * k
  <2> HIDE DEF Upto, Size, S
  <2>6. /\ f \in Nat /\ z \in 1..3 /\ Len(b[k]) = f /\ Len(ss[k + 1]) = z
        /\ Upto(k) = f /\ Upto(k + 1) = f + z /\ 3 * ((k + 1) - 1) = f
    BY <2>2, <2>4, <2>5
  <2> HIDE DEF z, f
  <2>7. IsConcat(b[k + 1], b[k], ss[k + 1])
    <3>1. b[k] \in Seq(Nat) /\ ss[k + 1] \in Seq(Nat)
      BY <2>3, <2>4
    <3>2. IsConcat(b[k] \o ss[k + 1], b[k], ss[k + 1])
      BY <3>1, ConcatHas, ZenonT(40)
    <3> QED BY <2>3, <3>2
  <2>8. /\ Len(b[k + 1]) = f + z
        /\ \A i \in 1..f : b[k + 1][i] = b[k][i]
        /\ \A j \in 1..z : b[k + 1][f + j] = ss[k + 1][j]
    BY <2>6, <2>7 DEF IsConcat
  <2>9. /\ \A i \in 1..f : b[k][i] = content[i]
        /\ \A j \in 1..z : ss[k + 1][j] = content[f + j]
    BY <2>2, <2>4, <2>6 DEF z
  <2>10. ASSUME NEW i \in 1 .. f + z PROVE b[k + 1][i] = content[i]
    <3>1. i \in 1..f \/ (i - f \in 1..z /\ i = f + (i - f))
      BY <2>6
    <3> QED BY <2>8, <2>9, <3>1
  <2> QED BY <2>6, <2>8, <2>10
<1>11. m \in S
  <2> HIDE DEF S
  <2> QED BY <1>2, <1>9, <1>10, EveryNumber
<1>12. /\ b[m] \in Seq(Nat) /\ Len(b[m]) = n
       /\ \A i \in 1..n : b[m][i] = content[i]
  <2>1. Upto(m) = n
    BY <1>1, <1>2
  <2>2. b[m] \in Seq(Nat)
    BY <1>2, <1>8
  <2> QED BY <1>2, <1>11, <2>1, <2>2
<1>13. b[m] = content
  <2>1. Len(b[m]) = Len(content)
    BY <1>12 DEF n
  <2>2. \A i \in 1..Len(b[m]) : b[m][i] = content[i]
    BY <1>12
  <2>3. content \in Seq(Nat)
    <3>1. 0..255 \subseteq Nat
      OBVIOUS
    <3> QED BY <3>1, SeqWithin, ZenonT(40)
  <2>4. b[m] \in Seq(Nat)
    BY <1>12
  <2> QED BY <2>1, <2>2, <2>3, <2>4, SeqEqual
<1> QED BY <1>4, <1>7, <1>13
-------------------------------------------------------------------------------
(* What the attachments of a message are, by what its sender encoded.       *)
Sound(p) == \A l \in Leaves[p] : IsEncoded(l.part) /\ (l.part.magic => l.part.content # << >>)

LEMMA SoundIs ==
  ASSUME NEW p \in Part, Sound(p), NEW l \in Leaves[p]
  PROVE  l.part \in Leaf /\ IsEncoded(l.part) /\ (l.part.magic => l.part.content # << >>)
BY LeavesAre DEF Sound, Places

(* An attachment has the content its sender encoded.                        *)
LEMMA DecodedIs ==
  ASSUME NEW p \in Leaf, IsEncoded(p)
  PROVE  Attachment(p).data = p.content /\ p.content \in Seq(0..255)
<1>1. p.content \in Seq(0..255) /\ Attachment(p).data = DecodeContent(p)
  BY AttachmentKeeps DEF Leaf
<1>2. CASE p.encoding = "base64"
  <2>1. WithoutSpace(p.data) = Base64(p.content)
    BY <1>2 DEF IsEncoded
  <2>2. DecodeBase64(p.data) = p.content
    BY <1>1, <2>1, Base64RoundTrip
  <2> QED BY <1>1, <1>2, <2>2 DEF DecodeContent
<1>3. CASE p.encoding # "base64"
  BY <1>1, <1>3 DEF DecodeContent, IsEncoded
<1> QED BY <1>2, <1>3

BlockedFile(p) ==
  \/ p.extension = "dangerous"
  \/ p.extension = "known" /\ ~p.declared
  \/ p.extension \in {"none", "other", "known"} /\ p.magic
  \/ Len(p.content) > MaxAttachmentSize

(* The validations pass what is not blocked.                                *)
LEMMA ValidIs ==
  ASSUME NEW p \in Leaf, IsEncoded(p), p.magic => p.content # << >>
  PROVE  /\ ValidateAttachment(Attachment(p)) <=> ~BlockedFile(p)
         /\ BlockedFile(Attachment(p)) <=> BlockedFile(p)
<1> DEFINE a == Attachment(p)
<1>1. /\ a.extension = p.extension /\ a.declared = p.declared /\ a.magic = p.magic
      /\ a.content = p.content /\ a.data = p.content
  BY AttachmentKeeps, DecodedIs
<1>2. /\ p.extension \in {"none", "other", "known", "executable", "dangerous"}
      /\ p.declared \in BOOLEAN /\ p.magic \in BOOLEAN /\ p.content \in Seq(0..255)
  BY DEF Leaf
<1> HIDE DEF a
<1>3. Len(p.content) \in Nat /\ MaxAttachmentSize \in Nat
  BY <1>2, MimeAssumption DEF MimeAssumption
<1>4. Len(a.data) <= MaxAttachmentSize <=> ~(Len(p.content) > MaxAttachmentSize)
  BY <1>1, <1>3
<1>5. IsDangerousExtension(a) <=> p.extension = "dangerous"
  BY <1>1 DEF IsDangerousExtension
<1>6. ~ValidateContentType(a) <=> p.extension = "known" /\ ~p.declared
  BY <1>1, <1>2 DEF ValidateContentType
<1>7. IsDisguisedExecutable(a) <=> p.extension \in {"none", "other", "known"} /\ p.magic
  <2>1. DetectExecutableMagicBytes(a) <=> p.magic
    BY <1>1, <1>2 DEF DetectExecutableMagicBytes
  <2> QED BY <1>1, <1>2, <2>1 DEF IsDisguisedExecutable
<1>8. ValidateAttachment(a) <=> ~BlockedFile(p)
  BY <1>4, <1>5, <1>6, <1>7 DEF ValidateAttachment, BlockedFile
<1>9. BlockedFile(a) <=> BlockedFile(p)
  BY <1>1 DEF BlockedFile
<1> QED BY <1>8, <1>9 DEF a

(* The sum of the sizes of the attachments is that of the files' contents.  *)
LEMMA SizesAgree ==
  ASSUME NEW p \in Part, Apart(p), Sound(p)
  PROVE  /\ TotalSize(ExtractFromPart[p]) = MapThenSumSet(LAMBDA l : Len(l.part.content), FileLeaves(p))
         /\ TotalSize(ExtractFromPart[p]) \in Nat
<1> DEFINE s == ExtractFromPart[p]
           n == Len(s)
           D == FileLeaves(p)
           OfName(l, i) == l \in D /\ Attachment(l.part) = s[i]
           h == [i \in 1..n |-> CHOOSE l : OfName(l, i)]
<1>1. s \in Seq(Files) /\ ToSet(s) = {Attachment(l.part) : l \in D} /\ IsInjective(s)
  BY ExtractedAre, ExtractedFiles
<1>2. n \in Nat /\ DOMAIN s = 1..n /\ ToSet(s) = {s[i] : i \in 1..n}
  BY <1>1, ElementsOf DEF ToSet
<1>3. \A l \in D : l \in Leaves[p]
  BY DEF FileLeaves
<1> HIDE DEF s, n, D
<1>4. ASSUME NEW i \in 1..n PROVE OfName(h[i], i)
  <2>1. s[i] \in {Attachment(l.part) : l \in D}
    BY <1>1, <1>2
  <2>2. \E l : OfName(l, i)
    BY <2>1
  <2> HIDE DEF OfName
  <2> QED BY <2>2
<1>5. ASSUME NEW l \in D
      PROVE  /\ l.part \in Leaf /\ Attachment(l.part).data = l.part.content
             /\ Attachment(l.part).name = l.part.name /\ Len(l.part.content) \in Nat
  <2>1. l.part \in Leaf /\ IsEncoded(l.part)
    BY <1>3, SoundIs
  <2>2. Attachment(l.part).data = l.part.content /\ l.part.content \in Seq(0..255)
    BY <2>1, DecodedIs
  <2> QED BY <2>1, <2>2, AttachmentKeeps, ElementsOf
<1>6. \A l, k \in D : l.part.name = k.part.name => l = k
  BY <1>3 DEF Apart
<1>7. h \in [1..n -> D]
  <2>1. h = [i \in 1..n |-> h[i]]
    OBVIOUS
  <2>2. \A i \in 1..n : h[i] \in D
    BY <1>4
  <2> HIDE DEF h
  <2> QED BY <2>1, <2>2
<1>8. \A i \in 1..n : Attachment(h[i].part) = s[i]
  BY <1>4
<1> HIDE DEF h, OfName
<1>9. IsInjective(h)
  BY <1>1, <1>2, <1>7, <1>8 DEF IsInjective
<1>10. {h[i] : i \in 1..n} = D
  <2>1. ASSUME NEW l \in D PROVE \E i \in 1..n : h[i] = l
    <3>1. Attachment(l.part) \in {s[i] : i \in 1..n}
      BY <1>1, <1>2
    <3>2. PICK i \in 1..n : Attachment(l.part) = s[i]
      BY <3>1
    <3>3. h[i] \in D /\ Attachment(h[i].part) = Attachment(l.part)
      BY <1>7, <1>8, <3>2
    <3>4. h[i].part.name = l.part.name
      BY <1>5, <3>3
    <3> QED BY <1>6, <3>3, <3>4
  <2> QED BY <1>7, <2>1
<1>11. IsFiniteSet(1..n) /\ IsFiniteSet(D)
  <2>1. IsFiniteSet(1..n)
    BY <1>2, FS_Interval
  <2>2. h \in Surjection(1..n, D)
    BY <1>7, <1>10 DEF Surjection
  <2> QED BY <2>1, <2>2, FS_Surjection
<1> DEFINE w == DataSizes(s)
           v == ContentSizes(D)
<1>12. \A i \in 1..n : w[i] = Len(h[i].part.content)
  <2>1. \A i \in 1..n : w[i] = Len(s[i].data)
    BY DEF DataSizes, n
  <2> HIDE DEF w
  <2>2. ASSUME NEW i \in 1..n PROVE s[i].data = h[i].part.content
    BY <1>5, <1>7, <1>8
  <2> QED BY <2>1, <2>2
<1>13. w = [i \in 1..n |-> w[i]] /\ v = [l \in D |-> v[l]] /\ \A l \in D : v[l] = Len(l.part.content)
  BY DEF DataSizes, ContentSizes, n
<1> HIDE DEF w, v
<1>14. w \in [1..n -> Nat] /\ v \in [D -> Nat]
  <2>1. \A i \in 1..n : w[i] \in Nat
    BY <1>5, <1>7, <1>12
  <2>2. \A l \in D : v[l] \in Nat
    BY <1>5, <1>13
  <2> QED BY <1>13, <2>1, <2>2
<1>15. \A i \in 1..n : v[h[i]] = w[i]
  BY <1>7, <1>12, <1>13
<1>16. PICK f : IsSum(f, 1..n, w) /\ TotalSize(s) = f[1..n]
  BY <1>1, <1>14, TotalSizeIs DEF w, n
<1>17. PICK g : IsSum(g, D, v) /\ MapThenSumSet(LAMBDA l : Len(l.part.content), D) = g[D]
  BY <1>11, <1>14, ContentSizeIs DEF v
<1>18. KeepsWeights(h, 1..n, w, v)
  BY <1>15 DEF KeepsWeights
<1>19. f[1..n] = g[Images(h, 1..n)]
  <2> DEFINE I == 1..n
  <2>1. /\ IsFiniteSet(I) /\ w \in [I -> Nat] /\ IsSum(f, I, w)
        /\ IsFiniteSet(D) /\ v \in [D -> Nat] /\ IsSum(g, D, v)
        /\ h \in [I -> D] /\ IsInjective(h) /\ KeepsWeights(h, I, w, v)
    BY <1>7, <1>9, <1>11, <1>14, <1>16, <1>17, <1>18
  <2> HIDE DEF I
  <2>2. f[I] = g[Images(h, I)]
    BY <2>1, SumMoves
  <2> QED BY <2>2 DEF I
<1>20. f[1..n] \in Nat
  BY <1>16 DEF IsSum
<1> QED BY <1>10, <1>16, <1>17, <1>19, <1>20 DEF s, D, Images

(* What IsAccountedFor says of the files, and of the bodies.                *)
MessageFiles(p) == {l \in Leaves[p] : l.under # << >> /\ IsAttachment(l.part)}
TotalContent(files) == MapThenSumSet(LAMBDA l : Len(l.part.content), files)
TooMuch(files) == TotalContent(files) > MaxTotalAttachmentSize
FilesAccounted(s, files) ==
  /\ IsInjective(s)
  /\ \A k \in ToSet(s) : k.data = k.content /\ ~BlockedFile(k)
  /\ \A l \in files :
       (\E k \in ToSet(s) : k.name = l.part.name) <=> ~BlockedFile(l.part) /\ ~TooMuch(files)
  /\ {k.name : k \in ToSet(s)} \subseteq {l.part.name : l \in files}
BodiesAreAccounted(p, b) ==
  /\ \A l \in Leaves[p] \ MessageFiles(p) : BodyAccounted(l, b)
  /\ b.html \in {NoBody} \cup {l.part.name : l \in {k \in Leaves[p] : k.part.kind = "html"}}
  /\ b.text \in {NoBody} \cup
       {l.part.name : l \in {k \in Leaves[p] : k.part.kind = "plain" \/ k.under = << >>}}

(* The two together are what IsAccountedFor asks for.                       *)
LEMMA AccountedFor ==
  ASSUME NEW m, NEW b, NEW s, FilesAccounted(s, MessageFiles(m.root)), BodiesAreAccounted(m.root, b)
  PROVE  IsAccountedFor(m, [bodies |-> b, attachments |-> s])
<1> DEFINE stored == [bodies |-> b, attachments |-> s]
<1>1. stored.bodies = b /\ stored.attachments = s
  OBVIOUS
<1>2. ASSUME NEW l PROVE Superseded(l.part, [bodies |-> b]) <=> Superseded(l.part, stored)
  BY DEF Superseded
<1> HIDE DEF stored
<1>3. \A l \in Leaves[m.root] \ MessageFiles(m.root) :
           \/ l.part.name \in {stored.bodies.html, stored.bodies.text}
           \/ Hidden(l.under) \/ Superseded(l.part, stored)
           \/ l.part.kind = "other" /\ l.under # << >>
  BY <1>1, <1>2 DEF BodiesAreAccounted, BodyAccounted
<1>4. /\ stored.bodies.html \in {NoBody} \cup {l.part.name : l \in {k \in Leaves[m.root] : k.part.kind = "html"}}
      /\ stored.bodies.text \in {NoBody} \cup
           {l.part.name : l \in {k \in Leaves[m.root] : k.part.kind = "plain" \/ k.under = << >>}}
  BY <1>1 DEF BodiesAreAccounted
<1>5. FilesAccounted(stored.attachments, MessageFiles(m.root))
  BY <1>1
<1>6. IsAccountedFor(m, stored)
  BY <1>3, <1>4, <1>5 DEF IsAccountedFor, FilesAccounted, BlockedFile, TooMuch, TotalContent, MessageFiles
<1> QED BY <1>6 DEF stored

(* Nothing is made of no attachments.                                       *)
LEMMA NoneKept ==
  /\ ProcessAttachments(<< >>) = << >>
  /\ IsInjective(<< >>) /\ ToSet(<< >>) = {}
<1>1. << >> \in Seq(Files) /\ ToSet(<< >>) = {} /\ IsInjective(<< >>)
  BY EmptyHasNothing
<1>2. Kept(<< >>) \in Seq(Files) /\ ToSet(Kept(<< >>)) = {}
  BY <1>1, KeptAre
<1>3. Kept(<< >>) = << >>
  <2>1. Kept(<< >>) # << >> => 1 \in DOMAIN Kept(<< >>)
    BY <1>2
  <2> QED BY <1>2, <2>1 DEF ToSet
<1>4. ProcessAttachments(<< >>) = IF ValidateTotalSize(<< >>) THEN Kept(<< >>) ELSE << >>
  BY DEF ProcessAttachments, Kept
<1> QED BY <1>1, <1>3, <1>4

(* The attachments of a multipart are accounted for: found, validated,      *)
(* within the total size, with their contents.                              *)
LEMMA FilesAreAccounted ==
  ASSUME NEW p \in Part, Apart(p), Sound(p), IsMultipart(p)
  PROVE  FilesAccounted(ProcessAttachments(ExtractFromMultipart(p.parts)), MessageFiles(p))
<1> DEFINE s == ExtractFromPart[p]
           D == FileLeaves(p)
           a == ProcessAttachments(s)
<1>1. ExtractFromMultipart(p.parts) = s
  BY ExtractedAre DEF ExtractFromMultipart, FilesOf
<1>2. MessageFiles(p) = D
  BY LeafInNothing DEF MessageFiles, FileLeaves
<1>3. s \in Seq(Files) /\ ToSet(s) = {Attachment(l.part) : l \in D} /\ IsInjective(s)
  BY ExtractedAre, ExtractedFiles
<1>4. a = IF ValidateTotalSize(s) THEN Kept(s) ELSE << >>
  BY DEF ProcessAttachments, Kept
<1>5. ValidateTotalSize(s) <=> ~TooMuch(D)
  <2>1. TotalSize(s) = TotalContent(D) /\ TotalSize(s) \in Nat
    BY SizesAgree DEF TotalContent
  <2>2. MaxTotalAttachmentSize \in Nat
    BY MimeAssumption DEF MimeAssumption
  <2> QED BY <2>1, <2>2 DEF ValidateTotalSize, TooMuch
<1>6. ASSUME NEW l \in D
      PROVE  /\ Attachment(l.part).name = l.part.name
             /\ Attachment(l.part).data = Attachment(l.part).content
             /\ ValidateAttachment(Attachment(l.part)) <=> ~BlockedFile(l.part)
             /\ BlockedFile(Attachment(l.part)) <=> BlockedFile(l.part)
  <2>1. l.part \in Leaf /\ IsEncoded(l.part) /\ (l.part.magic => l.part.content # << >>)
    BY SoundIs DEF FileLeaves
  <2>2. Attachment(l.part).data = l.part.content
    BY <2>1, DecodedIs
  <2> QED BY <2>1, <2>2, ValidIs, AttachmentKeeps
<1>7. \A l, k \in D : l.part.name = k.part.name => l = k
  BY DEF FileLeaves, Apart
<1>8. /\ Kept(s) \in Seq(Files) /\ IsInjective(Kept(s))
      /\ ToSet(Kept(s)) = {x \in ToSet(s) : ValidateAttachment(x)}
  BY <1>3, KeptAre
<1> HIDE DEF s, D, a
<1>9. IsInjective(a) /\ ToSet(a) = IF TooMuch(D) THEN {} ELSE {x \in ToSet(s) : ValidateAttachment(x)}
  BY <1>4, <1>5, <1>8, NoneKept
<1>10. ASSUME NEW x \in ToSet(a)
       PROVE  \E l \in D : x = Attachment(l.part) /\ ~BlockedFile(l.part)
  BY <1>3, <1>6, <1>9
<1>11. \A k \in ToSet(a) : k.data = k.content /\ ~BlockedFile(k)
  BY <1>6, <1>10
<1>12. \A k \in ToSet(a) : \E l \in D : k.name = l.part.name /\ ~BlockedFile(l.part)
  BY <1>6, <1>10
<1>13. ASSUME NEW l \in D
       PROVE  (\E k \in ToSet(a) : k.name = l.part.name) <=> ~BlockedFile(l.part) /\ ~TooMuch(D)
  <2>1. ASSUME ~BlockedFile(l.part), ~TooMuch(D) PROVE \E k \in ToSet(a) : k.name = l.part.name
    <3>1. Attachment(l.part) \in ToSet(s)
      BY <1>3
    <3>2. Attachment(l.part) \in ToSet(a)
      BY <1>6, <1>9, <2>1, <3>1
    <3> QED BY <1>6, <3>2
  <2>2. ASSUME NEW k \in ToSet(a), k.name = l.part.name PROVE ~BlockedFile(l.part) /\ ~TooMuch(D)
    <3>1. PICK e \in D : k.name = e.part.name /\ ~BlockedFile(e.part)
      BY <1>12
    <3>2. e = l
      BY <1>7, <2>2, <3>1
    <3>3. ~TooMuch(D)
      BY <1>9
    <3> QED BY <3>1, <3>2, <3>3
  <2> QED BY <2>1, <2>2
<1>14. FilesAccounted(a, D)
  BY <1>9, <1>11, <1>12, <1>13 DEF FilesAccounted
<1> QED BY <1>1, <1>2, <1>14 DEF a

(* A message that is no multipart has no files, and no attachments.         *)
LEMMA NoFilesAreAccounted ==
  ASSUME NEW p \in Part, ~IsMultipart(p)
  PROVE  FilesAccounted(<< >>, MessageFiles(p))
<1>1. MessageFiles(p) = {}
  BY LeafInNothing DEF MessageFiles
<1> QED BY <1>1, NoneKept DEF FilesAccounted

(* The bodies of any part are accounted for.                                *)
LEMMA BodiesAreAccountedFor ==
  ASSUME NEW p \in Part
  PROVE  BodiesAreAccounted(p, ExtractBody(p))
<1> DEFINE b == ExtractBody(p)
<1>1. /\ \A l \in Leaves[p] : l.under = << >> \/ ~IsAttachment(l.part) => BodyAccounted(l, b)
      /\ b.html \in {NoBody} \cup {l.part.name : l \in {k \in Leaves[p] : k.part.kind = "html"}}
      /\ b.text \in {NoBody} \cup
           {l.part.name : l \in {k \in Leaves[p] : k.part.kind = "plain" \/ k.under = << >>}}
  BY BodiesAccounted
<1> HIDE DEF b
<1>2. \A l \in Leaves[p] \ MessageFiles(p) : BodyAccounted(l, b)
  BY <1>1 DEF MessageFiles
<1>3. BodiesAreAccounted(p, b)
  BY <1>1, <1>2 DEF BodiesAreAccounted
<1> QED BY <1>3 DEF b

LEMMA MessageIs ==
  ASSUME NEW m \in Message
  PROVE  /\ m.header \in {"good", "injected", "bad"} /\ m.complete \in BOOLEAN
         /\ m.root \in Part /\ Apart(m.root) /\ Sound(m.root)
BY DEF Message, Apart, Sound

(* What is stored of a message accounts for every part of it: SafeParse and *)
(* ExtractAttachments with the validations (processor.go:121), whatever the *)
(* parts, their number, order and nesting.                                  *)
THEOREM EveryMessageIsStored ==
  ASSUME NEW m \in Message
  PROVE  IsStored(m, ProcessEmail(m))
<1> DEFINE whole == m.complete \/ ~IsMultipart(m.root)
           a == ExtractAttachments(m)
           s == ProcessAttachments(a)
           b == SafeParse(m)
<1>1. /\ m.header \in {"good", "injected", "bad"} /\ m.complete \in BOOLEAN
      /\ m.root \in Part /\ Apart(m.root) /\ Sound(m.root)
  BY MessageIs
<1>2. ProcessEmail(m) = [bodies |-> b, attachments |-> s]
  BY DEF ProcessEmail
<1>3. ASSUME m.header = "good", whole PROVE IsAccountedFor(m, [bodies |-> b, attachments |-> s])
  <2>1. b = ExtractBody(m.root)
    BY <1>3 DEF SafeParse, Parse, ExtractHeaders, ContainsCRLFInjection
  <2>2. BodiesAreAccounted(m.root, b)
    BY <1>1, <2>1, BodiesAreAccountedFor
  <2>3. CASE IsMultipart(m.root)
    <3>1. a = ExtractFromMultipart(m.root.parts)
      BY <1>3, <2>3 DEF ExtractAttachments
    <3>2. FilesAccounted(s, MessageFiles(m.root))
      BY <1>1, <2>3, <3>1, FilesAreAccounted
    <3> HIDE DEF s, b
    <3> QED BY <2>2, <3>2, AccountedFor
  <2>4. CASE ~IsMultipart(m.root)
    <3>1. s = << >>
      BY <2>4, NoneKept DEF ExtractAttachments
    <3>2. FilesAccounted(s, MessageFiles(m.root))
      BY <1>1, <2>4, <3>1, NoFilesAreAccounted
    <3> HIDE DEF s, b
    <3> QED BY <2>2, <3>2, AccountedFor
  <2> QED BY <2>3, <2>4
<1>4. ASSUME m.header = "bad" \/ ~whole PROVE b = Nothing /\ s = << >>
  <2>1. a = << >>
    BY <1>1, <1>4 DEF ExtractAttachments
  <2>2. b = Nothing
    BY <1>1, <1>4 DEF SafeParse, Parse, ExtractHeaders
  <2> QED BY <2>1, <2>2, NoneKept
<1>5. ASSUME m.header = "injected" PROVE b = Nothing
  BY <1>5 DEF SafeParse, ExtractHeaders, ContainsCRLFInjection
<1>6. [bodies |-> b, attachments |-> s].bodies = b
  OBVIOUS
<1> HIDE DEF a, s, b
<1> QED BY <1>2, <1>3, <1>4, <1>5, <1>6 DEF IsStored
-------------------------------------------------------------------------------
(* Only the callback makes a result, and the reply takes it away.           *)
ResultIsOfALetter == result = << >> \/ \E m \in Letter : result = <<m, ProcessEmail(m)>>

(* Every step keeps this.                                                   *)
LEMMA ResultStep == ResultIsOfALetter /\ [SessionNext]_sessionVars => ResultIsOfALetter'
<1> SUFFICES ASSUME ResultIsOfALetter, [SessionNext]_sessionVars PROVE ResultIsOfALetter'
  OBVIOUS
<1>1. CASE Process
  BY <1>1 DEF Process, ResultIsOfALetter
<1>2. CASE Reply
  BY <1>2 DEF Reply, ResultIsOfALetter
<1>3. CASE UNCHANGED result
  BY <1>3 DEF ResultIsOfALetter
<1>4. SessionNext => Process \/ Reply \/ UNCHANGED result
  BY DEF SessionNext, EHLO, StartTLS, Data, Rset, Other, Mail, Rcpt, ChangeAlias, TextLine,
         DataTimeout, Dot, Close
<1>5. UNCHANGED sessionVars => UNCHANGED result
  BY DEF sessionVars
<1> QED BY <1>1, <1>2, <1>3, <1>4, <1>5

(* Every part of every message that a session processes is stored as a body *)
(* or as an attachment, with the exceptions Mime names, whatever the parts, *)
(* their number, order and nesting: the parser (parser.go:229-443) and the  *)
(* attachment handler (handler.go:77-177) pass none over between them, and  *)
(* the attachments have the contents the sender encoded.                    *)
THEOREM SmtpEveryPartIsAccountedFor == SessionSpec => []EveryPartIsAccountedFor
<1>1. SessionInit => ResultIsOfALetter
  BY DEF SessionInit, ResultIsOfALetter
<1>2. ResultIsOfALetter /\ [SessionNext]_sessionVars => ResultIsOfALetter'
  BY ResultStep
<1>3. ResultIsOfALetter => EveryPartIsAccountedFor
  <2> SUFFICES ASSUME NEW m \in Letter, result = <<m, ProcessEmail(m)>>
               PROVE  IsStored(result[1], result[2])
    BY DEF ResultIsOfALetter, EveryPartIsAccountedFor
  <2>1. m \in Message
    BY SmtpSessionAssumption DEF SmtpSessionAssumption
  <2>2. IsStored(m, ProcessEmail(m))
    BY <2>1, EveryMessageIsStored
  <2> QED BY <2>2
<1> QED BY <1>1, <1>2, <1>3, PTL DEF SessionSpec
===============================================================================
