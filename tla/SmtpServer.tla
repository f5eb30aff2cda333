------------------------------- MODULE SmtpServer ------------------------------
(* Admission of SMTP connections and shutdown: internal/smtp/server.go.     *)
(*                                                                          *)
(* The accept loop starts one goroutine per connection.  The goroutine      *)
(* passes the rate limit of its address, takes a slot of the whole server   *)
(* (a compare-and-swap loop on activeConns) and one of its address (a       *)
(* counter under ipConnMu), runs the session and gives the slots back in    *)
(* reverse order.  Stop runs concurrently with all that and waits for the   *)
(* goroutines through a WaitGroup.  A step is one atomic operation or one   *)
(* critical section.                                                        *)
EXTENDS Naturals, FiniteSets

CONSTANTS
  Conn,                 \* the connections that clients open
  IP,                   \* the addresses they come from
  MaxConnections,       \* slots of the server (100)
  MaxConnectionsPerIP,  \* slots of an address (5)
  RateLimitPerMinute,   \* connections per address and window (20)
  Minute,               \* the length of a window, in ticks
  MaxTime               \* bound on the clock

ASSUME SmtpServerAssumption ==
  /\ IsFiniteSet(Conn)
  /\ MaxConnections \in Nat /\ MaxConnectionsPerIP \in Nat
  /\ RateLimitPerMinute \in Nat \ {0} /\ Minute \in Nat /\ MaxTime \in Nat

VARIABLES
  running,        \* the running flag
  listening,      \* the listener is open
  acceptLoop,     \* where the accept loop is: "check", "accept" or "ended"
  stop,           \* where Stop is: "none", "flagged", "waiting", "graceful", "timedout"
  wg,             \* the WaitGroup's counter
  activeConns,    \* slots of the server in use
  ipConnections,  \* slots in use per address; 0 for an address not in the map
  ipRateLimit,    \* per address: the window's end and its connections, 0 for none yet
  now,            \* the clock
  handler         \* handler[c]: the goroutine of connection c; admitted is when it
                  \* passed the rate limit, 0 for not yet (only properties read it)

vars == <<running, listening, acceptLoop, stop, wg, activeConns, ipConnections,
          ipRateLimit, now, handler>>
server == <<running, listening, acceptLoop, stop>>
limits == <<activeConns, ipConnections, ipRateLimit>>

NoWindow == [count |-> 0, resetTime |-> 0]

Init ==
  /\ running = TRUE /\ listening = TRUE
  /\ acceptLoop = "check" /\ stop = "none" /\ wg = 0
  /\ activeConns = 0
  /\ ipConnections = [i \in IP |-> 0]
  /\ ipRateLimit = [i \in IP |-> NoWindow]
  /\ now = 1
  /\ handler \in [Conn -> {[pc |-> "none", ip |-> i, seen |-> 0, admitted |-> 0] : i \in IP}]

Goto(c, pc) == handler' = [handler EXCEPT ![c].pc = pc]

-------------------------------------------------------------------------------
(* The accept loop: it looks at the flag before every Accept, not after.    *)
CheckRunning ==
  /\ acceptLoop = "check"
  /\ acceptLoop' = IF running THEN "accept" ELSE "ended"
  /\ UNCHANGED <<running, listening, stop, wg, limits, now, handler>>

Accept(c) ==
  /\ acceptLoop = "accept" /\ listening
  /\ handler[c].pc = "none"
  /\ Goto(c, "started")
  /\ acceptLoop' = "check"
  /\ UNCHANGED <<running, listening, stop, wg, limits, now>>

AcceptFails ==
  /\ acceptLoop = "accept" /\ ~listening
  /\ acceptLoop' = "check"
  /\ UNCHANGED <<running, listening, stop, wg, limits, now, handler>>

(* handleConnection: wg.Add(1) is the goroutine's own first step.           *)
AddToGroup(c) ==
  /\ handler[c].pc = "started"
  /\ wg' = wg + 1
  /\ Goto(c, "counted")
  /\ UNCHANGED <<server, limits, now>>

(* Mutation: the window ends where it starts.                               *)
PassRateLimitNoWindow(c) ==
  LET i     == handler[c].ip
      entry == ipRateLimit[i]
      fresh == entry = NoWindow \/ now > entry.resetTime
  IN  /\ handler[c].pc = "counted"
      /\ fresh \/ entry.count < RateLimitPerMinute
      /\ ipRateLimit' = [ipRateLimit EXCEPT ![i] =
           IF fresh THEN [count |-> 1, resetTime |-> now]
                    ELSE [entry EXCEPT !.count = @ + 1]]
      /\ handler' = [handler EXCEPT ![c].pc = "acquire", ![c].admitted = now]
      /\ UNCHANGED <<server, wg, activeConns, ipConnections, now>>

(* checkRateLimit.                                                          *)
PassRateLimit(c) ==
  LET i     == handler[c].ip
      entry == ipRateLimit[i]
      fresh == entry = NoWindow \/ now > entry.resetTime
  IN  /\ handler[c].pc = "counted"
      /\ fresh \/ entry.count < RateLimitPerMinute
      /\ ipRateLimit' = [ipRateLimit EXCEPT ![i] =
           IF fresh THEN [count |-> 1, resetTime |-> now + Minute]
                    ELSE [entry EXCEPT !.count = @ + 1]]
      /\ handler' = [handler EXCEPT ![c].pc = "acquire", ![c].admitted = now]
      /\ UNCHANGED <<server, wg, activeConns, ipConnections, now>>

(* Mutation: a connection that never had a slot gives one back.             *)
ExceedRateLimitAndRelease(c) ==
  LET entry == ipRateLimit[handler[c].ip]
  IN  /\ handler[c].pc = "counted"
      /\ entry # NoWindow /\ now <= entry.resetTime
      /\ entry.count >= RateLimitPerMinute
      /\ Goto(c, "release")
      /\ UNCHANGED <<server, wg, limits, now>>

ExceedRateLimit(c) ==
  LET entry == ipRateLimit[handler[c].ip]
  IN  /\ handler[c].pc = "counted"
      /\ entry # NoWindow /\ now <= entry.resetTime
      /\ entry.count >= RateLimitPerMinute
      /\ Goto(c, "leaving")
      /\ UNCHANGED <<server, wg, limits, now>>

(* acquireConnection: load, compare with the limit ...                      *)
LoadActiveConns(c) ==
  /\ handler[c].pc = "acquire"
  /\ handler' = IF activeConns >= MaxConnections
                THEN [handler EXCEPT ![c].pc = "leaving"]
                ELSE [handler EXCEPT ![c].pc = "swap", ![c].seen = activeConns]
  /\ UNCHANGED <<server, wg, limits, now>>

(* Mutation: a plain increment instead of the swap.                         *)
IncrementActiveConns(c) ==
  /\ handler[c].pc = "swap"
  /\ activeConns' = activeConns + 1
  /\ Goto(c, "slot")
  /\ UNCHANGED <<server, wg, ipConnections, ipRateLimit, now>>

(* ... and swap, or start again when another goroutine was faster.          *)
SwapActiveConns(c) ==
  /\ handler[c].pc = "swap"
  /\ IF activeConns = handler[c].seen
     THEN activeConns' = handler[c].seen + 1 /\ Goto(c, "slot")
     ELSE UNCHANGED activeConns /\ Goto(c, "acquire")
  /\ UNCHANGED <<server, wg, ipConnections, ipRateLimit, now>>

(* Mutation: a refusal keeps the slot of the server.                        *)
AcquireIPConnectionOrLeave(c) ==
  LET i == handler[c].ip
  IN  /\ handler[c].pc = "slot"
      /\ IF ipConnections[i] >= MaxConnectionsPerIP
         THEN UNCHANGED ipConnections /\ Goto(c, "leaving")
         ELSE /\ ipConnections' = [ipConnections EXCEPT ![i] = @ + 1]
              /\ Goto(c, "session")
      /\ UNCHANGED <<server, wg, activeConns, ipRateLimit, now>>


(* acquireIPConnection.                                                     *)
AcquireIPConnection(c) ==
  LET i == handler[c].ip
  IN  /\ handler[c].pc = "slot"
      /\ IF ipConnections[i] >= MaxConnectionsPerIP
         THEN UNCHANGED ipConnections /\ Goto(c, "release")
         ELSE /\ ipConnections' = [ipConnections EXCEPT ![i] = @ + 1]
              /\ Goto(c, "session")
      /\ UNCHANGED <<server, wg, activeConns, ipRateLimit, now>>

(* The session ends (QUIT, a broken connection, a timeout) and the deferred *)
(* releases run: releaseIPConnection drops the entry of an address at 1 ... *)
ReleaseIPConnection(c) ==
  LET i == handler[c].ip
  IN  /\ handler[c].pc = "session"
      /\ ipConnections' = [ipConnections EXCEPT ![i] = IF @ <= 1 THEN 0 ELSE @ - 1]
      /\ Goto(c, "release")
      /\ UNCHANGED <<server, wg, activeConns, ipRateLimit, now>>

(* ... releaseConnection ...                                                *)
ReleaseConnection(c) ==
  /\ handler[c].pc = "release"
  /\ activeConns' = activeConns - 1
  /\ Goto(c, "leaving")
  /\ UNCHANGED <<server, wg, ipConnections, ipRateLimit, now>>

(* ... and wg.Done().                                                       *)
LeaveGroup(c) ==
  /\ handler[c].pc = "leaving"
  /\ wg' = wg - 1
  /\ Goto(c, "done")
  /\ UNCHANGED <<server, limits, now>>

Handle(c) ==
  \/ AddToGroup(c) \/ PassRateLimit(c) \/ ExceedRateLimit(c)
  \/ LoadActiveConns(c) \/ SwapActiveConns(c) \/ AcquireIPConnection(c)
  \/ ReleaseIPConnection(c) \/ ReleaseConnection(c) \/ LeaveGroup(c)

-------------------------------------------------------------------------------
(* Stop, called once.                                                       *)
ClearRunning ==
  /\ stop = "none"
  /\ running' = FALSE /\ stop' = "flagged"
  /\ UNCHANGED <<listening, acceptLoop, wg, limits, now, handler>>

CloseListener ==
  /\ stop = "flagged"
  /\ listening' = FALSE /\ stop' = "waiting"
  /\ UNCHANGED <<running, acceptLoop, wg, limits, now, handler>>

WaitReturns ==
  /\ stop = "waiting" /\ wg = 0
  /\ stop' = "graceful"
  /\ UNCHANGED <<running, listening, acceptLoop, wg, limits, now, handler>>

WaitTimesOut ==
  /\ stop = "waiting"
  /\ stop' = "timedout"
  /\ UNCHANGED <<running, listening, acceptLoop, wg, limits, now, handler>>

Tick ==
  /\ now < MaxTime
  /\ now' = now + 1
  /\ UNCHANGED <<server, wg, limits, handler>>

Next ==
  \/ CheckRunning \/ AcceptFails
  \/ \E c \in Conn : Accept(c) \/ Handle(c)
  \/ ClearRunning \/ CloseListener \/ WaitReturns \/ WaitTimesOut
  \/ Tick

Spec == Init /\ [][Next]_vars

-------------------------------------------------------------------------------
Stages == {"none", "started", "counted", "acquire", "swap", "slot", "session",
           "release", "leaving", "done"}

(* The shape of the server's state: no counter goes below zero.             *)
TypeOK ==
  /\ running \in BOOLEAN /\ listening \in BOOLEAN
  /\ acceptLoop \in {"check", "accept", "ended"}
  /\ stop \in {"none", "flagged", "waiting", "graceful", "timedout"}
  /\ wg \in Nat /\ activeConns \in Nat
  /\ ipConnections \in [IP -> Nat]
  /\ ipRateLimit \in [IP -> [count : Nat, resetTime : Nat]]
  /\ now \in Nat
  /\ handler \in [Conn -> [pc : Stages, ip : IP, seen : Nat, admitted : Nat]]

(* Who holds what.                                                          *)
InGroup == {c \in Conn : handler[c].pc \notin {"none", "started", "done"}}
Holders == {c \in Conn : handler[c].pc \in {"slot", "session", "release"}}
Sessions(i) == {c \in Conn : handler[c].pc = "session" /\ handler[c].ip = i}

(* The counters say exactly how many goroutines hold a slot, although they  *)
(* are read and written in separate steps: no slot is lost when the limit   *)
(* of the address refuses a connection that already had a slot of the       *)
(* server, and none is given back twice (server.go:219-312).                *)
CountersAreExact ==
  /\ wg = Cardinality(InGroup)
  /\ activeConns = Cardinality(Holders)
  /\ \A i \in IP : ipConnections[i] = Cardinality(Sessions(i))

(* There are never more sessions than the limits allow (server.go:239,247). *)
LimitsHold ==
  /\ Cardinality(Holders) <= MaxConnections
  /\ \A i \in IP : Cardinality(Sessions(i)) <= MaxConnectionsPerIP

(* The connections of address i that passed the rate limit within the last  *)
(* minute.                                                                  *)
AdmittedLately(i) ==
  {c \in Conn : /\ handler[c].ip = i /\ handler[c].admitted # 0
                /\ handler[c].admitted + Minute > now}

(* The windows are fixed and start with a connection, so across the end of  *)
(* a window a minute sees more connections than the limit of server.go:332, *)
(* but fewer than twice as many.                                            *)
AtMostTwiceTheRate ==
  \A i \in IP : Cardinality(AdmittedLately(i)) <= 2 * RateLimitPerMinute - 1

===============================================================================
