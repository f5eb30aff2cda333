---------------------------- MODULE SessionsProofs -----------------------------
(* Proofs about Sessions, for any number of accounts, tokens and requests:  *)
(* a refresh token is exchanged once, a client that has not used its token  *)
(* keeps its session, and parallel logins exceed the limit of failed        *)
(* attempts by no more than their number.                                   *)
EXTENDS Sessions, FiniteSetTheorems, TLAPS

Used(t) == token[t].user # None

(* What a request knows at each of its stages.                              *)
KnowsEmail(c) ==
  call[c].pc \in {"insert", "find", "record"} => call[c].email \in Email

(* The token that a refresh has found was presented by its client; the one  *)
(* that a request has generated is to be answered.                          *)
KnowsToken(c) ==
  LET t == call[c].token
  IN  /\ call[c].pc \in {"owner", "exchange"} => t \in Token /\ Used(t) /\ t \in asked
      /\ call[c].pc = "create" => t = None \/ (t \in Token /\ Used(t) /\ t \in asked)
      /\ call[c].pc = "touch" => t = None
      /\ call[c].pc = "answer" => t \in Token /\ Used(t)

KnowsUser(c) ==
  call[c].pc \in {"sessions", "remove"} => call[c].user \in asked

Knows(c) == KnowsEmail(c) /\ KnowsToken(c) /\ KnowsUser(c)

(* A token that was generated has a user.                                   *)
TokensHaveUsers == \A t \in Token : token[t] # Unused => Used(t)

Typed == TypeOK /\ TokensHaveUsers /\ \A c \in Client : Knows(c)
-------------------------------------------------------------------------------
(* The request of c becomes k and no other one changes.                     *)
LEMMA OneCall ==
  ASSUME TypeOK, NEW c \in Client, NEW k \in Call, call' = [call EXCEPT ![c] = k]
  PROVE  /\ call' \in [Client -> Call] /\ call'[c] = k
         /\ \A d \in Client \ {c} : call'[d] = call[d]
BY DEF TypeOK

LEMMA EndOf ==
  ASSUME TypeOK, NEW c \in Client, Goto(c, "idle")
  PROVE  /\ call' \in [Client -> Call] /\ call'[c] = Idle
         /\ \A d \in Client \ {c} : call'[d] = call[d]
<1>1. Idle \in Call
  BY DEF Idle, Call, PCs
<1> QED BY <1>1, OneCall DEF Goto

LEMMA GotoOf ==
  ASSUME TypeOK, NEW c \in Client, NEW pc \in PCs, pc # "idle", Goto(c, pc)
  PROVE  /\ call' \in [Client -> Call]
         /\ call'[c].pc = pc /\ call'[c].email = call[c].email
         /\ call'[c].user = call[c].user /\ call'[c].token = call[c].token
         /\ \A d \in Client \ {c} : call'[d] = call[d]
BY DEF TypeOK, Goto, Call

(* A request starts, or starts anew with what it has found.                 *)
LEMMA StartOf ==
  ASSUME TypeOK, NEW c \in Client, NEW pc \in PCs, NEW e \in Email \cup {None},
         NEW u \in User \cup {None}, NEW t \in Token \cup {None},
         call' = [call EXCEPT ![c] = [pc |-> pc, email |-> e, user |-> u, token |-> t]]
  PROVE  /\ call' \in [Client -> Call]
         /\ call'[c].pc = pc /\ call'[c].email = e
         /\ call'[c].user = u /\ call'[c].token = t
         /\ \A d \in Client \ {c} : call'[d] = call[d]
BY DEF TypeOK, Call

LEMMA AnswerOf ==
  ASSUME TypeOK, NEW c \in Client, NEW t \in Token,
         call' = [call EXCEPT ![c].pc = "answer", ![c].token = t]
  PROVE  /\ call' \in [Client -> Call]
         /\ call'[c].pc = "answer" /\ call'[c].token = t /\ call'[c].user = call[c].user
         /\ \A d \in Client \ {c} : call'[d] = call[d]
<1> DEFINE mid == [call EXCEPT ![c].pc = "answer"]
           k   == [mid[c] EXCEPT !.token = t]
<1>1. /\ mid \in [Client -> Call] /\ mid[c].pc = "answer" /\ mid[c].user = call[c].user
      /\ \A d \in Client \ {c} : mid[d] = call[d]
  BY ZenonT(40) DEF TypeOK, Call, PCs
<1>2. call' = [mid EXCEPT ![c] = k]
  OBVIOUS
<1> HIDE DEF mid
<1>3. k \in Call /\ k.pc = "answer" /\ k.token = t /\ k.user = call[c].user
  BY <1>1 DEF Call
<1> HIDE DEF k
<1> QED BY <1>1, <1>2, <1>3

LEMMA TypedInit == Init => Typed
<1> SUFFICES ASSUME Init PROVE Typed
  OBVIOUS
<1>1. Idle \in Call /\ Unused \in TokenRow
  BY DEF Idle, Call, PCs, Unused, TokenRow
<1>2. TypeOK
  <2>1. << >> \in Seq(Nat) /\ 0 \in Nat
    OBVIOUS
  <2>2. attempts \in [Email -> Seq(Nat)] /\ now \in Nat
    BY <2>1 DEF Init
  <2>3. call \in [Client -> Call] /\ \A c \in Client : call[c] = Idle
    BY <1>1 DEF Init
  <2>4. token \in [Token -> TokenRow] /\ \A t \in Token : token[t].user = None
    BY <1>1 DEF Init, Unused
  <2>5. owner \in [Email -> born \cup {None}] /\ born \subseteq User /\ sessions = {}
        /\ loggedOut = {} /\ asked = {}
    BY DEF Init
  <2> QED BY <2>2, <2>3, <2>4, <2>5 DEF TypeOK, Idle
<1>3. TokensHaveUsers
  BY DEF Init, TokensHaveUsers
<1> QED BY <1>2, <1>3 DEF Init, Typed, Knows, KnowsEmail, KnowsToken, KnowsUser, Idle

(* What the requests that do not move know stays true when no token loses   *)
(* its user.                                                                *)
LEMMA Frame ==
  ASSUME Typed, TypeOK', TokensHaveUsers', asked \subseteq asked',
         \A t \in Token : Used(t) => Used(t)',
         \A c \in Client : call'[c] = call[c] \/ Knows(c)'
  PROVE  Typed'
<1> SUFFICES ASSUME NEW c \in Client, call'[c] = call[c] PROVE Knows(c)'
  BY DEF Typed
<1> QED BY DEF Typed, Knows, KnowsEmail, KnowsToken, KnowsUser

(* The steps that change nothing but the request itself.                    *)
LEMMA CallStep ==
  ASSUME Typed, NEW c \in Client, call' \in [Client -> Call],
         \A d \in Client \ {c} : call'[d] = call[d],
         call'[c].user \in born \cup {None},
         call'[c].pc \in {"touch", "create", "answer", "owner", "exchange", "sessions", "remove"}
           => call'[c].user # None,
         Knows(c)',
         UNCHANGED <<owner, born, token, sessions, attempts, loggedOut, now>>,
         asked \subseteq asked', asked' \subseteq born \cup Token
  PROVE  Typed'
<1>1. TypeOK'
  BY DEF Typed, TypeOK, Exists
<1>2. TokensHaveUsers' /\ \A t \in Token : Used(t) => Used(t)'
  BY DEF Typed, TokensHaveUsers, Used
<1> QED BY <1>1, <1>2, Frame
-------------------------------------------------------------------------------
(* One action after the other.                                              *)
LEMMA TypedRegister ==
  ASSUME Typed, NEW c \in Client, NEW e \in Email, Register(c, e) \/ Login(c, e)
  PROVE  Typed'
<1> USE DEF Typed
<1>1. PICK pc \in {"insert", "find"} :
        call' = [call EXCEPT ![c] = [pc |-> pc, email |-> e, user |-> None, token |-> None]]
  BY DEF Register, Login, Idle, At
<1>2. UNCHANGED <<owner, born, token, sessions, attempts, loggedOut, asked, now>>
  BY DEF Register, Login
<1>3. /\ call' \in [Client -> Call]
      /\ call'[c].pc = pc /\ call'[c].email = e /\ call'[c].user = None
      /\ \A d \in Client \ {c} : call'[d] = call[d]
  BY <1>1, StartOf DEF PCs
<1>4. Knows(c)'
  BY <1>3 DEF Knows, KnowsEmail, KnowsToken, KnowsUser
<1>5. asked' = asked /\ asked' \subseteq born \cup Token
  BY <1>2 DEF TypeOK
<1>6. call'[c].user \in born \cup {None}
      /\ ~ call'[c].pc \in {"touch", "create", "answer", "owner", "exchange", "sessions", "remove"}
  BY <1>3
<1> HIDE DEF Typed
<1> QED BY <1>2, <1>3, <1>4, <1>5, <1>6, CallStep

LEMMA TypedEnd ==
  ASSUME Typed, NEW c \in Client, Goto(c, "idle"),
         UNCHANGED <<owner, born, token, sessions, attempts, loggedOut, asked, now>>
  PROVE  Typed'
<1>1. /\ call' \in [Client -> Call] /\ call'[c] = Idle
      /\ \A d \in Client \ {c} : call'[d] = call[d]
  BY EndOf DEF Typed
<1>2. Knows(c)' /\ call'[c].user = None /\ call'[c].pc = "idle"
  BY <1>1 DEF Knows, KnowsEmail, KnowsToken, KnowsUser, Idle
<1>3. asked' \subseteq born \cup Token
  BY DEF Typed, TypeOK
<1> QED BY <1>1, <1>2, <1>3, CallStep

(* A request goes on with what it has.                                      *)
LEMMA TypedGoto ==
  ASSUME Typed, NEW c \in Client, NEW pc \in PCs, pc # "idle", Goto(c, pc),
         UNCHANGED <<owner, born, token, sessions, attempts, loggedOut, asked, now>>,
         pc = "record" => call[c].pc = "find",
         pc \in {"create", "exchange", "remove"} => call[c].user # None,
         pc = "create" => call[c].token = None,
         pc = "exchange" => call[c].pc = "owner",
         pc = "remove" => call[c].pc = "sessions",
         pc \notin {"insert", "find", "touch", "answer", "owner", "sessions"}
  PROVE  Typed'
<1>1. /\ call' \in [Client -> Call]
      /\ call'[c].pc = pc /\ call'[c].email = call[c].email
      /\ call'[c].user = call[c].user /\ call'[c].token = call[c].token
      /\ \A d \in Client \ {c} : call'[d] = call[d]
  BY GotoOf DEF Typed
<1>2. Knows(c) /\ call[c].user \in born \cup {None} /\ asked \subseteq born \cup Token
  BY DEF Typed, TypeOK
<1>3. Knows(c)'
  BY <1>1, <1>2 DEF Knows, KnowsEmail, KnowsToken, KnowsUser, Used
<1> QED BY <1>1, <1>2, <1>3, CallStep

LEMMA TypedCheckPassword ==
  ASSUME Typed, NEW c \in Client, CheckPassword(c)
  PROVE  Typed'
<1>1. /\ call[c].pc = "find"
      /\ UNCHANGED <<owner, born, token, sessions, attempts, loggedOut, asked, now>>
  BY DEF CheckPassword, At
<1>2. CASE Goto(c, "record")
  BY <1>1, <1>2, TypedGoto DEF PCs
<1>3. ASSUME NEW u, u = GetByEmail(call[c].email), u # None,
             call' = [call EXCEPT ![c] = [Idle EXCEPT !.pc = "touch", !.user = u]]
      PROVE  Typed'
  <2>1. u \in born /\ born \subseteq User /\ asked \subseteq born \cup Token
    BY <1>1, <1>3 DEF Typed, TypeOK, GetByEmail, Knows, KnowsEmail
  <2> DEFINE k == [Idle EXCEPT !.pc = "touch", !.user = u]
  <2>2. k \in Call /\ k.pc = "touch" /\ k.user = u /\ k.token = None
    BY <2>1 DEF Idle, Call, PCs
  <2>3. /\ call' \in [Client -> Call] /\ call'[c].pc = "touch" /\ call'[c].user = u
        /\ call'[c].token = None
        /\ \A d \in Client \ {c} : call'[d] = call[d]
    <3>1. call' = [call EXCEPT ![c] = k]
      BY <1>3
    <3> HIDE DEF k
    <3> QED BY <2>2, <3>1, OneCall DEF Typed
  <2>4. Knows(c)'
    BY <2>3 DEF Knows, KnowsEmail, KnowsToken, KnowsUser
  <2> QED BY <1>1, <1>3, <2>1, <2>3, <2>4, CallStep
<1> QED BY <1>2, <1>3 DEF CheckPassword

LEMMA TypedUpdateLastLogin ==
  ASSUME Typed, NEW c \in Client, UpdateLastLogin(c)
  PROVE  Typed'
<1>1. /\ call[c].pc = "touch" /\ (Goto(c, "create") \/ Goto(c, "idle"))
      /\ UNCHANGED <<owner, born, token, sessions, attempts, loggedOut, asked, now>>
  BY DEF UpdateLastLogin, At
<1>2. call[c].token = None /\ call[c].user # None
  BY <1>1 DEF Typed, TypeOK, Knows, KnowsToken
<1>3. CASE Goto(c, "create")
  BY <1>1, <1>2, <1>3, TypedGoto DEF PCs
<1> QED BY <1>1, <1>3, TypedEnd

LEMMA TypedAbort ==
  ASSUME Typed, NEW c \in Client, Abort(c)
  PROVE  Typed'
BY TypedEnd DEF Abort

(* The end of a request that has changed a table.                           *)
LEMMA EndStep ==
  ASSUME Typed, NEW c \in Client, Goto(c, "idle"),
         asked' = asked, TypeOK', TokensHaveUsers', \A t \in Token : Used(t) => Used(t)'
  PROVE  Typed'
<1>1. /\ call' \in [Client -> Call] /\ call'[c] = Idle
      /\ \A d \in Client \ {c} : call'[d] = call[d]
  BY EndOf DEF Typed
<1>2. Knows(c)'
  BY <1>1 DEF Knows, KnowsEmail, KnowsToken, KnowsUser, Idle
<1> QED BY <1>1, <1>2, Frame

(* What is said of the requests in TypeOK, when one of them ends.           *)
LEMMA EndTyped ==
  ASSUME TypeOK, NEW c \in Client, Goto(c, "idle"), born \subseteq born'
  PROVE  \A d \in Client :
           /\ call'[d].user \in born' \cup {None}
           /\ call'[d].pc \in {"touch", "create", "answer", "owner", "exchange", "sessions",
                               "remove"} => call'[d].user # None
BY EndOf DEF TypeOK, Idle

LEMMA TypedInsertUser ==
  ASSUME Typed, NEW c \in Client, InsertUser(c)
  PROVE  Typed'
<1> DEFINE e == call[c].email
<1>1. /\ call[c].pc = "insert" /\ Goto(c, "idle")
      /\ UNCHANGED <<sessions, attempts, loggedOut, asked, now>>
  BY DEF InsertUser, At
<1>2. CASE UNCHANGED <<owner, born, token>>
  BY <1>1, <1>2, TypedEnd
<1>3. ASSUME NEW u \in User, NEW t \in Token, NEW held \in Delivered,
             CreateUser(e, u), token[t] = Unused,
             token' = Generated(t, u, "register", held)
      PROVE  Typed'
  <2>1. e \in Email /\ TypeOK /\ TokensHaveUsers
    BY <1>1 DEF Typed, Knows, KnowsEmail
  <2>2. u # None /\ u \notin born /\ held \in BOOLEAN /\ owner[e] = None
        /\ RefreshTokenExpiry \in Nat
    BY <1>3, SessionsAssumption DEF CreateUser, Delivered, EmailExists
  <2>3. /\ owner' \in [Email -> born' \cup {None}] /\ born' \subseteq User
        /\ born \subseteq born' /\ u \in born'
        /\ owner'[e] = u /\ \A f \in Email \ {e} : owner'[f] = owner[f]
    BY <1>3, <2>1 DEF CreateUser, TypeOK
  <2>4. [user |-> u, from |-> "register", expires |-> now + RefreshTokenExpiry, held |-> held]
          \in TokenRow
    BY <2>1, <2>2 DEF TokenRow, TypeOK
  <2>5. /\ token' \in [Token -> TokenRow] /\ token'[t].user = u
        /\ \A s \in Token \ {t} : token'[s] = token[s]
    BY <1>3, <2>1, <2>4 DEF Generated, TypeOK
  <2>6. token[t].user = None
    BY <1>3 DEF Unused
  <2>7. \A s \in sessions :
          token'[s].user # None /\ \E f \in Email : owner'[f] = token'[s].user
    <3> SUFFICES ASSUME NEW s \in sessions
                 PROVE  token'[s].user # None /\ \E f \in Email : owner'[f] = token'[s].user
      OBVIOUS
    <3>1. s \in Token \ {t} /\ token[s].user # None
      BY <2>1, <2>6 DEF TypeOK
    <3>2. PICK f \in Email : owner[f] = token[s].user
      BY <2>1 DEF TypeOK, Exists
    <3>3. f # e
      BY <2>2, <3>1, <3>2
    <3> QED BY <2>3, <2>5, <3>1, <3>2, <3>3
  <2>8. TypeOK'
    <3>1. \A s \in Token : token'[s].user \in born' \cup {None}
      BY <2>1, <2>3, <2>5 DEF TypeOK
    <3>2. sessions' \subseteq Token /\ attempts' \in [Email -> Seq(Nat)] /\ loggedOut' \subseteq Token
          /\ asked' \subseteq born' \cup Token /\ now' \in Nat
      BY <1>1, <2>1, <2>3 DEF TypeOK
    <3>3. call' \in [Client -> Call]
      BY <1>1, <2>1, EndOf
    <3> QED BY <1>1, <2>1, <2>3, <2>5, <2>7, <3>1, <3>2, <3>3, EndTyped DEF TypeOK, Exists
  <2>9. TokensHaveUsers' /\ \A s \in Token : Used(s) => Used(s)'
    BY <2>1, <2>2, <2>5 DEF TokensHaveUsers, Used
  <2> QED BY <1>1, <2>8, <2>9, EndStep
<1> QED BY <1>2, <1>3 DEF InsertUser

LEMMA TypedRecordFailedAttempt ==
  ASSUME Typed, NEW c \in Client, RecordFailedAttempt(c)
  PROVE  Typed'
<1>1. /\ call[c].pc = "record" /\ Goto(c, "idle")
      /\ UNCHANGED <<owner, born, token, sessions, loggedOut, asked, now>>
      /\ attempts' = [attempts EXCEPT ![call[c].email] = Append(@, now)]
  BY DEF RecordFailedAttempt, At
<1>2. attempts' \in [Email -> Seq(Nat)]
  <2>1. call[c].email \in Email
    BY <1>1 DEF Typed, Knows, KnowsEmail
  <2>2. Append(attempts[call[c].email], now) \in Seq(Nat)
    BY <2>1 DEF Typed, TypeOK
  <2> QED BY <1>1, <2>2 DEF Typed, TypeOK
<1>3. TypeOK'
  BY <1>1, <1>2, EndOf, EndTyped DEF Typed, TypeOK, Exists
<1>4. TokensHaveUsers' /\ \A s \in Token : Used(s) => Used(s)'
  BY <1>1 DEF Typed, TokensHaveUsers, Used
<1> QED BY <1>1, <1>3, <1>4, EndStep
-------------------------------------------------------------------------------
(* The steps that only delete sessions.                                     *)
LEMMA FewerSessions ==
  ASSUME Typed, sessions' \subseteq sessions, UNCHANGED <<owner, born, token, attempts, now>>,
         loggedOut' \subseteq Token, asked \subseteq asked', asked' \subseteq born \cup Token,
         call' \in [Client -> Call],
         \A d \in Client :
           \/ call'[d] = call[d]
           \/ /\ Knows(d)' /\ call'[d].user \in born \cup {None}
              /\ call'[d].pc \in {"touch", "create", "answer", "owner", "exchange", "sessions",
                                  "remove"} => call'[d].user # None
  PROVE  Typed'
<1>1. TypeOK'
  BY DEF Typed, TypeOK, Exists
<1>2. TokensHaveUsers' /\ \A t \in Token : Used(t) => Used(t)'
  BY DEF Typed, TokensHaveUsers, Used
<1> QED BY <1>1, <1>2, Frame

LEMMA TypedRefreshToken ==
  ASSUME Typed, NEW c \in Client, NEW t \in Token, RefreshToken(c, t)
  PROVE  Typed'
<1>1. /\ asked' = asked \cup {t} /\ asked \subseteq born \cup Token
      /\ UNCHANGED <<owner, born, token, sessions, attempts, loggedOut, now>>
      /\ loggedOut \subseteq Token /\ call \in [Client -> Call]
  BY DEF RefreshToken, Typed, TypeOK
<1>2. CASE UNCHANGED call
  BY <1>1, <1>2, FewerSessions
<1>3. CASE /\ t \in sessions
           /\ call' = [call EXCEPT ![c] = [Idle EXCEPT !.pc = "owner",
                                              !.user = token[t].user, !.token = t]]
  <2> DEFINE k == [Idle EXCEPT !.pc = "owner", !.user = token[t].user, !.token = t]
  <2>1. token[t].user \in born \cup {None} /\ born \subseteq User /\ token[t].user # None
    BY <1>3 DEF Typed, TypeOK
  <2>2. k \in Call /\ k.pc = "owner" /\ k.user = token[t].user /\ k.token = t
    BY <2>1 DEF Idle, Call, PCs
  <2>3. call' = [call EXCEPT ![c] = k]
    BY <1>3
  <2> HIDE DEF k
  <2>4. call' \in [Client -> Call] /\ call'[c] = k
        /\ \A d \in Client \ {c} : call'[d] = call[d]
    BY <2>2, <2>3, OneCall DEF Typed
  <2>5. Knows(c)'
    BY <1>1, <2>1, <2>2, <2>4 DEF Knows, KnowsEmail, KnowsToken, KnowsUser, Used
  <2> QED BY <1>1, <2>1, <2>2, <2>4, <2>5, FewerSessions
<1> QED BY <1>2, <1>3 DEF RefreshToken, GetByTokenHash

LEMMA TypedDeleteUser ==
  ASSUME Typed, NEW c \in Client, NEW u \in User, DeleteUser(c, u)
  PROVE  Typed'
<1> DEFINE k == [Idle EXCEPT !.pc = "sessions", !.user = u]
<1>1. /\ asked' = asked \cup {u} /\ asked \subseteq born \cup Token
      /\ UNCHANGED <<owner, born, token, sessions, attempts, loggedOut, now>>
      /\ loggedOut \subseteq Token /\ call' = [call EXCEPT ![c] = k] /\ Exists(u)
  BY DEF DeleteUser, Typed, TypeOK
<1>2. u \in born /\ u # None
  BY <1>1, SessionsAssumption DEF Typed, TypeOK, Exists
<1>3. k \in Call /\ k.pc = "sessions" /\ k.user = u /\ k.token = None
  BY DEF Idle, Call, PCs
<1> HIDE DEF k
<1>4. call' \in [Client -> Call] /\ call'[c] = k
      /\ \A d \in Client \ {c} : call'[d] = call[d]
  BY <1>1, <1>3, OneCall DEF Typed
<1>5. Knows(c)'
  BY <1>1, <1>3, <1>4 DEF Knows, KnowsEmail, KnowsToken, KnowsUser
<1> QED BY <1>1, <1>2, <1>3, <1>4, <1>5, FewerSessions

LEMMA TypedGetOwner ==
  ASSUME Typed, NEW c \in Client, GetOwner(c)
  PROVE  Typed'
<1>1. /\ call[c].pc = "owner" /\ sessions' \subseteq sessions
      /\ UNCHANGED <<owner, born, token, attempts, loggedOut, asked, now>>
      /\ (Goto(c, "exchange") \/ Goto(c, "idle"))
  BY DEF GetOwner, At, DeleteSession
<1>2. /\ call[c].user # None /\ call[c].user \in born \cup {None} /\ Knows(c)
      /\ asked \subseteq born \cup Token /\ loggedOut \subseteq Token
  BY <1>1 DEF Typed, TypeOK
<1>3. CASE Goto(c, "exchange")
  <2>1. /\ call' \in [Client -> Call]
        /\ call'[c].pc = "exchange" /\ call'[c].email = call[c].email
        /\ call'[c].user = call[c].user /\ call'[c].token = call[c].token
        /\ \A d \in Client \ {c} : call'[d] = call[d]
    BY <1>3, GotoOf DEF Typed, PCs
  <2>2. Knows(c)'
    BY <1>1, <1>2, <2>1 DEF Knows, KnowsEmail, KnowsToken, KnowsUser, Used
  <2> QED BY <1>1, <1>2, <2>1, <2>2, FewerSessions
<1>4. CASE Goto(c, "idle")
  <2>1. /\ call' \in [Client -> Call] /\ call'[c] = Idle
        /\ \A d \in Client \ {c} : call'[d] = call[d]
    BY <1>4, EndOf DEF Typed
  <2>2. Knows(c)' /\ call'[c].user = None /\ call'[c].pc = "idle"
    BY <2>1 DEF Knows, KnowsEmail, KnowsToken, KnowsUser, Idle
  <2> QED BY <1>1, <1>2, <2>1, <2>2, FewerSessions
<1> QED BY <1>1, <1>3, <1>4

LEMMA TypedExchange ==
  ASSUME Typed, NEW c \in Client, Exchange(c)
  PROVE  Typed'
<1>1. /\ call[c].pc = "exchange" /\ sessions' \subseteq sessions
      /\ UNCHANGED <<owner, born, token, attempts, loggedOut, asked, now>>
      /\ (Goto(c, "create") \/ Goto(c, "idle"))
  BY DEF Exchange, At, DeleteSession
<1>2. /\ call[c].user # None /\ call[c].user \in born \cup {None} /\ Knows(c)
      /\ asked \subseteq born \cup Token /\ loggedOut \subseteq Token
  BY <1>1 DEF Typed, TypeOK
<1>3. CASE Goto(c, "create")
  <2>1. /\ call' \in [Client -> Call]
        /\ call'[c].pc = "create" /\ call'[c].email = call[c].email
        /\ call'[c].user = call[c].user /\ call'[c].token = call[c].token
        /\ \A d \in Client \ {c} : call'[d] = call[d]
    BY <1>3, GotoOf DEF Typed, PCs
  <2>2. Knows(c)'
    BY <1>1, <1>2, <2>1 DEF Knows, KnowsEmail, KnowsToken, KnowsUser, Used
  <2> QED BY <1>1, <1>2, <2>1, <2>2, FewerSessions
<1>4. CASE Goto(c, "idle")
  <2>1. /\ call' \in [Client -> Call] /\ call'[c] = Idle
        /\ \A d \in Client \ {c} : call'[d] = call[d]
    BY <1>4, EndOf DEF Typed
  <2>2. Knows(c)' /\ call'[c].user = None /\ call'[c].pc = "idle"
    BY <2>1 DEF Knows, KnowsEmail, KnowsToken, KnowsUser, Idle
  <2> QED BY <1>1, <1>2, <2>1, <2>2, FewerSessions
<1> QED BY <1>1, <1>3, <1>4

LEMMA TypedLogout ==
  ASSUME Typed, NEW t \in Token, Logout(t)
  PROVE  Typed'
BY FewerSessions DEF Logout, DeleteSession, Typed, TypeOK

LEMMA TypedDeleteByUserID ==
  ASSUME Typed, NEW c \in Client, DeleteByUserID(c)
  PROVE  Typed'
<1>1. /\ call[c].pc = "sessions" /\ sessions' \subseteq sessions /\ Goto(c, "remove")
      /\ UNCHANGED <<owner, born, token, attempts, loggedOut, asked, now>>
  BY DEF DeleteByUserID, At
<1>2. /\ call[c].user # None /\ call[c].user \in born \cup {None} /\ Knows(c)
      /\ asked \subseteq born \cup Token /\ loggedOut \subseteq Token
  BY <1>1 DEF Typed, TypeOK
<1>3. /\ call' \in [Client -> Call]
      /\ call'[c].pc = "remove" /\ call'[c].email = call[c].email
      /\ call'[c].user = call[c].user /\ call'[c].token = call[c].token
      /\ \A d \in Client \ {c} : call'[d] = call[d]
  BY <1>1, GotoOf DEF Typed, PCs
<1>4. Knows(c)'
  BY <1>1, <1>2, <1>3 DEF Knows, KnowsEmail, KnowsToken, KnowsUser
<1> QED BY <1>1, <1>2, <1>3, <1>4, FewerSessions

LEMMA TypedTick ==
  ASSUME Typed, Tick \/ UNCHANGED vars
  PROVE  Typed'
<1>1. UNCHANGED <<owner, born, token, sessions, attempts, call, loggedOut, asked>> /\ now' \in Nat
  BY DEF Tick, vars, Typed, TypeOK
<1>2. TypeOK'
  BY <1>1 DEF Typed, TypeOK, Exists
<1>3. TokensHaveUsers' /\ \A t \in Token : Used(t) => Used(t)'
  BY <1>1 DEF Typed, TokensHaveUsers, Used
<1> QED BY <1>1, <1>2, <1>3, Frame

LEMMA TypedCreateSession ==
  ASSUME Typed, NEW c \in Client, CreateSession(c)
  PROVE  Typed'
<1> DEFINE u    == call[c].user
           from == IF call[c].token = None THEN "login" ELSE call[c].token
<1>1. /\ call[c].pc = "create" /\ UNCHANGED <<owner, born, attempts, loggedOut, asked, now>>
  BY DEF CreateSession, At
<1>2. /\ u # None /\ u \in born /\ born \subseteq User /\ Knows(c) /\ TypeOK /\ TokensHaveUsers
      /\ from \in Token \cup {"none", "login", "register"} /\ RefreshTokenExpiry \in Nat
  BY <1>1, SessionsAssumption DEF Typed, TypeOK, Knows, KnowsToken
<1>3. CASE Goto(c, "idle") /\ UNCHANGED <<token, sessions>>
  BY <1>1, <1>3, TypedEnd
<1>4. ASSUME NEW t \in Token, NewSession(t, u, from),
             call' = [call EXCEPT ![c].pc = "answer", ![c].token = t]
      PROVE  Typed'
  <2>1. /\ token' = Generated(t, u, from, FALSE) /\ sessions' = sessions \cup {t}
        /\ Exists(u) /\ token[t].user = None
    BY <1>4 DEF NewSession, Unused
  <2>2. [user |-> u, from |-> from, expires |-> now + RefreshTokenExpiry, held |-> FALSE]
          \in TokenRow
    BY <1>2 DEF TokenRow, TypeOK
  <2>3. /\ token' \in [Token -> TokenRow] /\ token'[t].user = u
        /\ \A s \in Token \ {t} : token'[s] = token[s]
    BY <1>2, <2>1, <2>2 DEF Generated, TypeOK
  <2>4. /\ call' \in [Client -> Call]
        /\ call'[c].pc = "answer" /\ call'[c].token = t /\ call'[c].user = u
        /\ \A d \in Client \ {c} : call'[d] = call[d]
    BY <1>2, <1>4, AnswerOf
  <2>5. /\ sessions' \subseteq Token
        /\ \A s \in sessions' : token'[s].user # None /\ \E e \in Email : owner[e] = token'[s].user
    <3>1. u # None /\ \E e \in Email : owner[e] = u
      BY <1>2, <2>1 DEF Exists
    <3>2. \A s \in sessions : token[s].user # None /\ \E e \in Email : owner[e] = token[s].user
      BY <1>2 DEF TypeOK, Exists
    <3>3. \A s \in sessions : s \in Token \ {t}
      BY <1>2, <2>1, <3>2 DEF TypeOK
    <3> HIDE DEF u, from
    <3> QED BY <2>1, <2>3, <3>1, <3>2, <3>3
  <2> HIDE DEF u, from
  <2>6. TypeOK'
    <3>1. \A s \in Token : token'[s].user \in born' \cup {None}
      BY <1>1, <1>2, <2>3 DEF TypeOK
    <3>2. \A d \in Client :
            /\ call'[d].user \in born' \cup {None}
            /\ call'[d].pc \in {"touch", "create", "answer", "owner", "exchange", "sessions",
                                "remove"} => call'[d].user # None
      BY <1>1, <1>2, <2>4 DEF TypeOK
    <3> QED BY <1>1, <1>2, <2>3, <2>4, <2>5, <3>1, <3>2 DEF TypeOK, Exists
  <2>7. TokensHaveUsers' /\ \A s \in Token : Used(s) => Used(s)'
    BY <1>2, <2>3 DEF TokensHaveUsers, Used
  <2>8. Knows(c)'
    BY <1>2, <2>3, <2>4 DEF Knows, KnowsEmail, KnowsToken, KnowsUser, Used
  <2> QED BY <1>1, <2>4, <2>6, <2>7, <2>8, Frame
<1> QED BY <1>3, <1>4 DEF CreateSession

LEMMA TypedAnswer ==
  ASSUME Typed, NEW c \in Client, Answer(c)
  PROVE  Typed'
<1> DEFINE t == call[c].token
           h == token[t].held \/ token[t].from # "login" \/ Exists(call[c].user)
<1>1. /\ call[c].pc = "answer" /\ token' = [token EXCEPT ![t].held = h] /\ Goto(c, "idle")
      /\ UNCHANGED <<owner, born, sessions, attempts, loggedOut, asked, now>>
  BY DEF Answer, At
<1>2. t \in Token /\ Used(t) /\ token[t] \in TokenRow /\ token \in [Token -> TokenRow]
  BY <1>1 DEF Typed, TypeOK, Knows, KnowsToken
<1>3. h \in BOOLEAN
  OBVIOUS
<1> HIDE DEF t, h
<1>4. /\ token' \in [Token -> TokenRow]
      /\ \A s \in Token : token'[s].user = token[s].user
      /\ \A s \in Token \ {t} : token'[s] = token[s]
  BY <1>1, <1>2, <1>3 DEF TokenRow
<1>5. TypeOK'
  <2>1. /\ \A s \in Token : token'[s].user \in born' \cup {None}
        /\ \A s \in sessions' :
             token'[s].user # None /\ \E e \in Email : owner'[e] = token'[s].user
    BY <1>1, <1>4 DEF Typed, TypeOK, Exists
  <2> QED BY <1>1, <1>4, <2>1, EndOf, EndTyped DEF Typed, TypeOK, Exists
<1>6. TokensHaveUsers' /\ \A s \in Token : Used(s) => Used(s)'
  BY <1>2, <1>4 DEF Typed, TokensHaveUsers, Used
<1> QED BY <1>1, <1>5, <1>6, EndStep

LEMMA TypedRemoveUser ==
  ASSUME Typed, NEW c \in Client, RemoveUser(c)
  PROVE  Typed'
<1>1. /\ call[c].pc = "remove" /\ Goto(c, "idle")
      /\ UNCHANGED <<born, token, attempts, loggedOut, asked, now>>
      /\ owner' = [e \in Email |-> IF owner[e] = call[c].user THEN None ELSE owner[e]]
      /\ sessions' = sessions \ OwnedBy(call[c].user)
  BY DEF RemoveUser, At
<1>2. owner' \in [Email -> born \cup {None}] /\ sessions' \subseteq Token
  BY <1>1 DEF Typed, TypeOK
<1>3. \A s \in sessions' : token[s].user # None /\ \E e \in Email : owner'[e] = token[s].user
  <2> SUFFICES ASSUME NEW s \in sessions'
               PROVE  token[s].user # None /\ \E e \in Email : owner'[e] = token[s].user
    OBVIOUS
  <2>1. s \in sessions /\ token[s].user # call[c].user
    BY <1>1 DEF OwnedBy
  <2>2. PICK e \in Email : token[s].user # None /\ owner[e] = token[s].user
    BY <2>1 DEF Typed, TypeOK, Exists
  <2> QED BY <1>1, <2>1, <2>2
<1>4. TypeOK'
  BY <1>1, <1>2, <1>3, EndOf, EndTyped DEF Typed, TypeOK, Exists
<1>5. TokensHaveUsers' /\ \A s \in Token : Used(s) => Used(s)'
  BY <1>1 DEF Typed, TokensHaveUsers, Used
<1> QED BY <1>1, <1>4, <1>5, EndStep

LEMMA TypedNext ==
  ASSUME Typed, [Next]_vars
  PROVE  Typed'
<1>1. ASSUME NEW c \in Client, NEW e \in Email, Register(c, e) \/ Login(c, e)
      PROVE  Typed'
  BY <1>1, TypedRegister
<1>2. ASSUME NEW c \in Client, NEW t \in Token, RefreshToken(c, t)
      PROVE  Typed'
  BY <1>2, TypedRefreshToken
<1>3. ASSUME NEW c \in Client, NEW u \in User, DeleteUser(c, u)
      PROVE  Typed'
  BY <1>3, TypedDeleteUser
<1>4. ASSUME NEW c \in Client, Step(c)
      PROVE  Typed'
  BY <1>4, TypedInsertUser, TypedCheckPassword, TypedRecordFailedAttempt, TypedUpdateLastLogin,
     TypedCreateSession, TypedAnswer, TypedGetOwner, TypedExchange, TypedDeleteByUserID,
     TypedRemoveUser, TypedAbort DEF Step
<1>5. ASSUME NEW t \in Token, Logout(t)
      PROVE  Typed'
  BY <1>5, TypedLogout
<1> QED BY <1>1, <1>2, <1>3, <1>4, <1>5, TypedTick DEF Next

(* In every behaviour: what TypeOK says, with what each request knows.      *)
THEOREM SessionsTyped == Spec => []Typed
<1>1. Typed /\ [Next]_vars => Typed'
  BY TypedNext
<1> QED BY TypedInit, <1>1, PTL DEF Spec

(* The tables and the requests have their types, and a session is one of a  *)
(* user that is there: the deletion of an account ends all of its sessions, *)
(* those of the logins and refreshes under way included.                    *)
THEOREM SessionsTypes == Spec => []TypeOK
<1>1. Typed => TypeOK
  BY DEF Typed
<1> QED BY SessionsTyped, <1>1, PTL
-------------------------------------------------------------------------------
(* A refresh token is exchanged, or logged out, or neither: whoever did it  *)
(* has taken its row from sessions, and nobody puts it back.                *)
Creating(c) == call[c].pc = "create" /\ call[c].token \in Token

Once ==
  /\ ATokenIsExchangedOnce
  /\ \A s, t \in Token : token[s].from = t => Used(t) /\ t \notin sessions
  /\ \A t \in loggedOut : Used(t) /\ t \notin sessions
  /\ \A c \in Client : Creating(c) =>
       /\ call[c].token \notin sessions \cup loggedOut
       /\ \A s \in Token : token[s].from # call[c].token
  /\ \A c, d \in Client :
       Creating(c) /\ Creating(d) /\ call[c].token = call[d].token => c = d

LEMMA OnceInit == Init => Once
BY SessionsAssumption
   DEF Init, Once, ATokenIsExchangedOnce, Creating, Unused, Idle

(* Sessions only go, no token comes from another one, and no request is     *)
(* about to create a session that was not.                                  *)
LEMMA OnceFrame ==
  ASSUME TypeOK, Once, sessions' \subseteq sessions, loggedOut' = loggedOut,
         \A s \in Token : token'[s].from = token[s].from \/ token'[s].from \notin Token,
         \A s \in Token : Used(s) => Used(s)',
         \A c \in Client : Creating(c)' => Creating(c) /\ call'[c].token = call[c].token
  PROVE  Once'
<1>1. ATokenIsExchangedOnce'
  BY DEF Once, ATokenIsExchangedOnce
<1>2. \A s, t \in Token : token'[s].from = t => Used(t)' /\ t \notin sessions'
  BY DEF Once
<1>3. \A t \in loggedOut' : Used(t)' /\ t \notin sessions'
  BY DEF Once, TypeOK
<1>4. \A c \in Client : Creating(c)' =>
        /\ call'[c].token \notin sessions' \cup loggedOut'
        /\ \A s \in Token : token'[s].from # call'[c].token
  BY DEF Once, Creating
<1>5. \A c, d \in Client :
        Creating(c)' /\ Creating(d)' /\ call'[c].token = call'[d].token => c = d
  BY DEF Once
<1> QED BY <1>1, <1>2, <1>3, <1>4, <1>5 DEF Once

(* A request that goes to a stage other than the creation of a session.     *)
LEMMA OnceMove ==
  ASSUME Typed, Once, NEW c \in Client, \A d \in Client \ {c} : call'[d] = call[d],
         ~Creating(c)', sessions' \subseteq sessions, loggedOut' = loggedOut,
         \A s \in Token : token'[s].from = token[s].from,
         \A s \in Token : token'[s].user = token[s].user
  PROVE  Once'
<1>1. \A s \in Token : Used(s) => Used(s)'
  BY DEF Used
<1>2. \A d \in Client : Creating(d)' => Creating(d) /\ call'[d].token = call[d].token
  BY DEF Creating
<1> QED BY <1>1, <1>2, OnceFrame DEF Typed

LEMMA OnceEnd ==
  ASSUME Typed, Once, NEW c \in Client, Goto(c, "idle"),
         sessions' \subseteq sessions, UNCHANGED <<loggedOut, token>>
  PROVE  Once'
<1>1. /\ call'[c] = Idle /\ \A d \in Client \ {c} : call'[d] = call[d]
  BY EndOf DEF Typed
<1>2. ~Creating(c)'
  BY <1>1 DEF Creating, Idle
<1> QED BY <1>1, <1>2, OnceMove

LEMMA OnceGoto ==
  ASSUME Typed, Once, NEW c \in Client, NEW pc \in PCs, pc \notin {"idle", "create"}, Goto(c, pc),
         sessions' \subseteq sessions, UNCHANGED <<loggedOut, token>>
  PROVE  Once'
<1>1. /\ call'[c].pc = pc /\ \A d \in Client \ {c} : call'[d] = call[d]
  BY GotoOf DEF Typed
<1>2. ~Creating(c)'
  BY <1>1 DEF Creating
<1> QED BY <1>1, <1>2, OnceMove

LEMMA OnceStart ==
  ASSUME Typed, Once, NEW c \in Client, NEW k, call' = [call EXCEPT ![c] = k],
         k.pc # "create", sessions' \subseteq sessions, UNCHANGED <<loggedOut, token>>
  PROVE  Once'
<1>1. call'[c] = k /\ \A d \in Client \ {c} : call'[d] = call[d]
  BY DEF Typed, TypeOK
<1>2. ~Creating(c)'
  BY <1>1 DEF Creating
<1> QED BY <1>1, <1>2, OnceMove

LEMMA OnceInsertUser ==
  ASSUME Typed, Once, NEW c \in Client, InsertUser(c)
  PROVE  Once'
<1>1. Goto(c, "idle") /\ UNCHANGED <<sessions, attempts, loggedOut, asked, now>>
  BY DEF InsertUser
<1>2. CASE UNCHANGED token
  BY <1>1, <1>2, OnceEnd
<1>3. ASSUME NEW u \in User, NEW t \in Token, NEW held \in Delivered, token[t] = Unused,
             token' = Generated(t, u, "register", held)
      PROVE  Once'
  <2>1. /\ call'[c] = Idle /\ \A d \in Client \ {c} : call'[d] = call[d]
    BY <1>1, EndOf DEF Typed
  <2>2. \A d \in Client : Creating(d)' => Creating(d) /\ call'[d].token = call[d].token
    BY <2>1 DEF Creating, Idle
  <2>3. /\ token'[t].user = u /\ token'[t].from = "register" /\ u # None
        /\ "register" \notin Token /\ \A s \in Token \ {t} : token'[s] = token[s]
    BY <1>3, SessionsAssumption DEF Generated, Typed, TypeOK
  <2>4. /\ \A s \in Token : token'[s].from = token[s].from \/ token'[s].from \notin Token
        /\ \A s \in Token : Used(s) => Used(s)'
    BY <2>3 DEF Used
  <2> QED BY <1>1, <2>2, <2>4, OnceFrame DEF Typed
<1> QED BY <1>2, <1>3 DEF InsertUser

LEMMA OnceAnswer ==
  ASSUME Typed, Once, NEW c \in Client, Answer(c)
  PROVE  Once'
<1>1. /\ Goto(c, "idle") /\ UNCHANGED <<owner, born, sessions, attempts, loggedOut, asked, now>>
      /\ call[c].pc = "answer"
  BY DEF Answer, At
<1>2. /\ call'[c] = Idle /\ \A d \in Client \ {c} : call'[d] = call[d]
  BY <1>1, EndOf DEF Typed
<1>3. ~Creating(c)'
  BY <1>2 DEF Creating, Idle
<1>4. \A s \in Token : token'[s].from = token[s].from /\ token'[s].user = token[s].user
  BY DEF Answer, Typed, TypeOK, TokenRow
<1> QED BY <1>1, <1>2, <1>3, <1>4, OnceMove

(* The session of a login or a refresh: its token is a new one.             *)
LEMMA OnceCreateSession ==
  ASSUME Typed, Once, NEW c \in Client, CreateSession(c)
  PROVE  Once'
<1> DEFINE u    == call[c].user
           k    == call[c].token
           from == IF k = None THEN "login" ELSE k
<1>1. /\ call[c].pc = "create" /\ UNCHANGED <<owner, born, attempts, loggedOut, asked, now>>
  BY DEF CreateSession, At
<1>2. CASE Goto(c, "idle") /\ UNCHANGED <<token, sessions>>
  BY <1>1, <1>2, OnceEnd
<1>3. ASSUME NEW t \in Token, NewSession(t, u, from),
             call' = [call EXCEPT ![c].pc = "answer", ![c].token = t]
      PROVE  Once'
  <2>1. /\ call'[c].pc = "answer" /\ \A d \in Client \ {c} : call'[d] = call[d]
    BY <1>3, AnswerOf DEF Typed
  <2>2. /\ u # None /\ (k = None \/ (k \in Token /\ Used(k)))
        /\ None \notin Token /\ "login" \notin Token
    BY <1>1, SessionsAssumption DEF Typed, TypeOK, Knows, KnowsToken
  <2>3. /\ token'[t].from = from /\ token'[t].user = u /\ ~Used(t)
        /\ token[t].from = "none" /\ sessions' = sessions \cup {t}
        /\ \A s \in Token \ {t} : token'[s] = token[s]
    BY <1>3 DEF NewSession, Generated, Unused, Used, Typed, TypeOK
  <2>4. \A s \in Token : Used(s) => Used(s)' /\ s # t
    BY <2>2, <2>3 DEF Used
  <2>5. \A d \in Client : Creating(d)' =>
          /\ Creating(d) /\ d # c /\ call'[d].token = call[d].token
          /\ call[d].token \in Token /\ Used(call[d].token)
    BY <2>1, <2>2 DEF Creating, Typed, Knows, KnowsToken
  <2>6. k \in Token => Creating(c)
    BY <1>1 DEF Creating
  <2>7. /\ from \in Token => from = k /\ k \in Token
        /\ \A s \in Token \ {t} : token'[s].from = token[s].from
    BY <2>2, <2>3
  <2> HIDE DEF from, k, u
  <2>8. ATokenIsExchangedOnce'
    <3> SUFFICES ASSUME NEW x \in Token
                 PROVE  /\ \A s1, s2 \in Token :
                             token'[s1].from = x /\ token'[s2].from = x => s1 = s2
                        /\ x \in loggedOut => \A s \in Token : token'[s].from # x
      BY <1>1 DEF ATokenIsExchangedOnce
    <3>1. CASE x = from
      <4>1. /\ k \notin loggedOut /\ k = x /\ \A s \in Token : token[s].from # k
        BY <2>6, <2>7, <3>1 DEF Once, k
      <4> QED BY <2>3, <2>7, <4>1
    <3>2. CASE x # from
      BY <2>3, <2>7, <3>2 DEF Once, ATokenIsExchangedOnce
    <3> QED BY <3>1, <3>2
  <2>9. \A s, x \in Token : token'[s].from = x => Used(x)' /\ x \notin sessions'
    <3> SUFFICES ASSUME NEW s \in Token, NEW x \in Token, token'[s].from = x
                 PROVE  Used(x)' /\ x \notin sessions'
      OBVIOUS
    <3>1. CASE s = t
      <4>1. x = k /\ k \in Token /\ Used(k) /\ k \notin sessions
        BY <2>2, <2>3, <2>6, <2>7, <3>1, SessionsAssumption DEF Once, k
      <4> QED BY <2>3, <2>4, <4>1
    <3>2. CASE s # t
      <4>1. Used(x) /\ x \notin sessions
        BY <2>7, <3>2 DEF Once
      <4> QED BY <2>3, <2>4, <4>1
    <3> QED BY <3>1, <3>2
  <2>10. \A x \in loggedOut' : Used(x)' /\ x \notin sessions'
    BY <1>1, <2>3, <2>4 DEF Once, Typed, TypeOK
  <2>11. \A d \in Client : Creating(d)' =>
           /\ call'[d].token \notin sessions' \cup loggedOut'
           /\ \A s \in Token : token'[s].from # call'[d].token
    <3> SUFFICES ASSUME NEW d \in Client, Creating(d)'
                 PROVE  /\ call'[d].token \notin sessions' \cup loggedOut'
                        /\ \A s \in Token : token'[s].from # call'[d].token
      OBVIOUS
    <3>1. /\ call[d].token \notin sessions \cup loggedOut /\ call[d].token # t
          /\ \A s \in Token : token[s].from # call[d].token
      BY <2>4, <2>5 DEF Once
    <3>2. call[d].token # from
      BY <2>5, <2>6, <2>7 DEF Once, k
    <3> QED BY <1>1, <2>3, <2>5, <2>7, <3>1, <3>2
  <2>12. \A d, e \in Client :
           Creating(d)' /\ Creating(e)' /\ call'[d].token = call'[e].token => d = e
    BY <2>5 DEF Once
  <2> QED BY <2>8, <2>9, <2>10, <2>11, <2>12 DEF Once
<1> QED BY <1>2, <1>3 DEF CreateSession

(* The token is taken out of sessions by the request that exchanges it.     *)
LEMMA OnceExchange ==
  ASSUME Typed, Once, NEW c \in Client, Exchange(c)
  PROVE  Once'
<1> DEFINE k == call[c].token
<1>1. /\ call[c].pc = "exchange" /\ sessions' = sessions \ {k}
      /\ UNCHANGED <<owner, born, token, attempts, loggedOut, asked, now>>
      /\ Goto(c, IF k \in sessions THEN "create" ELSE "idle")
  BY DEF Exchange, At, DeleteSession, GetByTokenHash
<1>2. CASE k \notin sessions
  BY <1>1, <1>2, OnceEnd
<1>3. CASE k \in sessions
  <2>1. /\ call'[c].pc = "create" /\ call'[c].token = k
        /\ \A d \in Client \ {c} : call'[d] = call[d]
    BY <1>1, <1>3, GotoOf DEF Typed, PCs
  <2>2. k \in Token /\ Used(k) /\ loggedOut \subseteq Token
    BY <1>1 DEF Typed, TypeOK, Knows, KnowsToken
  <2>3. \A d \in Client \ {c} : Creating(d)' =>
          Creating(d) /\ call'[d].token = call[d].token /\ call[d].token # k
    BY <1>3, <2>1 DEF Creating, Once
  <2>4. /\ k \notin loggedOut /\ \A s \in Token : token[s].from # k
    BY <1>3, <2>2 DEF Once
  <2> HIDE DEF k
  <2>5. ATokenIsExchangedOnce'
    BY <1>1 DEF Once, ATokenIsExchangedOnce
  <2>6. /\ \A s, t \in Token : token'[s].from = t => Used(t)' /\ t \notin sessions'
        /\ \A t \in loggedOut' : Used(t)' /\ t \notin sessions'
    BY <1>1, <2>2 DEF Once, Used
  <2>7. \A d \in Client : Creating(d)' =>
          /\ call'[d].token \notin sessions' \cup loggedOut'
          /\ \A s \in Token : token'[s].from # call'[d].token
    <3> SUFFICES ASSUME NEW d \in Client, Creating(d)'
                 PROVE  /\ call'[d].token \notin sessions' \cup loggedOut'
                        /\ \A s \in Token : token'[s].from # call'[d].token
      OBVIOUS
    <3>1. CASE d = c
      BY <1>1, <2>1, <2>4, <3>1
    <3>2. CASE d # c
      BY <1>1, <2>3, <3>2 DEF Once
    <3> QED BY <3>1, <3>2
  <2>8. \A d, e \in Client :
          Creating(d)' /\ Creating(e)' /\ call'[d].token = call'[e].token => d = e
    BY <2>1, <2>3 DEF Once
  <2> QED BY <2>5, <2>6, <2>7, <2>8 DEF Once
<1> QED BY <1>2, <1>3

LEMMA OnceLogout ==
  ASSUME Typed, Once, NEW t \in Token, Logout(t)
  PROVE  Once'
<1>1. /\ sessions' = sessions \ {t}
      /\ loggedOut' = IF t \in sessions THEN loggedOut \cup {t} ELSE loggedOut
      /\ UNCHANGED <<owner, born, token, attempts, call, now>>
  BY DEF Logout, DeleteSession
<1>2. t \in sessions => Used(t) /\ \A s \in Token : token[s].from # t
  BY DEF Typed, TypeOK, Once, Used
<1>3. ATokenIsExchangedOnce'
  BY <1>1, <1>2 DEF Once, ATokenIsExchangedOnce
<1>4. /\ \A s, x \in Token : token'[s].from = x => Used(x)' /\ x \notin sessions'
      /\ \A x \in loggedOut' : Used(x)' /\ x \notin sessions'
  BY <1>1, <1>2 DEF Once, Used
<1>5. \A d \in Client : Creating(d)' =>
        /\ call'[d].token \notin sessions' \cup loggedOut'
        /\ \A s \in Token : token'[s].from # call'[d].token
  BY <1>1 DEF Once, Creating
<1>6. \A d, e \in Client :
        Creating(d)' /\ Creating(e)' /\ call'[d].token = call'[e].token => d = e
  BY <1>1 DEF Once, Creating
<1> QED BY <1>3, <1>4, <1>5, <1>6 DEF Once

LEMMA OnceNext ==
  ASSUME Typed, Once, [Next]_vars
  PROVE  Once'
<1>1. ASSUME NEW c \in Client, NEW e \in Email, Register(c, e)
      PROVE  Once'
  <2> DEFINE k == [Idle EXCEPT !.pc = "insert", !.email = e]
  <2>1. k.pc = "insert"
    BY DEF Idle
  <2>2. call' = [call EXCEPT ![c] = k] /\ UNCHANGED <<sessions, loggedOut, token>>
    BY <1>1 DEF Register
  <2> HIDE DEF k
  <2> QED BY <2>1, <2>2, OnceStart
<1>1a. ASSUME NEW c \in Client, NEW e \in Email, Login(c, e)
      PROVE  Once'
  <2> DEFINE k == [Idle EXCEPT !.pc = "find", !.email = e]
  <2>1. k.pc = "find"
    BY DEF Idle
  <2>2. call' = [call EXCEPT ![c] = k] /\ UNCHANGED <<sessions, loggedOut, token>>
    BY <1>1a DEF Login
  <2> HIDE DEF k
  <2> QED BY <2>1, <2>2, OnceStart
<1>2. ASSUME NEW c \in Client, NEW t \in Token, RefreshToken(c, t)
      PROVE  Once'
  <2>1. CASE UNCHANGED call
    BY <1>2, <2>1, OnceFrame DEF RefreshToken, Typed, Creating, Used
  <2>2. CASE call' = [call EXCEPT ![c] = [Idle EXCEPT !.pc = "owner",
                                            !.user = token[t].user, !.token = t]]
    <3> DEFINE k == [Idle EXCEPT !.pc = "owner", !.user = token[t].user, !.token = t]
    <3>1. k.pc = "owner"
      BY DEF Idle
    <3>2. call' = [call EXCEPT ![c] = k] /\ UNCHANGED <<sessions, loggedOut, token>>
      BY <1>2, <2>2 DEF RefreshToken
    <3> HIDE DEF k
    <3> QED BY <3>1, <3>2, OnceStart
  <2> QED BY <1>2, <2>1, <2>2 DEF RefreshToken
<1>3. ASSUME NEW c \in Client, NEW u \in User, DeleteUser(c, u)
      PROVE  Once'
  <2> DEFINE k == [Idle EXCEPT !.pc = "sessions", !.user = u]
  <2>1. k.pc = "sessions"
    BY DEF Idle
  <2>2. call' = [call EXCEPT ![c] = k] /\ UNCHANGED <<sessions, loggedOut, token>>
    BY <1>3 DEF DeleteUser
  <2> HIDE DEF k
  <2> QED BY <2>1, <2>2, OnceStart
<1>4. ASSUME NEW c \in Client, CheckPassword(c)
      PROVE  Once'
  <2>1. CASE Goto(c, "record")
    BY <1>4, <2>1, OnceGoto DEF CheckPassword, PCs
  <2>2. CASE call' = [call EXCEPT ![c] = [Idle EXCEPT !.pc = "touch",
                                            !.user = GetByEmail(call[c].email)]]
    <3> DEFINE k == [Idle EXCEPT !.pc = "touch", !.user = GetByEmail(call[c].email)]
    <3>1. k.pc = "touch"
      BY DEF Idle
    <3>2. call' = [call EXCEPT ![c] = k] /\ UNCHANGED <<sessions, loggedOut, token>>
      BY <1>4, <2>2 DEF CheckPassword
    <3> HIDE DEF k
    <3> QED BY <3>1, <3>2, OnceStart
  <2> QED BY <1>4, <2>1, <2>2 DEF CheckPassword
<1>5. ASSUME NEW c \in Client, UpdateLastLogin(c)
      PROVE  Once'
  <2>1. /\ call[c].pc = "touch" /\ (Goto(c, "create") \/ Goto(c, "idle"))
        /\ UNCHANGED <<owner, born, token, sessions, attempts, loggedOut, asked, now>>
    BY <1>5 DEF UpdateLastLogin, At
  <2>2. CASE Goto(c, "create")
    <3>1. /\ call'[c].token = call[c].token /\ \A d \in Client \ {c} : call'[d] = call[d]
      BY <2>2, GotoOf DEF Typed, PCs
    <3>2. call[c].token = None /\ None \notin Token
      BY <2>1, SessionsAssumption DEF Typed, Knows, KnowsToken
    <3>3. ~Creating(c)'
      BY <3>1, <3>2 DEF Creating
    <3> QED BY <2>1, <3>1, <3>3, OnceMove
  <2> QED BY <2>1, <2>2, OnceEnd
<1>6. ASSUME NEW c \in Client, RecordFailedAttempt(c) \/ RemoveUser(c) \/ Abort(c)
      PROVE  Once'
  BY <1>6, OnceEnd DEF RecordFailedAttempt, RemoveUser, Abort
<1>7. ASSUME NEW c \in Client, GetOwner(c)
      PROVE  Once'
  <2>1. /\ sessions' \subseteq sessions /\ UNCHANGED <<loggedOut, token>>
        /\ (Goto(c, "exchange") \/ Goto(c, "idle"))
    BY <1>7 DEF GetOwner, DeleteSession
  <2> QED BY <2>1, OnceEnd, OnceGoto DEF PCs
<1>8. ASSUME NEW c \in Client, DeleteByUserID(c)
      PROVE  Once'
  <2>1. /\ sessions' \subseteq sessions /\ UNCHANGED <<loggedOut, token>> /\ Goto(c, "remove")
    BY <1>8 DEF DeleteByUserID
  <2> QED BY <2>1, OnceGoto DEF PCs
<1>9. ASSUME NEW c \in Client, Step(c)
      PROVE  Once'
  BY <1>4, <1>5, <1>6, <1>7, <1>8, <1>9, OnceInsertUser, OnceCreateSession, OnceAnswer,
     OnceExchange DEF Step
<1>10. CASE Tick \/ UNCHANGED vars
  BY <1>10, OnceFrame DEF Tick, vars, Typed, Creating, Used
<1> QED BY <1>1, <1>2, <1>3, <1>9, <1>10, <1>1a, OnceLogout DEF Next

(* A refresh token is good for one thing: of all the refreshes and logouts  *)
(* it is presented to, one at most succeeds, in whatever order their        *)
(* statements run and wherever they stop.                                   *)
THEOREM ExchangedOnce == Spec => []ATokenIsExchangedOnce
<1>1. Typed /\ Once /\ [Next]_vars => Once'
  BY OnceNext
<1>2. Once => ATokenIsExchangedOnce
  BY DEF Once
<1> QED BY SessionsTyped, OnceInit, <1>1, <1>2, PTL DEF Spec
-------------------------------------------------------------------------------
(* A session ends only by a request that was asked for: what a request      *)
(* deletes is the token it was given, or is of the user it was told to      *)
(* delete.  The token need not have been delivered for that.                *)
Safe(t) == /\ Used(t) /\ token[t].from # "register"
           /\ t \notin asked /\ token[t].user \notin asked

Kept == \A t \in Token : Safe(t) => t \in sessions

LEMMA KeptInit == Init => Kept
BY DEF Init, Kept, Safe, Used, Unused

LEMMA KeptFrame ==
  ASSUME Kept, asked \subseteq asked',
         \A t \in Token : token'[t].from = token[t].from /\ token'[t].user = token[t].user,
         \A t \in sessions : t \in sessions' \/ t \in asked' \/ token[t].user \in asked'
  PROVE  Kept'
BY DEF Kept, Safe, Used

LEMMA KeptNext ==
  ASSUME Typed, Kept, [Next]_vars
  PROVE  Kept'
<1>1. CASE UNCHANGED <<token, sessions>> /\ asked \subseteq asked'
  BY <1>1, KeptFrame
<1>2. ASSUME NEW c \in Client, InsertUser(c)
      PROVE  Kept'
  <2>1. UNCHANGED <<sessions, asked>>
    BY <1>2 DEF InsertUser
  <2>2. ASSUME NEW u \in User, NEW t \in Token, NEW held \in Delivered,
               token' = Generated(t, u, "register", held)
        PROVE  Kept'
    <3>1. token'[t].from = "register" /\ \A s \in Token \ {t} : token'[s] = token[s]
      BY <2>2 DEF Generated, Typed, TypeOK
    <3> QED BY <2>1, <3>1 DEF Kept, Safe, Used
  <2> QED BY <1>1, <1>2, <2>1, <2>2 DEF InsertUser
<1>3. ASSUME NEW c \in Client, CreateSession(c)
      PROVE  Kept'
  <2>1. asked' = asked
    BY <1>3 DEF CreateSession
  <2>2. ASSUME NEW t \in Token, NEW u, NEW from, NewSession(t, u, from)
        PROVE  Kept'
    <3>1. sessions' = sessions \cup {t} /\ \A s \in Token \ {t} : token'[s] = token[s]
      BY <2>2 DEF NewSession, Generated, Typed, TypeOK
    <3> QED BY <2>1, <3>1 DEF Kept, Safe, Used
  <2> QED BY <1>1, <1>3, <2>1, <2>2 DEF CreateSession
<1>4. ASSUME NEW c \in Client, Answer(c)
      PROVE  Kept'
  <2>1. \A t \in Token : token'[t].from = token[t].from /\ token'[t].user = token[t].user
    BY <1>4 DEF Answer, Typed, TypeOK, TokenRow
  <2> QED BY <1>4, <2>1, KeptFrame DEF Answer
<1>5. ASSUME NEW c \in Client, GetOwner(c) \/ Exchange(c)
      PROVE  Kept'
  <2>1. call[c].token \in asked
    BY <1>5 DEF GetOwner, Exchange, At, Typed, Knows, KnowsToken
  <2>2. UNCHANGED <<token, asked>> /\ sessions \ {call[c].token} \subseteq sessions'
    BY <1>5 DEF GetOwner, Exchange, DeleteSession
  <2> QED BY <2>1, <2>2, KeptFrame
<1>6. ASSUME NEW t \in Token, Logout(t)
      PROVE  Kept'
  BY <1>6, KeptFrame DEF Logout, DeleteSession
<1>7. ASSUME NEW c \in Client, DeleteByUserID(c) \/ RemoveUser(c)
      PROVE  Kept'
  <2>1. call[c].user \in asked
    BY <1>7 DEF DeleteByUserID, RemoveUser, At, Typed, Knows, KnowsUser
  <2>2. UNCHANGED <<token, asked>> /\ sessions \ OwnedBy(call[c].user) \subseteq sessions'
    BY <1>7 DEF DeleteByUserID, RemoveUser
  <2> QED BY <2>1, <2>2, KeptFrame DEF OwnedBy
<1>8. ASSUME NEW c \in Client, Step(c)
      PROVE  Kept'
  BY <1>1, <1>2, <1>3, <1>4, <1>5, <1>7, <1>8
     DEF Step, CheckPassword, RecordFailedAttempt, UpdateLastLogin, Abort
<1>9. ASSUME NEW c \in Client, NEW e \in Email, Register(c, e) \/ Login(c, e)
      PROVE  Kept'
  BY <1>1, <1>9 DEF Register, Login
<1>10. ASSUME NEW c \in Client, NEW t, RefreshToken(c, t) \/ DeleteUser(c, t)
       PROVE  Kept'
  BY <1>1, <1>10 DEF RefreshToken, DeleteUser
<1>11. CASE Tick \/ UNCHANGED vars
  BY <1>1, <1>11 DEF Tick, vars
<1> QED BY <1>6, <1>8, <1>9, <1>10, <1>11 DEF Next

(* A client that has a token, and has neither used it nor asked for the     *)
(* deletion of its account, still has its session: no other request, and no *)
(* failure of one, ends it.                                                 *)
THEOREM TokensKeepWorking == Spec => []HeldTokensWork
<1>1. Typed /\ Kept /\ [Next]_vars => Kept'
  BY KeptNext
<1>2. Typed /\ Kept => HeldTokensWork
  BY DEF Typed, TokensHaveUsers, Kept, Safe, HeldTokensWork, Unused
<1> QED BY SessionsTyped, KeptInit, <1>1, <1>2, PTL DEF Spec
-------------------------------------------------------------------------------
(* The requests that have passed the count of the failed attempts are added *)
(* to what is recorded: one that passes finds fewer than the limit.         *)
Trying(e) == {c \in Client : call[c].pc \in {"find", "record"} /\ call[c].email = e}
Bounded(R, T) == Cardinality(R) + Cardinality(T) <= MaxFailedAttempts - 1 + Cardinality(Client)
Counted(e) ==
  {i \in DOMAIN attempts[e] : attempts[e][i] + FailedAttemptWindow >= now}
AttemptsBounded == \A e \in Email : Bounded(Counted(e), Trying(e))

LEMMA BoundedShrinks ==
  ASSUME NEW R, NEW T, NEW Q, NEW S, IsFiniteSet(R), IsFiniteSet(T),
         Q \subseteq R, S \subseteq T, Bounded(R, T)
  PROVE  Bounded(Q, S)
<1>1. /\ Cardinality(Q) <= Cardinality(R) /\ Cardinality(S) <= Cardinality(T)
      /\ IsFiniteSet(Q) /\ IsFiniteSet(S)
  BY FS_Subset
<1>2. /\ Cardinality(R) \in Nat /\ Cardinality(T) \in Nat /\ Cardinality(Q) \in Nat
      /\ Cardinality(S) \in Nat /\ Cardinality(Client) \in Nat
  BY <1>1, FS_CardinalityType, SessionsAssumption
<1> QED BY <1>1, <1>2, SessionsAssumption DEF Bounded

LEMMA BoundedStarts ==
  ASSUME NEW R, NEW T, IsFiniteSet(R), T \subseteq Client, Cardinality(R) < MaxFailedAttempts
  PROVE  Bounded(R, T)
<1>1. Cardinality(T) <= Cardinality(Client) /\ IsFiniteSet(T)
  BY FS_Subset, SessionsAssumption
<1>2. Cardinality(R) \in Nat /\ Cardinality(T) \in Nat /\ Cardinality(Client) \in Nat
  BY <1>1, FS_CardinalityType, SessionsAssumption
<1> QED BY <1>1, <1>2, SessionsAssumption DEF Bounded

LEMMA BoundedMoves ==
  ASSUME NEW R, NEW T, IsFiniteSet(R), IsFiniteSet(T), NEW i, NEW c \in T, Bounded(R, T)
  PROVE  Bounded(R \cup {i}, T \ {c})
<1>1. /\ Cardinality(R \cup {i}) \in {Cardinality(R), Cardinality(R) + 1}
      /\ Cardinality(T \ {c}) = Cardinality(T) - 1
  BY FS_AddElement, FS_RemoveElement
<1>2. Cardinality(R) \in Nat /\ Cardinality(T) \in Nat /\ Cardinality(Client) \in Nat
  BY FS_CardinalityType, SessionsAssumption
<1> QED BY <1>1, <1>2, SessionsAssumption DEF Bounded

LEMMA SetsAreFinite ==
  ASSUME TypeOK, NEW e \in Email
  PROVE  IsFiniteSet(Counted(e)) /\ IsFiniteSet(Trying(e)) /\ Trying(e) \subseteq Client
<1>1. DOMAIN attempts[e] = 1 .. Len(attempts[e]) /\ Len(attempts[e]) \in Nat
  BY DEF TypeOK
<1>2. IsFiniteSet(DOMAIN attempts[e])
  BY <1>1, FS_Interval
<1> QED BY <1>2, FS_Subset, SessionsAssumption DEF Counted, Trying

LEMMA AttemptsInit == Init => AttemptsBounded
<1> SUFFICES ASSUME Init, NEW e \in Email PROVE Bounded(Counted(e), Trying(e))
  BY DEF AttemptsBounded
<1>1. Counted(e) = {} /\ Trying(e) = {}
  BY DEF Init, Counted, Trying, Idle
<1>2. Cardinality(Counted(e)) = 0 /\ Cardinality(Client) \in Nat
  BY <1>1, FS_EmptySet, FS_CardinalityType, SessionsAssumption
<1> QED BY <1>1, <1>2, FS_EmptySet, SessionsAssumption DEF Bounded

(* No request passes the count and nothing is recorded.                     *)
LEMMA AttemptsFrame ==
  ASSUME TypeOK, now' \in Nat, now <= now', attempts' = attempts, AttemptsBounded,
         \A c \in Client : call'[c].pc \in {"find", "record"} =>
           call[c].pc \in {"find", "record"} /\ call'[c].email = call[c].email
  PROVE  AttemptsBounded'
<1> SUFFICES ASSUME NEW e \in Email
             PROVE  Bounded(Counted(e), Trying(e))'
  BY DEF AttemptsBounded
<1>1. Counted(e)' \subseteq Counted(e)
  <2> SUFFICES ASSUME NEW i \in DOMAIN attempts[e],
                      attempts[e][i] + FailedAttemptWindow >= now'
               PROVE  attempts[e][i] + FailedAttemptWindow >= now
    BY DEF Counted
  <2>1. attempts[e][i] \in Nat /\ now \in Nat
    BY DEF TypeOK
  <2> QED BY <2>1, SessionsAssumption
<1>2. Trying(e)' \subseteq Trying(e)
  BY DEF Trying
<1>3. Bounded(Counted(e), Trying(e)) /\ IsFiniteSet(Counted(e)) /\ IsFiniteSet(Trying(e))
  BY SetsAreFinite DEF AttemptsBounded
<1>4. Bounded(Counted(e)', Trying(e)')
  BY <1>1, <1>2, <1>3, BoundedShrinks
<1> QED BY <1>4 DEF Bounded

LEMMA AttemptsLogin ==
  ASSUME TypeOK, AttemptsBounded, NEW c \in Client, NEW e \in Email, Login(c, e)
  PROVE  AttemptsBounded'
<1> DEFINE k == [Idle EXCEPT !.pc = "find", !.email = e]
<1>1. k.pc = "find" /\ k.email = e
  BY DEF Idle
<1>2. /\ call' = [call EXCEPT ![c] = k] /\ attempts' = attempts /\ now' = now
      /\ Recent(e) < MaxFailedAttempts
  BY DEF Login
<1> HIDE DEF k
<1>3. call'[c] = k /\ \A d \in Client \ {c} : call'[d] = call[d]
  BY <1>2 DEF TypeOK
<1> SUFFICES ASSUME NEW f \in Email
             PROVE  Bounded(Counted(f), Trying(f))'
  BY DEF AttemptsBounded
<1>4. Counted(f)' = Counted(f) /\ Trying(f)' \subseteq Client
  BY <1>2 DEF Counted, Trying
<1>5. IsFiniteSet(Counted(f)) /\ IsFiniteSet(Trying(f))
  BY SetsAreFinite
<1>6. CASE f = e
  <2>1. Cardinality(Counted(f)) < MaxFailedAttempts
    BY <1>2, <1>6 DEF Recent, Counted
  <2> QED BY <1>4, <1>5, <2>1, BoundedStarts DEF Bounded
<1>7. CASE f # e
  <2>1. Trying(f)' \subseteq Trying(f)
    BY <1>1, <1>3, <1>7 DEF Trying
  <2>2. Bounded(Counted(f)', Trying(f)')
    BY <1>4, <1>5, <2>1, BoundedShrinks DEF AttemptsBounded
  <2> QED BY <2>2 DEF Bounded
<1> QED BY <1>6, <1>7

LEMMA AttemptsRecord ==
  ASSUME Typed, AttemptsBounded, NEW c \in Client, RecordFailedAttempt(c)
  PROVE  AttemptsBounded'
<1> DEFINE e == call[c].email
<1>1. /\ call[c].pc = "record" /\ Goto(c, "idle") /\ now' = now
      /\ attempts' = [attempts EXCEPT ![e] = Append(@, now)]
  BY DEF RecordFailedAttempt, At
<1>2. e \in Email /\ TypeOK
  BY <1>1 DEF Typed, Knows, KnowsEmail
<1>3. call'[c] = Idle /\ \A d \in Client \ {c} : call'[d] = call[d]
  BY <1>1, <1>2, EndOf
<1> HIDE DEF e
<1> SUFFICES ASSUME NEW f \in Email
             PROVE  Bounded(Counted(f), Trying(f))'
  BY DEF AttemptsBounded
<1>4. IsFiniteSet(Counted(f)) /\ IsFiniteSet(Trying(f)) /\ Bounded(Counted(f), Trying(f))
  BY <1>2, SetsAreFinite DEF AttemptsBounded
<1>5. CASE f = e
  <2> DEFINE i == Len(attempts[e]) + 1
  <2>1. /\ attempts[e] \in Seq(Nat) /\ attempts'[e] = Append(attempts[e], now)
    BY <1>1, <1>2 DEF TypeOK
  <2>2. /\ DOMAIN attempts'[e] = DOMAIN attempts[e] \cup {i}
        /\ \A j \in DOMAIN attempts[e] : attempts'[e][j] = attempts[e][j]
    BY <2>1
  <2>3. Counted(f)' \subseteq Counted(f) \cup {i}
    BY <1>1, <1>5, <2>2 DEF Counted
  <2>4. Trying(f)' \subseteq Trying(f) \ {c} /\ c \in Trying(f)
    BY <1>1, <1>3, <1>5 DEF Trying, Idle, e
  <2>5. Bounded(Counted(f) \cup {i}, Trying(f) \ {c})
    BY <1>4, <2>4, BoundedMoves
  <2>6. IsFiniteSet(Counted(f) \cup {i}) /\ IsFiniteSet(Trying(f) \ {c})
    BY <1>4, FS_AddElement, FS_RemoveElement
  <2>7. Bounded(Counted(f)', Trying(f)')
    BY <2>3, <2>4, <2>5, <2>6, BoundedShrinks
  <2> QED BY <2>7 DEF Bounded
<1>6. CASE f # e
  <2>1. Counted(f)' \subseteq Counted(f)
    BY <1>1, <1>2, <1>6 DEF Counted, TypeOK
  <2>2. Trying(f)' \subseteq Trying(f)
    BY <1>3, <1>6 DEF Trying, Idle
  <2>3. Bounded(Counted(f)', Trying(f)')
    BY <1>4, <2>1, <2>2, BoundedShrinks
  <2> QED BY <2>3 DEF Bounded
<1> QED BY <1>5, <1>6

(* A request that starts, goes on or ends, where it is not about to record. *)
LEMMA AttemptsMove ==
  ASSUME TypeOK, AttemptsBounded, NEW c \in Client, NEW k, k.pc \notin {"find", "record"},
         call' = [call EXCEPT ![c] = k], UNCHANGED <<attempts, now>>
  PROVE  AttemptsBounded'
<1>1. call'[c] = k /\ (\A d \in Client \ {c} : call'[d] = call[d]) /\ now \in Nat
  BY DEF TypeOK
<1> QED BY <1>1, AttemptsFrame

LEMMA AttemptsGoto ==
  ASSUME TypeOK, AttemptsBounded, NEW c \in Client, NEW pc \in PCs \ {"find"}, Goto(c, pc),
         pc = "record" => call[c].pc = "find", UNCHANGED <<attempts, now>>
  PROVE  AttemptsBounded'
<1>1. now \in Nat
  BY DEF TypeOK
<1>2. CASE pc = "idle"
  BY <1>1, <1>2, EndOf, AttemptsFrame DEF Idle
<1>3. CASE pc # "idle"
  BY <1>1, <1>3, GotoOf, AttemptsFrame
<1> QED BY <1>2, <1>3

LEMMA AttemptsNext ==
  ASSUME Typed, AttemptsBounded, [Next]_vars
  PROVE  AttemptsBounded'
<1> USE DEF Typed
<1>1. ASSUME NEW c \in Client, NEW e \in Email, Register(c, e)
      PROVE  AttemptsBounded'
  <2> DEFINE k == [Idle EXCEPT !.pc = "insert", !.email = e]
  <2>1. k.pc = "insert"
    BY DEF Idle
  <2>2. call' = [call EXCEPT ![c] = k] /\ UNCHANGED <<attempts, now>>
    BY <1>1 DEF Register
  <2> HIDE DEF k
  <2> QED BY <2>1, <2>2, AttemptsMove
<1>2. ASSUME NEW c \in Client, NEW t \in Token, RefreshToken(c, t)
      PROVE  AttemptsBounded'
  <2>1. CASE UNCHANGED call
    BY <1>2, <2>1, AttemptsFrame DEF RefreshToken, TypeOK
  <2>2. CASE call' = [call EXCEPT ![c] = [Idle EXCEPT !.pc = "owner",
                                            !.user = token[t].user, !.token = t]]
    <3> DEFINE k == [Idle EXCEPT !.pc = "owner", !.user = token[t].user, !.token = t]
    <3>1. k.pc = "owner"
      BY DEF Idle
    <3>2. call' = [call EXCEPT ![c] = k] /\ UNCHANGED <<attempts, now>>
      BY <1>2, <2>2 DEF RefreshToken
    <3> HIDE DEF k
    <3> QED BY <3>1, <3>2, AttemptsMove
  <2> QED BY <1>2, <2>1, <2>2 DEF RefreshToken
<1>3. ASSUME NEW c \in Client, NEW u \in User, DeleteUser(c, u)
      PROVE  AttemptsBounded'
  <2> DEFINE k == [Idle EXCEPT !.pc = "sessions", !.user = u]
  <2>1. k.pc = "sessions"
    BY DEF Idle
  <2>2. call' = [call EXCEPT ![c] = k] /\ UNCHANGED <<attempts, now>>
    BY <1>3 DEF DeleteUser
  <2> HIDE DEF k
  <2> QED BY <2>1, <2>2, AttemptsMove
<1>4. ASSUME NEW c \in Client, CheckPassword(c)
      PROVE  AttemptsBounded'
  <2>1. CASE Goto(c, "record")
    BY <1>4, <2>1, AttemptsGoto DEF CheckPassword, At, PCs
  <2>2. CASE call' = [call EXCEPT ![c] = [Idle EXCEPT !.pc = "touch",
                                            !.user = GetByEmail(call[c].email)]]
    <3> DEFINE k == [Idle EXCEPT !.pc = "touch", !.user = GetByEmail(call[c].email)]
    <3>1. k.pc = "touch"
      BY DEF Idle
    <3>2. call' = [call EXCEPT ![c] = k] /\ UNCHANGED <<attempts, now>>
      BY <1>4, <2>2 DEF CheckPassword
    <3> HIDE DEF k
    <3> QED BY <3>1, <3>2, AttemptsMove
  <2> QED BY <1>4, <2>1, <2>2 DEF CheckPassword
<1>5. ASSUME NEW c \in Client, CreateSession(c)
      PROVE  AttemptsBounded'
  <2>1. UNCHANGED <<attempts, now>>
    BY <1>5 DEF CreateSession
  <2>2. CASE Goto(c, "idle")
    BY <2>1, <2>2, AttemptsGoto DEF PCs
  <2>3. ASSUME NEW t \in Token, call' = [call EXCEPT ![c].pc = "answer", ![c].token = t]
        PROVE  AttemptsBounded'
    <3>1. call'[c].pc = "answer" /\ (\A d \in Client \ {c} : call'[d] = call[d])
      BY <2>3, AnswerOf
    <3>2. now \in Nat /\ "answer" \notin {"find", "record"}
      BY DEF TypeOK
    <3> QED BY <2>1, <3>1, <3>2, AttemptsFrame
  <2> QED BY <1>5, <2>2, <2>3 DEF CreateSession
<1>6. ASSUME NEW c \in Client, NEW pc \in PCs \ {"find", "record"}, Goto(c, pc),
             UNCHANGED <<attempts, now>>
      PROVE  AttemptsBounded'
  BY <1>6, AttemptsGoto
<1>7. ASSUME NEW c \in Client,
             \/ InsertUser(c) \/ UpdateLastLogin(c) \/ Answer(c) \/ GetOwner(c) \/ Exchange(c)
             \/ DeleteByUserID(c) \/ RemoveUser(c) \/ Abort(c)
      PROVE  AttemptsBounded'
  <2>1. UNCHANGED <<attempts, now>>
    BY <1>7 DEF InsertUser, UpdateLastLogin, Answer, GetOwner, Exchange, DeleteByUserID,
                RemoveUser, Abort
  <2>2. \E pc \in {"idle", "create", "exchange", "remove"} : Goto(c, pc)
    BY <1>7 DEF InsertUser, UpdateLastLogin, Answer, GetOwner, Exchange, DeleteByUserID,
                RemoveUser, Abort
  <2> QED BY <1>6, <2>1, <2>2 DEF PCs
<1>8. ASSUME NEW c \in Client, Step(c)
      PROVE  AttemptsBounded'
  BY <1>4, <1>5, <1>7, <1>8, AttemptsRecord DEF Step
<1>9. CASE Tick \/ UNCHANGED vars
  <2>1. UNCHANGED <<attempts, call>> /\ now \in Nat /\ now' \in Nat /\ now <= now'
    BY <1>9 DEF Tick, vars, TypeOK
  <2> QED BY <2>1, AttemptsFrame
<1>10. ASSUME NEW t \in Token, Logout(t)
       PROVE  AttemptsBounded'
  BY <1>10, AttemptsFrame DEF Logout, TypeOK
<1> QED BY <1>1, <1>2, <1>3, <1>8, <1>9, <1>10, AttemptsLogin DEF Next

(* The attempts recorded within one window exceed the limit by no more than *)
(* the requests that run at the same time, although the count of them, the  *)
(* password and the record are steps of their own.                          *)
THEOREM AttemptsAreBounded == Spec => []FailedAttemptsAreBounded
<1>1. Typed /\ AttemptsBounded /\ [Next]_vars => AttemptsBounded'
  BY AttemptsNext
<1>2. Typed /\ AttemptsBounded => FailedAttemptsAreBounded
  <2> SUFFICES ASSUME Typed, AttemptsBounded, NEW e \in Email
               PROVE  Bounded(Counted(e), {c \in Client : At(c, "record") /\ call[c].email = e})
    BY DEF FailedAttemptsAreBounded, Bounded, Recent, Counted
  <2>1. {c \in Client : At(c, "record") /\ call[c].email = e} \subseteq Trying(e)
    BY DEF At, Trying
  <2> QED BY <2>1, SetsAreFinite, BoundedShrinks DEF Typed, AttemptsBounded
<1> QED BY SessionsTyped, AttemptsInit, <1>1, <1>2, PTL DEF Spec
===============================================================================
