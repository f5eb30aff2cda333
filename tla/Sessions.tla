-------------------------------- MODULE Sessions --------------------------------
(* Accounts and their sessions: internal/auth (auth_service.go,             *)
(* token_service.go) over the tables users, sessions and                    *)
(* failed_login_attempts (repository/user_repository.go,                    *)
(* session_repository.go).                                                  *)
(*                                                                          *)
(* Client[c] is one request at a time of the API.  A step is one SQL        *)
(* statement together with the code up to the next one: the statements of a *)
(* request are not in a transaction.  A refresh token is named by the jti   *)
(* that makes it (and its hash) unique, a user by the id of its row, which  *)
(* is not used again when the same e-mail address registers anew.           *)
EXTENDS Naturals, Sequences, FiniteSets

CONSTANTS
  Email,                \* e-mail addresses
  User,                 \* ids of rows of users
  Token,                \* refresh tokens
  Client,               \* requests that run at the same time
  MaxFailedAttempts,    \* 5
  FailedAttemptWindow,  \* 15 minutes
  RefreshTokenExpiry,   \* 7 days
  MayFail,              \* whether a request may end with an error at any statement
  None,                 \* no user, no token
  MaxTime               \* bound on the clock

ASSUME SessionsAssumption ==
  /\ IsFiniteSet(Client)
  /\ None \notin User \cup Token
  /\ Token \cap {"none", "login", "register"} = {}
  /\ MaxFailedAttempts \in Nat \ {0} /\ FailedAttemptWindow \in Nat
  /\ RefreshTokenExpiry \in Nat \ {0}
  /\ MayFail \in BOOLEAN /\ MaxTime \in Nat

VARIABLES
  owner,      \* owner[e]: the user row with address e
  born,       \* the ids that were ever given to a row
  token,      \* token[t]: the refresh token t, if it was generated
  sessions,   \* the tokens with a row in sessions
  attempts,   \* attempts[e]: times of the rows of failed_login_attempts
  call,       \* call[c]: what request c is doing
  loggedOut,  \* tokens whose logout has deleted a session
  asked,      \* tokens presented to refresh or logout, users told to be deleted
  now

vars == <<owner, born, token, sessions, attempts, call, loggedOut, asked, now>>

(* from is the token it replaces, "login" or "register"; held is whether    *)
(* the client has received it.                                              *)
Unused == [user |-> None, from |-> "none", expires |-> 0, held |-> FALSE]
Idle   == [pc |-> "idle", email |-> None, user |-> None, token |-> None]

Init ==
  /\ owner = [e \in Email |-> None] /\ born = {}
  /\ token = [t \in Token |-> Unused]
  /\ sessions = {}
  /\ attempts = [e \in Email |-> << >>]
  /\ call = [c \in Client |-> Idle]
  /\ loggedOut = {} /\ asked = {}
  /\ now = 0

At(c, pc)   == call[c].pc = pc
Goto(c, pc) ==
  call' = [call EXCEPT ![c] = IF pc = "idle" THEN Idle ELSE [@ EXCEPT !.pc = pc]]

(* CountFailedAttempts: attempted_at >= now - window.                       *)
Recent(e) ==
  Cardinality({i \in DOMAIN attempts[e] : attempts[e][i] + FailedAttemptWindow >= now})

(* The jwt library refuses a token from its expiry on; the session row      *)
(* counts as expired after it.                                              *)
ValidToken(t)     == token[t].held /\ now < token[t].expires
SessionExpired(t) == now > token[t].expires

Generated(t, u, from, held) ==
  [token EXCEPT ![t] = [user |-> u, from |-> from, expires |-> now + RefreshTokenExpiry,
                        held |-> held]]

(* Rows of users, by their id and by their address, and a row that is        *)
(* inserted under the unique index on the address.                          *)
Exists(u)      == \E e \in Email : owner[e] = u
EmailExists(e) == owner[e] # None
GetByEmail(e)  == owner[e]

CreateUser(e, u) ==
  /\ u \notin born /\ ~EmailExists(e)
  /\ owner' = [owner EXCEPT ![e] = u]
  /\ born' = born \cup {u}

(* Rows of sessions, by the hash of their token.  The foreign key wants the  *)
(* user of a new one; a delete that finds no row is an error of its caller. *)
GetByTokenHash(t) == t \in sessions
OwnedBy(u)        == {t \in sessions : token[t].user = u}
DeleteSession(t)  == sessions' = sessions \ {t}

NewSession(t, u, from) ==
  /\ token[t] = Unused /\ Exists(u)
  /\ token' = Generated(t, u, from, FALSE)
  /\ sessions' = sessions \cup {t}

(* Whether an answer arrives.                                               *)
Delivered == IF MayFail THEN BOOLEAN ELSE {TRUE}

-------------------------------------------------------------------------------
(* POST /auth/register: the e-mail address is looked for, then the row is  *)
(* inserted under the unique index.  No session is created for the token    *)
(* that is returned.                                                        *)
Register(c, e) ==
  /\ At(c, "idle") /\ ~EmailExists(e)
  /\ call' = [call EXCEPT ![c] = [Idle EXCEPT !.pc = "insert", !.email = e]]
  /\ UNCHANGED <<owner, born, token, sessions, attempts, loggedOut, asked, now>>

InsertUser(c) ==
  LET e == call[c].email
  IN  /\ At(c, "insert")
      /\ IF EmailExists(e)
           THEN UNCHANGED <<owner, born, token>>
           ELSE \E u \in User, t \in Token, held \in Delivered :
                  /\ CreateUser(e, u)
                  /\ token[t] = Unused /\ token' = Generated(t, u, "register", held)
      /\ Goto(c, "idle")
      /\ UNCHANGED <<sessions, attempts, loggedOut, asked, now>>
-------------------------------------------------------------------------------
(* Mutation: one attempt too many.                                          *)
LoginAtLimit(c, e) ==
  /\ At(c, "idle") /\ Recent(e) <= MaxFailedAttempts
  /\ call' = [call EXCEPT ![c] = [Idle EXCEPT !.pc = "find", !.email = e]]
  /\ UNCHANGED <<owner, born, token, sessions, attempts, loggedOut, asked, now>>

(* POST /auth/login, up to the count of the failed attempts.                *)
Login(c, e) ==
  /\ At(c, "idle") /\ Recent(e) < MaxFailedAttempts
  /\ call' = [call EXCEPT ![c] = [Idle EXCEPT !.pc = "find", !.email = e]]
  /\ UNCHANGED <<owner, born, token, sessions, attempts, loggedOut, asked, now>>

(* Mutation: the user that was not found is used.                           *)
CheckPasswordOfNobody(c) ==
  /\ At(c, "find")
  /\ \/ Goto(c, "record")
     \/ call' = [call EXCEPT ![c] = [Idle EXCEPT !.pc = "touch",
                                        !.user = GetByEmail(call[c].email)]]
  /\ UNCHANGED <<owner, born, token, sessions, attempts, loggedOut, asked, now>>

(* GetByEmail and the comparison with the password hash.                    *)
CheckPassword(c) ==
  LET u == GetByEmail(call[c].email)
  IN  /\ At(c, "find")
      /\ \/ Goto(c, "record")
         \/ /\ u # None
            /\ call' = [call EXCEPT ![c] = [Idle EXCEPT !.pc = "touch", !.user = u]]
      /\ UNCHANGED <<owner, born, token, sessions, attempts, loggedOut, asked, now>>

RecordFailedAttempt(c) ==
  /\ At(c, "record")
  /\ attempts' = [attempts EXCEPT ![call[c].email] = Append(@, now)]
  /\ Goto(c, "idle")
  /\ UNCHANGED <<owner, born, token, sessions, loggedOut, asked, now>>

(* last_login_at, which fails when the user is gone.                        *)
UpdateLastLogin(c) ==
  /\ At(c, "touch")
  /\ Goto(c, IF Exists(call[c].user) THEN "create" ELSE "idle")
  /\ UNCHANGED <<owner, born, token, sessions, attempts, loggedOut, asked, now>>

(* Of a login and of a refresh: INSERT INTO sessions.                       *)
CreateSession(c) ==
  LET u == call[c].user
      from == IF call[c].token = None THEN "login" ELSE call[c].token
  IN  /\ At(c, "create")
      /\ IF ~Exists(u)
           THEN Goto(c, "idle") /\ UNCHANGED <<token, sessions>>
           ELSE \E t \in Token :
                  /\ NewSession(t, u, from)
                  /\ call' = [call EXCEPT ![c].pc = "answer", ![c].token = t]
      /\ UNCHANGED <<owner, born, attempts, loggedOut, asked, now>>

(* Login reads the user once more and does not look at the error: when the  *)
(* row is gone it panics, and the answer is lost with the token.            *)
Answer(c) ==
  LET t == call[c].token
  IN  /\ At(c, "answer")
      /\ token' = [token EXCEPT ![t].held = (@ \/ token[t].from # "login"
                                                \/ Exists(call[c].user))]
      /\ Goto(c, "idle")
      /\ UNCHANGED <<owner, born, sessions, attempts, loggedOut, asked, now>>
-------------------------------------------------------------------------------
(* POST /auth/refresh, up to GetByTokenHash.                                *)
RefreshToken(c, t) ==
  /\ At(c, "idle") /\ ValidToken(t)
  /\ asked' = asked \cup {t}
  /\ IF GetByTokenHash(t)
       THEN call' = [call EXCEPT ![c] = [Idle EXCEPT !.pc = "owner",
                                           !.user = token[t].user, !.token = t]]
       ELSE UNCHANGED call
  /\ UNCHANGED <<owner, born, token, sessions, attempts, loggedOut, now>>

(* The row of an expired session is deleted; else the user is read.         *)
GetOwner(c) ==
  LET t == call[c].token
  IN  /\ At(c, "owner")
      /\ IF SessionExpired(t) THEN DeleteSession(t) ELSE UNCHANGED sessions
      /\ Goto(c, IF ~SessionExpired(t) /\ Exists(call[c].user) THEN "exchange" ELSE "idle")
      /\ UNCHANGED <<owner, born, token, attempts, loggedOut, asked, now>>

(* Mutation: a delete that finds no row is not an error.                    *)
ExchangeAnyway(c) ==
  /\ At(c, "exchange")
  /\ DeleteSession(call[c].token)
  /\ Goto(c, "create")
  /\ UNCHANGED <<owner, born, token, attempts, loggedOut, asked, now>>

(* Mutation: all the sessions of the user are replaced by the new one.      *)
ExchangeAll(c) ==
  /\ At(c, "exchange")
  /\ sessions' = sessions \ OwnedBy(call[c].user)
  /\ Goto(c, IF call[c].token \in sessions THEN "create" ELSE "idle")
  /\ UNCHANGED <<owner, born, token, attempts, loggedOut, asked, now>>

(* Delete(session.ID): an error when the row is gone.                       *)
Exchange(c) ==
  /\ At(c, "exchange")
  /\ DeleteSession(call[c].token)
  /\ Goto(c, IF GetByTokenHash(call[c].token) THEN "create" ELSE "idle")
  /\ UNCHANGED <<owner, born, token, attempts, loggedOut, asked, now>>

(* POST /auth/logout.                                                       *)
Logout(t) ==
  /\ ValidToken(t)
  /\ DeleteSession(t)
  /\ loggedOut' = IF t \in sessions THEN loggedOut \cup {t} ELSE loggedOut
  /\ asked' = asked \cup {t}
  /\ UNCHANGED <<owner, born, token, attempts, call, now>>
-------------------------------------------------------------------------------
(* DELETE /auth/me.  Access tokens are not stored anywhere: one of a user   *)
(* that is gone is still accepted.  (MailStore has the objects it deletes.) *)
DeleteUser(c, u) ==
  /\ At(c, "idle") /\ Exists(u)
  /\ call' = [call EXCEPT ![c] = [Idle EXCEPT !.pc = "sessions", !.user = u]]
  /\ asked' = asked \cup {u}
  /\ UNCHANGED <<owner, born, token, sessions, attempts, loggedOut, now>>

(* An error of DeleteByUserID is only logged.                               *)
DeleteByUserID(c) ==
  /\ At(c, "sessions")
  /\ \/ sessions' = sessions \ OwnedBy(call[c].user)
     \/ MayFail /\ UNCHANGED sessions
  /\ Goto(c, "remove")
  /\ UNCHANGED <<owner, born, token, attempts, loggedOut, asked, now>>

(* DELETE FROM users, whose cascade takes the sessions.                     *)
RemoveUser(c) ==
  /\ At(c, "remove")
  /\ owner' = [e \in Email |-> IF owner[e] = call[c].user THEN None ELSE owner[e]]
  /\ sessions' = sessions \ OwnedBy(call[c].user)
  /\ Goto(c, "idle")
  /\ UNCHANGED <<born, token, attempts, loggedOut, asked, now>>
-------------------------------------------------------------------------------
(* A statement fails, or its answer is lost, or the process is killed: the  *)
(* request ends where it is.                                                *)
Abort(c) ==
  /\ MayFail /\ ~At(c, "idle")
  /\ Goto(c, "idle")
  /\ UNCHANGED <<owner, born, token, sessions, attempts, loggedOut, asked, now>>

Tick ==
  /\ now < MaxTime
  /\ now' = now + 1
  /\ UNCHANGED <<owner, born, token, sessions, attempts, call, loggedOut, asked>>

Step(c) ==
  \/ InsertUser(c) \/ CheckPassword(c) \/ RecordFailedAttempt(c)
  \/ UpdateLastLogin(c) \/ CreateSession(c) \/ Answer(c) \/ GetOwner(c) \/ Exchange(c)
  \/ DeleteByUserID(c) \/ RemoveUser(c)
  \/ Abort(c)

Next ==
  \/ \E c \in Client :
       \/ \E e \in Email : Register(c, e) \/ Login(c, e)
       \/ \E t \in Token : RefreshToken(c, t)
       \/ \E u \in User : DeleteUser(c, u)
       \/ Step(c)
  \/ \E t \in Token : Logout(t)
  \/ Tick

Spec == Init /\ [][Next]_vars
-------------------------------------------------------------------------------
PCs == {"idle", "insert", "find", "record", "touch", "create", "answer", "owner", "exchange",
        "sessions", "remove"}

TokenRow == [user : User \cup {None}, from : Token \cup {"none", "login", "register"},
             expires : Nat, held : BOOLEAN]
Call     == [pc : PCs, email : Email \cup {None}, user : User \cup {None},
             token : Token \cup {None}]

(* A session is the row of a token that was generated for a user whose row  *)
(* is there: its deletion ends its sessions for good, those of a login or a *)
(* refresh under way included.  A request is past the check of the password *)
(* or of the token only with a user.                                        *)
TypeOK ==
  /\ owner \in [Email -> born \cup {None}] /\ born \subseteq User
  /\ token \in [Token -> TokenRow]
  /\ \A t \in Token : token[t].user \in born \cup {None}
  /\ sessions \subseteq Token
  /\ \A t \in sessions : token[t].user # None /\ Exists(token[t].user)
  /\ attempts \in [Email -> Seq(Nat)]
  /\ call \in [Client -> Call]
  /\ \A c \in Client :
       /\ call[c].user \in born \cup {None}
       /\ call[c].pc \in {"touch", "create", "answer", "owner", "exchange", "sessions", "remove"}
            => call[c].user # None
  /\ loggedOut \subseteq Token /\ asked \subseteq born \cup Token
  /\ now \in Nat

(* A refresh token is good for one thing: of all the refreshes and logouts  *)
(* it is presented to, at the same time or one after the other, one at most *)
(* succeeds, so that a login never has two live sessions, nor one after its *)
(* logout.                                                                  *)
ATokenIsExchangedOnce ==
  \A t \in Token :
    /\ \A s1, s2 \in Token : token[s1].from = t /\ token[s2].from = t => s1 = s2
    /\ t \in loggedOut => \A s \in Token : token[s].from # t

(* A client that has the token of a login or a refresh, and has neither     *)
(* used it nor asked for the deletion of its account, still has its         *)
(* session: nothing the other requests do, and none of their failures, ends *)
(* it.                                                                      *)
HeldTokensWork ==
  \A t \in Token :
    (/\ token[t].held /\ token[t].from # "register"
     /\ t \notin asked /\ token[t].user \notin asked) => t \in sessions

(* The attempts recorded in one window exceed the limit at most by the      *)
(* requests that run at the same time, although the count, the check of the *)
(* password and the record are three separate steps.                        *)
FailedAttemptsAreBounded ==
  \A e \in Email :
    Recent(e) + Cardinality({c \in Client : At(c, "record") /\ call[c].email = e})
      <= MaxFailedAttempts - 1 + Cardinality(Client)
===============================================================================
