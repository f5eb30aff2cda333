------------------------------ MODULE SmtpSession -------------------------------
(* One SMTP session: internal/smtp/session.go, against a client that sends  *)
(* one line at a time and reads each reply before the next.                 *)
(*                                                                          *)
(* A step is one line the session reads, with its reply.  The text of a     *)
(* message is a number of lines, each of the same size.  What the client    *)
(* takes to be the state of the transaction, by RFC 5321 and the replies,   *)
(* is kept apart from the state of the session, so that the two may differ. *)
(* The text itself is a letter: a message as module Mime has them, which    *)
(* the session hands to its callback as it is.                              *)
EXTENDS Mime

CONSTANTS
  Address,         \* addresses of recipients
  Sender,          \* addresses of senders, other than the empty one
  Null,            \* the sender of MAIL FROM:<>, and no sender
  MaxRecipients,   \* 100
  MaxMessageSize,  \* lines of text (25 MB)
  TLSConfigured,   \* whether STARTTLS is offered
  Letter,          \* the messages clients send
  MaxLines         \* bound on the lines the client sends as one text

ASSUME SmtpSessionAssumption ==
  /\ IsFiniteSet(Address) /\ Null \notin Sender
  /\ MaxRecipients \in Nat \ {0} /\ MaxMessageSize \in Nat /\ MaxLines \in Nat
  /\ TLSConfigured \in BOOLEAN /\ Letter \subseteq Message

VARIABLES
  session,  \* SessionState and where Run is
  active,   \* active aliases
  client,   \* what the client is sending and believes
  result,   \* the message that was processed and the e-mail stored of it
  astray    \* whether the session ever left a text before its end

sessionVars == <<session, active, client, result, astray>>

SessionInit ==
  /\ session = [pc |-> "command", tls |-> FALSE, ehlo |-> FALSE, from |-> Null,
                rcpts |-> << >>, size |-> 0]
  /\ active \in SUBSET Address
  /\ client = [mode |-> "command", from |-> Null, to |-> {}, sent |-> 0]
  /\ result = << >>
  /\ astray = FALSE

(* resetTransaction.                                                        *)
Reset(s) == [s EXCEPT !.from = Null, !.rcpts = << >>, !.size = 0]

(* The session reads a command.  When the client meant it as text, it takes *)
(* no notice of the reply.                                                  *)
Reads == session.pc = "command"
Heard(belief) ==
  IF client.mode = "command"
    THEN client' = belief /\ UNCHANGED astray
    ELSE /\ client.sent < MaxLines
         /\ client' = [client EXCEPT !.sent = @ + 1]
         /\ astray' = TRUE
Fresh == [client EXCEPT !.from = Null, !.to = {}]
-------------------------------------------------------------------------------
EHLO ==
  /\ Reads
  /\ session' = [Reset(session) EXCEPT !.ehlo = TRUE]
  /\ Heard(Fresh)
  /\ UNCHANGED <<active, result>>

(* Mutation: what was said in the clear is kept.                            *)
StartTLSKeepingState ==
  /\ Reads /\ TLSConfigured /\ ~session.tls /\ client.mode = "command"
  /\ session' = [session EXCEPT !.tls = TRUE]
  /\ client' = Fresh
  /\ UNCHANGED <<active, result, astray>>

(* A handshake that fails leaves the session as it was, reading on in the   *)
(* clear; when it succeeds, the session is as new.                          *)
StartTLS ==
  /\ Reads /\ TLSConfigured /\ ~session.tls /\ client.mode = "command"
  /\ session' = [Reset(session) EXCEPT !.tls = TRUE, !.ehlo = FALSE]
  /\ client' = Fresh
  /\ UNCHANGED <<active, result, astray>>

(* MAIL FROM in a transaction replaces its sender and leaves its            *)
(* recipients; the empty sender is stored as no sender.                     *)
Mail(from) ==
  /\ Reads /\ session.ehlo
  /\ session' = [session EXCEPT !.from = from]
  /\ Heard([client EXCEPT !.from = from])
  /\ UNCHANGED <<active, result>>

(* RCPT TO: the limit, the alias table (GetByFullAddress and is_active),    *)
(* then the recipients that are there already.                              *)
Rcpt(to) ==
  /\ Reads /\ session.from # Null
  /\ Len(session.rcpts) < MaxRecipients
  /\ to \in active
  /\ session' = [session EXCEPT !.rcpts = IF Contains(@, to) THEN @ ELSE Append(@, to)]
  /\ Heard([client EXCEPT !.to = @ \cup {to}])
  /\ UNCHANGED <<active, result>>

(* Only the recipients are asked for.                                       *)
Data ==
  /\ Reads /\ session.rcpts # << >>
  /\ session' = [session EXCEPT !.pc = "data", !.size = 0]
  /\ Heard([client EXCEPT !.mode = "text", !.sent = 0])
  /\ UNCHANGED <<active, result>>

Rset ==
  /\ Reads
  /\ session' = Reset(session)
  /\ Heard(Fresh)
  /\ UNCHANGED <<active, result>>

(* A line of text that is no command, or one that is refused: 5xx.  (A      *)
(* command of the client that is refused changes nothing.)                  *)
Other ==
  /\ Reads /\ client.mode = "text"
  /\ Heard(client)
  /\ UNCHANGED <<session, active, result>>
-------------------------------------------------------------------------------
(* Mutation: the limit is compared before the line is added.                *)
TextLineLate ==
  /\ session.pc = "data" /\ client.sent < MaxLines
  /\ session' = IF session.size > MaxMessageSize
                  THEN [Reset(session) EXCEPT !.pc = "command"]
                  ELSE [session EXCEPT !.size = @ + 1]
  /\ client' = [client EXCEPT !.sent = @ + 1]
  /\ UNCHANGED <<active, result, astray>>

(* readEmailData: past the limit 552 is sent at once, and Run goes on with  *)
(* the next line as a command, though the client is still sending the text. *)
TextLine ==
  /\ session.pc = "data" /\ client.sent < MaxLines
  /\ session' = IF session.size + 1 > MaxMessageSize
                  THEN [Reset(session) EXCEPT !.pc = "command"]
                  ELSE [session EXCEPT !.size = @ + 1]
  /\ client' = [client EXCEPT !.sent = @ + 1]
  /\ UNCHANGED <<active, result, astray>>

(* The deadline is set when the command is read, not with each line of the  *)
(* text.  When it passes, handleDATA returns without a reply and without    *)
(* resetting the transaction, and Run sets a new deadline and reads on.     *)
DataTimeout ==
  /\ session.pc = "data"
  /\ session' = [session EXCEPT !.pc = "command"]
  /\ astray' = TRUE
  /\ UNCHANGED <<active, client, result>>

(* The line with a dot alone: the end of the data, or no command.           *)
Dot ==
  /\ client.mode = "text" /\ session.pc \in {"command", "data"}
  /\ session' = [session EXCEPT !.pc = IF @ = "data" THEN "process" ELSE @]
  /\ client' = IF session.pc = "data" THEN [client EXCEPT !.mode = "wait"]
               ELSE [Fresh EXCEPT !.mode = "command"]
  /\ UNCHANGED <<active, result, astray>>

(* The callback: the message is parsed once and stored for each recipient   *)
(* (MailStore has the statements, their failures and the reply).            *)
Process ==
  /\ session.pc = "process"
  /\ \E m \in Letter : result' = <<m, ProcessEmail(m)>>
  /\ session' = [session EXCEPT !.pc = "reply"]
  /\ UNCHANGED <<active, client, astray>>

(* 250 or 451: either way the transaction is over.                          *)
Reply ==
  /\ session.pc = "reply"
  /\ session' = [Reset(session) EXCEPT !.pc = "command"]
  /\ client' = [Fresh EXCEPT !.mode = "command"]
  /\ result' = << >>
  /\ UNCHANGED <<active, astray>>

(* QUIT, the end of the connection, or ConnectionTimeout without a command. *)
Close ==
  /\ session.pc \in {"command", "data"}
  /\ session' = [session EXCEPT !.pc = "closed"]
  /\ UNCHANGED <<active, client, result, astray>>

(* Aliases are made, switched and deleted meanwhile (Domains).              *)
ChangeAlias(a) ==
  /\ active' = IF a \in active THEN active \ {a} ELSE active \cup {a}
  /\ UNCHANGED <<session, client, result, astray>>

SessionNext ==
  \/ EHLO \/ StartTLS \/ Data \/ Rset \/ Other
  \/ \E from \in Sender \cup {Null} : Mail(from)
  \/ \E a \in Address : Rcpt(a) \/ ChangeAlias(a)
  \/ TextLine \/ DataTimeout \/ Dot \/ Process \/ Reply \/ Close

SessionSpec == SessionInit /\ [][SessionNext]_sessionVars
-------------------------------------------------------------------------------
(* The list of recipients is never longer than its limit, and there are     *)
(* none before EHLO.                                                        *)
SessionTypeOK ==
  /\ session \in [pc : {"command", "data", "process", "reply", "closed"}, tls : BOOLEAN,
                  ehlo : BOOLEAN, from : Sender \cup {Null}, rcpts : Seq(Address),
                  size : 0..MaxMessageSize]
  /\ Len(session.rcpts) <= MaxRecipients
  /\ ~session.ehlo => session.from = Null /\ session.rcpts = << >>
  /\ active \subseteq Address
  /\ client \in [mode : {"command", "text", "wait"}, from : Sender \cup {Null},
                 to : SUBSET Address, sent : 0..MaxLines]
  /\ astray \in BOOLEAN

(* A message is processed for exactly the recipients, and from the sender,  *)
(* the client was told to be accepted in this transaction, each once, and   *)
(* whole: nothing is left over from a transaction before, however it ended, *)
(* nor from before STARTTLS, and nothing is cut off at the limit.  (Unless  *)
(* the session left a text before its end.  After DataTimeout the           *)
(* recipients stay for the next message.)                                   *)
EnvelopeIsWhatWasAccepted ==
  session.pc = "process" /\ ~astray =>
    /\ session.from = client.from
    /\ ToSet(session.rcpts) = client.to
    /\ IsInjective(session.rcpts)
    /\ session.size = client.sent /\ session.size <= MaxMessageSize

(* Every part of a message is stored as a body or as an attachment, with    *)
(* the exceptions Mime names: the two walks over the parts, of the parser   *)
(* (parser.go:229-443) and of the attachment handler (handler.go:77-177),   *)
(* do not pass one over between them.                                       *)
EveryPartIsAccountedFor == result # << >> => IsStored(result[1], result[2])
===============================================================================
