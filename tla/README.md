# A formal model of Persistent Temp Mail

This directory holds TLA+ modules that model the Persistent Temp Mail backend,
TLC configurations that check them on small instances, and proofs that TLAPS
checks for all instances. Paths below are relative to `src/backend/internal/`
unless they start with `src/`. `PROJECT.json` lists the components, runs,
mutants, hazards and theorems, and maps every definition to the lines it stands
for.

Run a model with `tlc -config X.cfg M`, check the proofs with
`tlapm SmtpServerProofs.tla` (and likewise for the other `*Proofs` modules).

## 1. The system

A Go backend receives mail over SMTP for aliases under the users' own domains,
stores it in PostgreSQL and its attachments in an S3 bucket, serves a REST API,
and tells browsers about changes through server-sent events. A certificate
service keeps TLS certificates for the domains. A Next.js frontend uses the
API. Two programs exist: `src/backend/cmd/server` (everything in one process)
and `src/backend/cmd/smtp` (reception alone, with an event bus of its own that
no stream listens to).

### Components, their state and operations

| Component | State | Operations | Hard because | Modelled in |
|---|---|---|---|---|
| Replay buffer (`events/event_store.go`) | list of events, index by ID, list per user; one mutex | Store, GetSince, Cleanup, Clear | three structures must agree; eviction; a reader's cursor may be gone | EventBuffer, EventStore, EventLog |
| Event bus (`events/event_bus.go`) | handlers per user; the buffer | Publish, Subscribe, unsubscribe, GetEventsSince | handlers are copied and then called without a lock | EventStream |
| Stream connections (`sse/`) | connections per user with closed flag and last ping | HandleStream, AddConnection, RemoveConnection, CleanupDeadConnections, heartbeat | handler, publishers, sweep and eviction all touch one connection | EventStream |
| SMTP server (`smtp/server.go`) | running flag, WaitGroup, active connections, counters and rate windows per address | accept loop, handleConnection, Stop | atomics, two mutexes, compare-and-swap, refusals half way | SmtpServer |
| SMTP session (`smtp/session.go`) | command state of one connection | EHLO, STARTTLS, MAIL, RCPT, DATA, RSET, QUIT | protocol order, deadlines, text read as commands | SmtpSession |
| Parser and extraction (`parser/`, `attachment/handler.go`) | none | SafeParse, ExtractAttachments | two walks over one nested structure, damaged input | Mime |
| Processor (`smtp/processor.go`, `smtp/adapters.go`, `attachment/handler.go`) | none of its own; writes S3, three tables, the bus | ProcessEmail for each recipient | four stores in sequence, errors of which only some are reported | MailStore |
| Deletions (`email/`, `alias/`, `domain/`, `auth/`) | none of their own; database and S3 | delete an email, several, an alias, a domain, a user | list, delete objects, delete rows, with no transaction around them | MailStore, Inbox, Domains |
| Orphan job (`storage/orphan_cleanup.go`) | a run's list of orphans | list, check against the database, delete | acts on what it read earlier | MailStore |
| Email API (`email/`) | none of its own | list, show, mark, delete, download, statistics | every answer is several statements | Inbox |
| Download limiter (`middleware/`) | requests per key | RateLimitDownload | depends on what another middleware leaves in the context | Inbox |
| Sessions (`auth/`, `repository/session_repository.go`) | sessions, failed attempts | register, login, refresh, logout, delete account | check and record are separate statements | Sessions |
| Domains and aliases (`domain/`, `alias/`) | domains with token and status, aliases | create, verify, update, delete | limits checked before the insert; whole-row updates; DNS changes | Domains |
| Certificates (`ssl/`) | claims and semaphores, certificate rows, files, memory cache, a scheduler | provision, renew, get, load at start | four copies of one fact, changed one after the other | Certificates |
| Frontend (`src/frontend/`) | access token, stream cursor | fetch, refresh, reconnect | concurrent refreshes | as the client of EventStream and Sessions |

### How they interact

- An accepted TCP connection becomes a goroutine that passes the SMTP server's
  limits and then runs a session. At the end of DATA the session calls the
  processor through a callback (`src/backend/cmd/server/main.go:661-680`).
- The processor publishes `new_email` on the bus, in the session's goroutine:
  it runs every subscribed stream's handler and so writes to the browsers.
- A stream registers with the connection manager, asks the bus for what it
  missed, subscribes, and waits for its client, a time-out, or for being closed
  by the manager (eviction at the limit, or the sweep of dead connections).
- API deletions and the orphan job share the database and the bucket with the
  processor and nothing else: no lock, no transaction, no queue. Only the
  foreign keys (cascades in migrations 004 to 006) and the age of an object
  coordinate them.
- Of the API services none is given the event bus
  (`src/backend/cmd/server/main.go:203-237`): new mail is the only thing that is
  ever published (sections 5 and 6).
- The certificate service and the domain service share the domains table. The
  domain service has an SSL service of its own (`domain/ssl_service.go`) which
  does nothing.

## 2. The modules

```
EventBuffer ----> EventStore ---implements---> EventLog
     \               ^------------- EventStoreProofs
      \                                   ^ (its lemmas about the buffer)
       `--------> EventStream <--- EventStreamProofs
SmtpServer  <--- SmtpServerProofs ---> SmtpSession <---- Mime
                                           `--- (complete message) ---> MailStore <--- MailStoreProofs
Inbox        <--- InboxProofs             (the same tables and objects)
Domains      <--- DomainsProofs
Sessions     <--- SessionsProofs
Certificates <--- CertificatesProofs
```

Each specification has an `MC*` module that adds the constants TLC needs. Where
a definition is preceded by "Mutation", it is a plausible bug in the definition
that follows it; `PROJECT.json` says which property notices it. No
specification uses these.

**EventBuffer** (operators). The three structures of `InMemoryEventStore` and
what each method does to them while the mutex is held: `Stored`, `Cleaned`,
`Recent` and `After` (the two halves of GetSince).

**EventStore** (state machine). Callers Store, Cleanup and Clear while one
client per user reads with the ID of the last event it was given as its cursor.
Time stamps are taken before Store and outside any lock, so the list need not be
sorted by time. `log` and `received` are history.

**EventLog** (abstract). A log whose older part is forgotten; a read returns a
run of the user's events that starts right after the cursor. `EventStore`
implements it: `owner` is the log's owners, `forgotten` the length of the log
minus that of the list, `cursor` and `got` what the clients were given.

**EventStream** (state machine). `conn[c]` is the handler goroutine of one
request: created, added, replaying, streaming, leaving, removed, returned, one
step per lock acquisition or write. `publishing[e]` is the Publish call of one
event: stored, then delivering to the copied handlers, each call being a look at
the closed flag (`CheckClosed`) and a later `Write`. Clients may go away or fall
silent; the sweep closes what looks dead. `Conn` numbers are the order of
CreatedAt.

**SmtpServer** (state machine). `handler[c]` is one connection's goroutine; its
stage says which of `wg`, `activeConns`, `ipConnections[i]` it holds. The
compare-and-swap loop is two steps, `LoadActiveConns` and `SwapActiveConns`.
Stop is three steps that run beside everything else.

**SmtpSession** (state machine). The server's side of one connection against a
client that sends whatever it likes, a line at a time. A text line is an input of
its own, because after an oversize or timed-out text the session reads what is
left of it as commands. A reply and the change of the envelope are one step; the
aliases of the database change between commands. The text of a message is a
`Letter`, one of the messages of module Mime, and what the session's callback
(`smtp/session.go:25`) makes of it is `ProcessEmail`; that a callback fails is
`MailStore`'s matter. `SessionSpec` and the like carry the prefix because
`SmtpServerProofs` extends `SmtpServer` and this module.

**Mime** (operators). A message is a tree of parts: leaves of a kind, a
disposition and an encoding, and multiparts in multiparts, as deep as `MaxNesting`.
`Parse` follows `parser.go` through it, with the recovery of `SafeParse`;
`ExtractFromPart` follows the attachment handler through the same tree with rules of
its own; sizes go through a base64 decoder that works as the code's does. The code's
recursive functions are recursive functions here (`ExtractMultipartGeneric`,
`ExtractFromPart`, and `Leaves` for what a message consists of), not RECURSIVE
operators, so that they can be proved about. `Base64` and `IsAccountedFor` are
the reference the two walks are held against: what the sender encoded, and what must
be stored of it. `MCSmtpSession` has the letters of the run.

**MailStore** (state machine). `session[m]` is the processing of one message,
`request[d]` one API deletion, `job` the orphan job's run; the tables and the
bucket are shared. Every call to a store is one step, and in a behaviour with
`faulty` every call may fail with or without effect and the process may die.
The processing context's deadline is `session[m].left`; when it is used up every
further call fails, in every behaviour. A failed upload may or may not have
stored its object. The cascades of the foreign keys are part of `DeleteRows`,
the foreign-key checks are guards of the inserts. Emails and an alias are deleted
with their objects, a domain and a user by the row alone: DeleteDomain has no storage
service to ask, and `AuthService` would use one but is built without.

**Inbox** (state machine). Requests that mark and delete emails, and that delete
an alias with all its mail, one statement or storage call each, and a reader that
walks through the pages of a list, asks for statistics or downloads, while mail
arrives and domains and users go. A deletion is the keys it lists
(`Delete`, `BulkDelete`, `DeleteAlias`), the objects, of which some may be left
(`DeleteObjects`), and the rows by ID (`DeleteRows`, `DeleteAliasRow`); it may end
after any of them. `condemned` are the emails some owner asked to delete, by
themselves or with their alias. The middlewares are modelled by
what one puts into the context and what the other looks for there.

**Domains** (state machine). Requests that create, verify and delete domains and
create, update and delete aliases, each statement a step that may fail or lose
its answer, while the owner of a zone changes its TXT record. The token of a
verification is the identity of the row. `resets` is history: how often an update
of a row took back its `ssl_enabled`.

**Sessions** (state machine). Clients that register, log in, refresh, log out
and delete the account, with the tokens they were given; every statement is a
step, a lost answer and a lost reply included; expiry of tokens and of the
window of failed attempts are steps of time.

**Certificates** (state machine). `call[p]` is a request, a handshake, the
scheduler's goroutine of a domain, or the loader at start. `certs` has both what
identifies a row ("row": an ID drawn by the repository, "domain": the domain's
ID) and its status, because which of the two an UPDATE selects by decides what
it changes.

## 3. The runs

| Run | Instance | Distinct states | Question |
|---|---|---|---|
| `event_store` | 2 users, list of 4, 5 events, reads of 2, clock 0..1 | 114,588 | do the structures agree, and is it an `EventLog`? |
| `event_stream_delivery` | 2 users, 2 streams, 3 events, list of 2, replay of 1 | 1,572,357 | who receives what, how often, and is the replay complete? |
| `event_stream_connections` | 1 user, 3 streams, limit 2, one disturbed client | 56,963 | are the open streams those that are counted, and do closed ones end? |
| `mail_store` | 1 message of 2 parts, 1 alias, 1 deletion, faults | 47,080 | do rows keep their objects, does the job spare uploads, does nothing outlive its parent, is announced mail complete, do orphans go, is DATA answered? |
| `smtp_server` | 4 connections of 1 address, 2 slots, 1 per address, rate 2, two windows | 1,006,572 | are the counters exact, do the limits hold, how far is the rate overrun? |
| `smtp_session` | 3 addresses, 2 senders, limits of 2, every letter of `MCLetter` | 281,604 | is the envelope of a message what was accepted, does every part end as body or attachment? |
| `inbox` | 3 emails, one with an attachment, 1 request, a reader, pages of 1, faults | 844,642 | how much may an answer miss, and whose attachments may be missing? |
| `domains` | 2 users, 2 names, 2 domains, 2 aliases, 2 requests, faults | 352,443 | does a verified owner control the zone, do limits hold up to races, how often can an update take SSL back? |
| `sessions` | 2 clients, 2 users, 3 tokens, faults | 1,230,522 | is a token exchanged once, do held tokens work, how many failed attempts get through? |
| `certificates` | 2 domains, 2 requests, 1 crash, faults | 179,769 | are claims exact, is an enabled domain covered, is what is served active, who changes a row? |

Two more runs state what a comment says and find the code doing something else:

| Run | What is said | What happens |
|---|---|---|
| `certificates_renewal` (20,328 states, fairness, no faults) | "Initiate renewal 30 days before expiration" (`ssl/scheduler.go:189`) | the renewal looks for the row by the domain's ID, does not find it, tries to create it and fails because it is there (`ssl/certmagic_service.go:200-230`, `ssl/repository.go:432`): no certificate is ever renewed |
| `inbox_downloads` | "Rate limit downloads to 100 per user per hour" (`src/backend/cmd/server/main.go:406`) | the limiter's context key is a string, the authentication's has a type of its own (`middleware/rate_limit.go:320`, `context/context.go:12`): it finds no user and lets everything pass |

### What the properties say

- **Events.** `StructuresAgree`: list, index and per-user lists tell the same.
  `ImplementsEventLog`: no client skips an event. `DuplicatesOnlyAcrossReplay`,
  `LiveEventsArrive`, `ReplayIsComplete`: twice only across a replay and never
  three times; nothing lost after Subscribe; the replay owes the buffer's events.
  `OpenStreamsAreCounted`: registered and open are the same, within the limit,
  and only streams past Subscribe are subscribed. `ClosedStreamsEnd` (liveness).
- **SMTP.** `CountersAreExact` and `LimitsHold` across every refusal and Stop;
  `AtMostTwiceTheRate`: the true bound of fixed windows. `EnvelopeIsWhatWasAccepted`:
  a message is stored for the sender and recipients that were answered 250 in its
  own transaction, and outside the case of a DATA time-out (history variable
  `astray`) no line of a text becomes part of an envelope. `EveryPartIsAccountedFor`
  names the exact cases in which the two walks of a message lose a part.
- **Stored mail.** `AttachmentsKeepTheirObjects`, `JobSparesUploads`,
  `NoRowOutlivesItsParent`, `AnnouncedMailIsComplete`, and in the long run
  `OrphansGo` and `DataIsAnswered`. `AnswersMissOnlyWhatMoved` bounds what a walk
  through pages with OFFSET, or three statements of statistics, can get wrong by
  what moved meanwhile. `MissingOnlyIfDeletionAsked`: a download without an object
  is one whose owner asked for the deletion, of the email or of its alias.
  `AnnouncedMailIsComplete` is stated for behaviours in which no call fails: an
  attachment batch that fails is only logged and the mail announced all the same
  (`smtp/processor.go:220-228`).
- **Accounts.** `VerifiedOwnersControlTheZone`: a name changes hands, old tokens
  remain in DNS, and still a verified domain is its prover's.
  `AliasesFollowTheirDomain`, `LimitsHoldUpToRaces` (by as many as run at the same
  time), `SSLIsResetOnlyByRaces` (a whole-row update takes `ssl_enabled` back fewer times than
  requests run together). `ATokenIsExchangedOnce`, `HeldTokensWork`,
  `FailedAttemptsAreBounded`.
- **Certificates.** `ClaimsAreExact`, `EnabledDomainIsCovered`,
  `ServedCertificatesAreActive`, `OnlyItsCreatorChangesARow`.

### Why the bounds are enough

- Event buffer: with 5 events and a list of 4 a list has been full, has evicted
  either user's event, was cleaned in part, and was cleared while a client's
  cursor was in it. After a cursor there may be three events of its user, so
  that reads of 2 are full, partial and cut off.
- Streams: two streams of one user, or one each of two users, with a buffer that
  overflows within the three events, and a stream that is opened with the cursor
  the other one left. The number of simultaneous Publish calls is bounded by
  `MaxInFlight`, the disturbed clients by `MaxDisturbed`. Eviction needs three
  streams at a limit of two, hence the second run.
- Stored mail: two parts make partial failure of an upload, of a batch of the
  job and of a deletion possible. Ages are ticks and only the order "context
  expired before object old" matters. Messages and recipients touch disjoint
  keys and meet only in the alias rows.
- SMTP server: four goroutines for two slots have two refusals and a reuse; four
  connections within the minute that straddles a window's end exceed the rate.
- SMTP session: two recipients of a limit of two and a third one refused; texts
  that are complete, oversize and unfinished; aliases come and go under three
  addresses, so that the known ones change between two commands.
- Inbox: pages of one over three emails have a first, a middle and a last page,
  two emails of the same time, one with an attachment. One request runs beside
  the reader and the mail: the reader and the mail are the other two actors of
  every race the properties name. `MailStore` too has one request, beside a
  reception and the job; two requests race in `Domains`, `Sessions` and
  `Certificates`.
- Domains and Sessions: two of everything races; a third token lets a client
  refresh a token that came from a refresh.
- Certificates: two domains for one slot of each semaphore, two requests beside
  the scheduler and the loader, one crash at any point.
- `Symmetry` is declared for values that no definition orders or names, and
  never in a run with a liveness property.

Deadlock is checked for `SmtpSession`, `Domains`, `Sessions` and `Certificates`,
which have an action at every moment. The other configurations say
`CHECK_DEADLOCK FALSE`: their models are bounded by counters (events, streams,
connections, messages, emails) and come to rest when these are used up.

### Fairness

`EventStream!FairSpec`: weak fairness of each handler's and each publisher's own
steps. A goroutine that can run does run, no lock is held across a step, and a
write to a client that has gone returns with an error. Nothing is assumed of
clients, of the connection time-out or of the sweep.

`MailStore!FairSpec`: weak fairness of a session's processing (it just goes on;
every call has a deadline), of the clock and of the job. Strong fairness of the
job's start, of the batch that finds a given orphan and of the batch that
deletes it: a run is started after every interval, and it is not the same call
that fails every time. `OrphansGo` is false without it, since a database that
never answers the job keeps every orphan. Requests owe nothing.

`Certificates!FairSpec`: weak fairness of every call and of the scheduler, strong
fairness of taking a slot (senders on a Go channel queue). The renewal is not
even made under these, so its violation is no matter of scheduling.

## 4. Proofs

Every proof is for any finite sets of actors and any values of the limits the
module's assumption allows; faults, crashes and bounds of the models are
parameters of the theorems as well. In each module one inductive invariant is
proved (`Init` implies it, every action keeps it, one lemma per action) and the
properties follow from it. Each was model-checked before it was proved.

**SmtpServerProofs**: `SmtpServerTypes` (no counter is ever negative),
`SmtpCountersAreExact`, `SmtpLimitsHold`. The invariant joins the three and adds
what a goroutine between load and swap knows: `seen`, the value it compared with
the limit, is below the limit. The swap only succeeds when `activeConns` is
still `seen`, so `activeConns` is at most the limit after it, whatever happened
in between. The counting rests on lemmas that say how the cardinality of "the
connections at these stages" changes when one connection moves: each action
moves exactly one.

`SmtpAtMostTwiceTheRate` needs what a window's counter has counted, and something
about the time before the window, since a minute may straddle its beginning:
`WindowsAreCounted` says that the counter is the number of connections let in
since the window began, that one was let in at its very beginning, and that fewer
than the rate came in the minute before that (the one at the beginning of the
window before it lies outside). A minute meets at most two windows, hence
2 * RateLimitPerMinute - 1.

The same module proves what a connection's session promises: `SmtpSessionTypes` and
`SmtpEnvelopes` (`EnvelopeIsWhatWasAccepted`), for any limits and any letters. The two envelopes, the session's and the one the client was told, are
the same at the moments that matter only because they are kept in step by every
command (`StaysInStep`), and also where the session has turned back to commands
while its client still sends text: then the session's envelope is empty, as
the client's will be after its last line.

And `SmtpEveryPartIsAccountedFor`: for every message, however many parts it has in
whatever order and nesting, what is stored is what `EveryPartIsAccountedFor` says. The
session's part is small, since only the callback makes a result; `EveryMessageIsStored`
is the fact about Mime. It is an induction over data, done without the library's
induction theorems (their operator parameters cannot be instantiated):

- Recursion. A recursive function is a CHOOSE, so that it says nothing before there is a
  function of that kind. `PartRecursion` gives one for any walk over parts, from
  the values for leaves and a function that joins those of the parts; `FoldExists`
  does so for the folds over sets by which the community modules define FoldLeft and
  MapThenSumSet, and `FlattenIs` for FlattenSeq. `EveryPart` is induction over parts:
  a set that has the leaves, and a multipart when it has its parts, has every part.
  All go back to `EveryNumber` (over sets of numbers, from the well-foundedness of <).
- Bodies. Each of the three walks keeps two facts: its bodies are names of leaves of
  their kind (`IsOf`), and a leaf that is not hidden from it shows, that is, there is a
  body of its kind (`Shows`). `AlternativeShows`, `MixedShows` and `GenericShows`
  prove them of the three, `BodiesAccounted` puts them together.
- Attachments. `ExtractedFiles`: the attachments found are those of the leaves
  that are files, each once, by induction over parts with `FlattenHas` at each
  multipart. `KeptAre`: the loop of validations keeps exactly those that pass.
- Contents. `Base64RoundTrip`: what `DecodeBase64` makes of an encoded content is that
  content, whatever white space is in it and whatever its length is modulo 3
  (`BlockIs` is the block of four characters, the last one included).
- Sizes. The code adds up over a list, the property over a set; `SumMoves` carries
  one sum over to the other along the attachments' names.

It assumes what `Message` says of a letter: names tell the leaves apart, base64 is
well formed, and what starts like an executable is not empty.

**MailStoreProofs**: `MailStoreTypes`, `AttachmentsAreKept`, `NoRowIsLeftBehind`,
`UploadsAreSpared`, with and without faults, for any `IngestTimeout` below
`AgeThreshold` (the code has 30 seconds, `smtp/session.go:361`, against seven
days, `storage/orphan_cleanup.go:29`), and `AnnouncedIsComplete` from a second
invariant that rests on the first. That an attachment keeps its object is far
from inductive: the object is stored several calls before its row exists, and
meanwhile only its age protects it from the job. The invariant follows a key
through its life. Before its upload nothing knows of it (`ComingIsFresh`,
`RestIsFresh`). Between upload and row it has no row and no deletion has listed
it (`NoRowsYet`), it is in the bucket, the job does not hold it, and
`age + left <= IngestTimeout` (`PendingIsSafe`): every tick that makes the object
older takes the same from the deadline, and without time left no row can be
inserted. After that the job does not delete it because what the job found to be
an orphan has no row (`OrphansHaveNoRow`), and a deletion only deletes what it has
listed (`RequestsCondemn`). `Frame` says once what a step elsewhere must respect.

**EventStoreProofs**: `EventStoreTypes`, `EventStoreAgrees` and the whole refinement
`EventStoreImplementsEventLog`, for any users, times, limits and sizes. `StoreInv` says
what the three structures are in terms of the log alone: the list is the log after
position `Forgotten`, the index has exactly its IDs, each user's list exactly that
user's events in the order of the log, and a client was given a run of its user's
events that ends at its cursor. Each method of the buffer is then a lemma:
`Stored` appends and forgets at most one, `Cleaned` forgets a front, `Recent` and
`After` return what the log has. The two loops of the code are recursive functions; that
they have a value and what it is goes by induction over their iterations
(`EveryNumber`, which is stated about sets of numbers and so needs no operator as
a parameter). What `EventLog` promises is proved there too, of the abstract
module alone: `EventLogNoGap` and `EventLogOwnEventsOnly`, from an invariant that adds
that the cursor is the newest event received. By the refinement both hold of the
buffer.

**EventStreamProofs**: two invariants. `StreamsAreCounted` and `LiveArrive` come from
`Inductive`. The first is nearly inductive: it needs that a handler not yet added is
not closed (`NewAreOpen`), else AddConnection would register a closed stream. The
second says where an event is that was stored after a stream of its user
subscribed and is being delivered: among the handlers still to be called, at the
one just checked, or sent (`OnTheWay`). It starts when Publish copies the handlers,
where `StreamsAreCounted` says that the stream is one of them, and survives the
look at the closed flag and the write, because a stream that was closed or is gone
in between is promised nothing.

`EventStreamTypes` (with it that a stream is sent its own user's events only),
`NoThirdTime` and `ReplayComplete` come from `Deliveries`, which follows the replay:
what is left of it is a run of the user's events in the log's order, all later
than what was sent. So the replay sends an event once, and Publish calls a handler
once: `Counts` allows an event of before the replay twice and any other one
once, and one less while its Publish can still reach the stream. `Replayed`
says that what the replay owed is sent or still to be sent, up to the
limit of a replay, if the cursor is still in the buffer. What the buffer returns is
known from `EventStoreProofs`, taken over by INSTANCE with the published events as
the log.

**DomainsProofs**: `DomainsTypes`, `VerifiedByZone`, `AliasesFollow`,
`SSLResetsAreRaces`, `LimitsUpToRaces`. What a request in the middle of a
verification or a creation still relies on (a token read before the look-up, a
count taken before the insert) is what the invariant says of each stage. The
limits need a count: rows of a user are at most the limit plus the requests of
that user that have passed the check, by an injection of those that passed it
into the requests. So do the resets: once a domain is verified no further request
reads it as not verified, so that its resets and the requests that still hold the
old row are together fewer than the requests, the one that verified it being none
of them.

**SessionsProofs**: `SessionsTypes`, `ExchangedOnce`, `TokensKeepWorking`,
`AttemptsAreBounded`. A token's session, the request that deleted it, and the
client that holds it exclude each other; the invariant says which of the three
has it at each stage of a refresh, including those at which the answer of a
statement was lost.

**InboxProofs**: `MissingWasAskedFor` and `OwnMailIsChanged`. An object's state and a
reader's answer are far from the request that caused them; the invariant goes the
way between: a request knows keys of condemned emails only (`KeysAreCondemned`), so
what was deleted is condemned (`DeletedIsCondemned`), so what a reader misses is.
Deleting an alias condemns the mail whose keys it lists; what arrives after the list
goes with the alias row, and with it the row of its attachment.
Ownership is checked once and then trusted; it still holds when the statement by ID
runs, because an email's alias, and the alias's owner, never change.

`InboxTypes` adds the shapes, the cascades and that no count of downloads passes its limit.
`AnswersMissLittle` (`AnswersMissOnlyWhatMoved`) is about places. OFFSET and LIMIT name
places in a list; an email's place is the number of newer ones in it (`Rank`). A
page shows whoever's place is on it (`PageShowsPlaces`), an email that leaves
moves the others up by at most one (`MovesUpBy`), and so at most one email slips from
behind the pages still to come to before them without being shown (`FewSlip`: two
emails that are both at the border share a place, which only one email has). That
is `WalkMissesLittle`, half way through; the walk ends at a page count taken before the
last select, which may be short by what joined since (`LastPageIsFarEnough`). An email
leaves a list, and joins it, at most once (`MovesAreCounted`): without that the
counters of the moves would not be bounded. Emails received at the same time
have no place of their own, and the property says nothing of them.

**CertificatesProofs**: `CertificatesTyped`, `NoClaimIsLost`, `ShownIsCovered`,
`ServedIsActive` and the action property `RowsBelongToTheirCreator`. Two parts.
`Claims` joins the exact counts with `Checking`: a domain the scheduler has still
to look at has no goroutine yet, else starting one would lose a slot. `Rows`
follows what a call knows: one that has created a row is the only such call for
its domain (`OneMaker`) until it has told the domain, and whoever is past writing
an active row, or has read one, finds it so (`Issued`) for as long as the domain
is there. All of it rests on one fact the code did not intend: every row's ID is
one the repository drew, so that a statement that looks for the domain's ID
changes nothing.

Only model-checked:

- liveness (`ClosedStreamsEnd`, `OrphansGo`, `DataIsAnswered`) and what is violated
  under fairness: fairness and ENABLED are beyond the prover.

## 5. Not modelled, and why

- Bytes: charsets, encoded words and quoted-printable (`parser/`), sanitizing (a
  third-party policy), JWT signatures, password hashing, key names, file formats.
- Concurrent writes to one `http.ResponseWriter` (`sse/sse_handler.go:183-200`
  and `220-245`, `sse/connection_manager.go:204-225`): a frame is one step.
- The manager's lock held while the eviction notice is written
  (`connection_manager.go:51`): a client that does not read stalls the manager.
- What nothing in the program calls: in `ssl/` revocation, key compromise,
  preloading, `CheckAndRenewAll`, `EncryptedStore` Store, Backup and Restore,
  `RotateCertificate`, the request limiter and the validator; in `auth/`
  CleanupExpiredSessions and CleanupOldFailedAttempts; in `attachment/`
  ProcessWithTracking; `smtp/tls.go`'s handler; the SSE event router.
- The limiter of domain verifications (`src/backend/cmd/server/main.go:383`), of
  the same shape as the download limiter with the domain's ID as key.
- The events `domain_verified`, `domain_deleted`, `alias_created`,
  `alias_deleted` and `email_deleted`: the services publish them only if they have
  an event bus, and the program gives them none (section 6).
- Where user deletion would delete objects (`auth/auth_service.go:499`): only with
  a storage service, which the program does not give it.
- Configuration, logging, metrics, health probes, HTTP decoding, migrations as a
  tool, deployment, pages of the frontend.

## 6. Observed while reading

Behaviour the models have, or leave out, that whoever maintains the code may want
to know.

Events and streams:

- An event published between a stream's replay and its subscription reaches it
  neither way (`sse/sse_handler.go:81-85`; "SHALL replay all events after that ID
  (if available in buffer)", `events/event_store_test.go:26`).
- The 100 events of the buffer are for all users together
  (`events/event_store.go:39`; "100 events per user", `sse/types.go:16`), and
  Cleanup stops at the first event newer than the cutoff although the list is not
  sorted by time (`events/event_store.go:97`).
- The HTTP server's WriteTimeout of 15 s (`src/backend/cmd/server/main.go:417`) is
  shorter than the heartbeat of 30 s and the stream's timeout of an hour: a
  stream's writes fail 15 s after its request. In the model its client is gone.
- The shutdown's context of 30 s is created before the waits for the orphan job,
  the renewal scheduler and the SMTP server (`main.go:474-505`), none of which
  looks at it, and srv.Shutdown does not end open streams.
- The services of domains, aliases and emails are built without the event bus
  (`src/backend/cmd/server/main.go:203-237`; the bus is created at line 255 and given
  to the streams and the SMTP server only, and the services have no setter). They
  publish under `if s.eventBus != nil` (`domain/service.go:178` and `256`,
  `alias/alias_service.go:261` and `561`, `email/email_service.go:731`): no browser
  is ever told of a deletion, a verification or a new alias, although the comments
  there call it a requirement ("Requirements: 6.3, 6.4 - Real-time notification for
  domain deletion", `domain/service.go:177`; likewise `alias_service.go:560` and
  `email_service.go:730`).

Reception:

- `wg.Add(1)` is called in the connection's goroutine: Stop's Wait may miss a
  connection just accepted (`smtp/server.go:220`).
- "Connections per minute" are fixed windows: a minute sees up to twice as many
  less one.
- After a 552 the rest of the text is read as commands. A DATA deadline that
  expires returns without a reply and without a reset, and the session goes on
  with sender and recipients kept. A failed TLS handshake returns although the
  comment says close. `MAIL FROM:<>` is answered 250 and RCPT then refuses. A
  second MAIL keeps the recipients. A recipient named twice at the limit is refused.
- A message stored for nobody is answered with 250 (`smtp/session.go:364-367`,
  `smtp/processor.go:123-150`).
- Bodies within a multipart other than alternative inside mixed, or in any
  multipart inside alternative, are not found (`parser/parser.go:290-381`; the raw
  text is kept); nor are those of an alternative that is itself marked as an
  attachment (344-347). An encoded line break ("%0a", "%0d") in a header makes the email
  count as injected: it is stored without bodies, but with attachments. Bodies
  are stored undecoded. A named text part becomes both a body and an attachment
  and replaces the body found before. A truncated multipart loses everything but
  the raw text. Above the total size all attachments are dropped.

Mail and accounts:

- A deletion of an alias lists objects before it deletes rows: what arrives in
  between leaves objects to the orphan job (`alias/alias_service.go:529-549`). When
  the row cannot be deleted after that, the alias stays with mail whose attachments
  are gone.
- The deletion of a user lists its objects and would delete them
  (`auth/auth_service.go:492-506`; "All attachments from those emails (both DB
  records and S3 storage)", line 467), but `AuthService` is built without a storage
  service (`src/backend/cmd/server/main.go:184`): the objects of a user, like those
  of a domain, are left to the orphan job.
- Any error of the storage is answered 410 (`email/email_service.go:454-462`). A
  deletion whose DELETE fails leaves an email with attachments that are gone. An
  email shown between its row and its attachments' rows has none and is marked
  read. Equal sort keys have no tie-breaker. BulkDelete publishes no event, and
  its FailedCount counts what FailedIDs does not list.
- Register creates no session, so that the refresh token it returns is always
  refused (`auth/auth_service.go:149`). The loser of two refreshes gets a 500.
  Login panics if its user is deleted before it is read again. Access tokens
  outlive their account.
- VerifyDomain's whole-row update can reset an `ssl_enabled` set meanwhile
  (`domain/service.go:226`). An alias update that read before can undo another's
  `is_active`.

Certificates:

- A provisioning that fails at first leaves its row at "provisioning", and no
  later attempt changes it. Renewal never succeeds (see `certificates_renewal`),
  and would not update `domains.ssl_expires_at`.
- A deleted domain's certificate stays in the cache.

## 7. Plan

Done: every component above except those of section 5, in the order of what may
go wrong: reception and stored mail, streams, the SMTP session, sessions,
certificates, domains, the inbox; and a proof of every invariant and action
property the runs check. Left for later:

1. `SmtpSession` within `SmtpServer`: one specification of both, so that the limits of
   the server are also limits on transactions.
2. Writes of several goroutines to one stream, as bytes of two frames.
