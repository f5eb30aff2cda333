---------------------------------- MODULE Inbox ---------------------------------
(* The e-mail API: internal/email (email_service.go, email_handler.go) over *)
(* the tables emails and attachments (repository/email_repository.go) and   *)
(* the stored objects, behind the middlewares that authenticate a request   *)
(* and limit downloads (internal/middleware); and the deletion of an alias  *)
(* (alias/alias_service.go), which empties its mail too.                    *)
(*                                                                          *)
(* A step is one SQL statement or one call of the storage service;          *)
(* statements that only read are one step with the start of the request     *)
(* where only a deletion can change what they find, which the write then    *)
(* notices.  Mail arrives and domains and users go (module MailStore has    *)
(* how) while requests run and a reader does one thing at a time: it pages  *)
(* through a list, asks for the statistics or downloads.  An email's        *)
(* attachments are one attachment here.                                     *)
EXTENDS Integers, FiniteSets, TLC

CONSTANTS
  User, Alias,
  UserOf,         \* the owner of an alias
  EmailID,        \* the emails that ever arrive
  RcptOf,         \* the alias an email is for
  Carriers,       \* the emails that have an attachment
  ReceivedAt,     \* emails.received_at, set before the row is made
  Request,        \* API requests that run at the same time
  PerPage,        \* the limit parameter of a listing (20, at most 100)
  MaxBulkOperationItems,
  DownloadLimit,  \* downloads per user and hour (100)
  MaxDownloads,   \* bound: downloads per user within an hour
  MayFail,        \* whether a statement or a call of the storage may fail
  None            \* no user, no alias, no email

ASSUME InboxAssumption ==
  /\ IsFiniteSet(EmailID) /\ None \notin User \cup Alias \cup EmailID
  /\ UserOf \in [Alias -> User] /\ RcptOf \in [EmailID -> Alias]
  /\ ReceivedAt \in [EmailID -> Nat] /\ Carriers \subseteq EmailID
  /\ PerPage \in Nat \ {0} /\ MaxBulkOperationItems \in Nat \ {0}
  /\ DownloadLimit \in Nat \ {0} /\ MaxDownloads \in Nat
  /\ MayFail \in BOOLEAN

VARIABLES
  aliases,    \* rows of aliases
  mail,       \* mail[e]: the row of email e and what became of its attachment
  requests,   \* RateLimiter.requests[key]: how many within the hour
  call,       \* call[r]: what request r is doing
  reader,     \* what the reader is doing
  condemned   \* emails with an attachment whose owner asked to delete them,
              \* or the alias they are for

vars == <<aliases, mail, requests, call, reader, condemned>>

(* attached: "no" row of an attachment, or one whose object is "stored" or  *)
(* "deleted".                                                               *)
Coming == [state |-> "coming", read |-> FALSE, attached |-> "no"]
Idle   == [pc |-> "idle", user |-> None, alias |-> None, ids |-> {}, keys |-> {}]
NoReader ==
  [pc |-> "idle", user |-> None, filter |-> "all", page |-> 1, seen |-> {}, total |-> 0,
   today |-> 0, sum |-> 0, stayed |-> {}, left |-> 0, joined |-> 0,
   email |-> None, answer |-> 0, missing |-> FALSE]

Init ==
  /\ aliases = Alias
  /\ mail = [e \in EmailID |-> Coming]
  /\ requests = [key \in User |-> 0]
  /\ call = [r \in Request |-> Idle]
  /\ reader = NoReader
  /\ condemned = {}

Owner(e) == UserOf[RcptOf[e]]

(* The emails of u in table m: the join with aliases.                       *)
Own(m, u) == {e \in EmailID : m[e].state = "here" /\ Owner(e) = u}

IsOwnedByUser(e, u) == e \in Own(mail, u)
GetEmailIDsOwnedByUser(I, u) == I \cap Own(mail, u)

(* The rows a listing selects from.  The filters on fields that never       *)
(* change (alias, dates, search) are like "all" over fewer emails.          *)
Listing(m, u, filter) ==
  {e \in Own(m, u) :
     CASE filter = "all"      -> TRUE
       [] filter = "unread"   -> ~m[e].read
       [] filter = "attached" -> m[e].attached # "no"}

Reading == reader.pc \notin {"idle", "walked", "told"}

(* The table becomes m; what that means for the reader: how many emails     *)
(* left its list or joined it.  A reader that has its answer is forgotten.  *)
Becomes(m) ==
  LET now  == Listing(mail, reader.user, reader.filter)
      next == Listing(m, reader.user, reader.filter)
  IN  /\ mail' = m
      /\ reader' = IF ~Reading THEN NoReader
                   ELSE [reader EXCEPT !.stayed = @ \cap next,
                                       !.left = @ + Cardinality(now \ next),
                                       !.joined = @ + Cardinality(next \ now)]

(* UPDATE and DELETE by ID: they change the rows that are (still) there.    *)
Rows(ids) == {e \in ids : mail[e].state = "here"}
SetAttached(ids, value) ==
  [e \in EmailID |-> IF e \in Rows(ids) THEN [mail[e] EXCEPT !.attached = value] ELSE mail[e]]
MarkAsReadBatch(ids) ==
  [e \in EmailID |-> IF e \in Rows(ids) THEN [mail[e] EXCEPT !.read = TRUE] ELSE mail[e]]
MarkAsRead(e) == MarkAsReadBatch({e})
DeleteBatch(ids) ==
  [e \in EmailID |-> IF e \in Rows(ids) THEN [Coming EXCEPT !.state = "gone"] ELSE mail[e]]

(* GetStorageKeysByEmailID, of each of the emails.                          *)
GetStorageKeys(ids) == {e \in Rows(ids) : mail[e].attached # "no"}
-------------------------------------------------------------------------------
(* The processor stores an email and then, as a statement of its own, the   *)
(* rows of its attachments, whose objects are stored by then.               *)
Arrive(e) ==
  /\ mail[e].state = "coming" /\ RcptOf[e] \in aliases
  /\ Becomes([mail EXCEPT ![e].state = "here"])
  /\ UNCHANGED <<aliases, requests, call, condemned>>

AttachmentsArrive(e) ==
  /\ e \in Carriers /\ mail[e].state = "here" /\ mail[e].attached = "no"
  /\ Becomes(SetAttached({e}, "stored"))
  /\ UNCHANGED <<aliases, requests, call, condemned>>

(* A domain of u goes with its aliases A, or u with all of them: the rows,  *)
(* by cascade.  The objects stay to the orphan job: DeleteDomain asks for   *)
(* none to be deleted, and DeleteUser is given no storage (main.go:184).    *)
DeleteDomain(u, A) ==
  /\ A # {} /\ A \subseteq {a \in aliases : UserOf[a] = u}
  /\ aliases' = aliases \ A
  /\ Becomes(DeleteBatch({e \in EmailID : RcptOf[e] \in A}))
  /\ UNCHANGED <<requests, call, condemned>>
-------------------------------------------------------------------------------
At(r, pc) == call[r].pc = pc
Start(r, pc, u, alias, ids, keys) ==
  /\ At(r, "idle")
  /\ call' = [call EXCEPT ![r] =
                [pc |-> pc, user |-> u, alias |-> alias, ids |-> ids, keys |-> keys]]
  /\ UNCHANGED <<aliases, mail, requests, reader>>
Goto(r, pc) == call' = [call EXCEPT ![r] = IF pc = "idle" THEN Idle ELSE [@ EXCEPT !.pc = pc]]

(* GET /emails/{id} with mark_as_read, the default: the owner's email, not  *)
(* read yet.  (Without it nothing changes.)                                 *)
GetByID(r, u, e) ==
  /\ IsOwnedByUser(e, u) /\ ~mail[e].read
  /\ Start(r, "mark", u, None, {e}, {})
  /\ UNCHANGED condemned

(* By the ID alone; when it fails, the email is shown as not read.          *)
Mark(r) ==
  /\ At(r, "mark")
  /\ \/ \E e \in call[r].ids : Becomes(MarkAsRead(e))
     \/ MayFail /\ UNCHANGED <<mail, reader>>
  /\ Goto(r, "idle")
  /\ UNCHANGED <<aliases, requests, condemned>>

(* The handlers of the bulk requests refuse empty and long lists.           *)
ValidBulk(I) == I # {} /\ Cardinality(I) <= MaxBulkOperationItems

(* Mutation: the emails asked for are marked, not those of the user.        *)
BulkMarkAsReadOfAnyone(r, u, I) ==
  /\ ValidBulk(I)
  /\ Start(r, "markBatch", u, None, I, {})
  /\ UNCHANGED condemned

(* POST /emails/bulk/mark-read.                                             *)
BulkMarkAsRead(r, u, I) ==
  LET owned == GetEmailIDsOwnedByUser(I, u)
  IN  /\ ValidBulk(I) /\ owned # {}
      /\ Start(r, "markBatch", u, None, owned, {})
      /\ UNCHANGED condemned

MarkBatch(r) ==
  /\ At(r, "markBatch")
  /\ Becomes(MarkAsReadBatch(call[r].ids))
  /\ Goto(r, "idle")
  /\ UNCHANGED <<aliases, requests, condemned>>

(* DELETE /emails/{id}: the owner's email, up to the keys of its objects.   *)
Delete(r, u, e) ==
  /\ IsOwnedByUser(e, u)
  /\ Start(r, "objects", u, None, {e}, GetStorageKeys({e}))
  /\ condemned' = condemned \cup GetStorageKeys({e})

(* Mutation: the keys are those of the emails asked for.                    *)
BulkDeleteKeysOfAnyone(r, u, I) ==
  /\ ValidBulk(I)
  /\ Start(r, "objects", u, None, GetEmailIDsOwnedByUser(I, u), GetStorageKeys(I))
  /\ condemned' = condemned \cup GetStorageKeys(GetEmailIDsOwnedByUser(I, u))

(* POST /emails/bulk/delete.                                                *)
BulkDelete(r, u, I) ==
  LET owned == GetEmailIDsOwnedByUser(I, u)
  IN  /\ ValidBulk(I) /\ owned # {}
      /\ Start(r, "objects", u, None, owned, GetStorageKeys(owned))
      /\ condemned' = condemned \cup GetStorageKeys(owned)

(* DELETE /aliases/{id}: the owner's alias, up to the keys of the objects   *)
(* of all its mail.  (When these cannot be listed, the request goes on as   *)
(* if none of the objects could be deleted.)                                *)
DeleteAlias(r, u, a) ==
  LET keys == GetStorageKeys({e \in EmailID : RcptOf[e] = a})
  IN  /\ a \in aliases /\ UserOf[a] = u
      /\ Start(r, "objects", u, a, {}, keys)
      /\ condemned' = condemned \cup keys

(* The objects go before the rows; the request goes on when that fails, or  *)
(* has failed for some of them.                                             *)
DeleteObjects(r) ==
  /\ At(r, "objects")
  /\ \E keys \in SUBSET call[r].keys :
       /\ keys = call[r].keys \/ MayFail
       /\ Becomes(SetAttached({e \in keys : mail[e].attached # "no"}, "deleted"))
  /\ Goto(r, IF call[r].alias = None THEN "rows" ELSE "alias")
  /\ UNCHANGED <<aliases, requests, condemned>>

(* By the IDs alone, with the cascade.  Nothing is published: the service   *)
(* has no event bus (main.go:230-237).                                      *)
DeleteRows(r) ==
  /\ At(r, "rows")
  /\ Becomes(DeleteBatch(call[r].ids))
  /\ Goto(r, "idle")
  /\ UNCHANGED <<aliases, requests, condemned>>

(* The alias with all the mail it has by now, also what arrived since the   *)
(* keys were listed; it may have gone meanwhile.                            *)
DeleteAliasRow(r) ==
  /\ At(r, "alias")
  /\ aliases' = aliases \ {call[r].alias}
  /\ Becomes(DeleteBatch({e \in EmailID : RcptOf[e] = call[r].alias}))
  /\ Goto(r, "idle")
  /\ UNCHANGED <<requests, condemned>>

(* A statement fails, and the request with it; or the process is killed.    *)
Fail(r) ==
  /\ MayFail /\ call[r].pc \in {"markBatch", "objects", "rows", "alias"}
  /\ Goto(r, "idle")
  /\ UNCHANGED <<aliases, mail, requests, reader, condemned>>
-------------------------------------------------------------------------------
(* What Authenticate puts into the context of a request of u.  Its key has  *)
(* a type of its own, ContextKey.                                           *)
Authenticate(u) == <<"ContextKey", "user_id">> :> u

(* The download limiter looks for a key of type string.                     *)
ExtractUserIDFromContext(ctx) ==
  LET key == <<"string", "user_id">>
  IN  IF key \in DOMAIN ctx THEN ctx[key] ELSE None

(* RateLimiter.Allow(key), over the requests of the last hour.              *)
Allow(key) ==
  /\ requests[key] < DownloadLimit
  /\ requests' = [requests EXCEPT ![key] = @ + 1]

(* RateLimitDownload: a request without a user passes.                      *)
RateLimitDownload(u) ==
  LET key == ExtractUserIDFromContext(Authenticate(u))
  IN  IF key = None THEN UNCHANGED requests ELSE Allow(key)

(* handleEmailError: what the service found, as a status.                   *)
HandleEmailError(found) ==
  CASE found = "ok" -> 200 [] found = "not found" -> 404
    [] found = "denied" -> 403 [] found = "gone" -> 410

(* The statements before any access to the object, in each of the three     *)
(* methods that serve attachments; an email that is there but not the       *)
(* user's is told apart from one that is not there.                         *)
GetAttachmentMetadata(u, e) ==
  CASE mail[e].state # "here" -> "not found"
    [] mail[e].state = "here" /\ ~IsOwnedByUser(e, u) -> "denied"
    [] IsOwnedByUser(e, u) /\ mail[e].attached = "no" -> "not found"
    [] OTHER -> "ok"

Answered(found, missing) ==
  reader' = [reader EXCEPT !.pc = "downloads", !.answer = HandleEmailError(found),
                           !.missing = missing]

StartDownloads(u) ==
  /\ ~Reading
  /\ reader' = [NoReader EXCEPT !.pc = "downloads", !.user = u]
  /\ UNCHANGED <<aliases, mail, requests, call, condemned>>

(* GET /emails/{id}/attachments/{id}, past the limiter; total counts the    *)
(* downloads within the hour.                                               *)
DownloadAttachment(e) ==
  LET found == GetAttachmentMetadata(reader.user, e)
  IN  /\ reader.pc = "downloads" /\ reader.total < MaxDownloads
      /\ RateLimitDownload(reader.user)
      /\ reader' = [reader EXCEPT !.total = @ + 1, !.email = e, !.missing = FALSE,
                       !.pc = IF found = "ok" THEN "fetch" ELSE "downloads",
                       !.answer = HandleEmailError(found)]
      /\ UNCHANGED <<aliases, mail, call, condemned>>

(* A small file is read from the storage; any error there is "gone".        *)
GetAttachment ==
  LET found == GetAttachmentMetadata(reader.user, reader.email)
      missing == found = "ok" /\ mail[reader.email].attached = "deleted"
  IN  /\ reader.pc = "fetch"
      /\ \/ Answered(IF missing THEN "gone" ELSE found, missing)
         \/ MayFail /\ found = "ok" /\ Answered("gone", FALSE)
      /\ UNCHANGED <<aliases, mail, requests, call, condemned>>

(* For a large file, or on request (.../url), the answer is a URL that is   *)
(* signed without a look at the object.                                     *)
GetAttachmentURL ==
  /\ reader.pc = "fetch"
  /\ Answered(GetAttachmentMetadata(reader.user, reader.email), FALSE)
  /\ UNCHANGED <<aliases, mail, requests, call, condemned>>

(* An hour without downloads; the entries of the limiter are cleaned up.    *)
HourPasses ==
  /\ reader.pc = "downloads"
  /\ reader' = NoReader
  /\ requests' = [key \in User |-> 0]
  /\ UNCHANGED <<aliases, mail, call, condemned>>
-------------------------------------------------------------------------------
(* A client walks through GET /emails, newest first, until the answer's     *)
(* last page.                                                               *)
StartWalk(u, filter) ==
  /\ ~Reading
  /\ reader' = [NoReader EXCEPT !.pc = "count", !.user = u, !.filter = filter,
                                !.stayed = Listing(mail, u, filter)]
  /\ UNCHANGED <<aliases, mail, requests, call, condemned>>

(* EmailRepo.List counts first ...                                          *)
ListCount ==
  /\ reader.pc = "count"
  /\ reader' = [reader EXCEPT !.pc = "select", !.joined = 0,
                  !.total = Cardinality(Listing(mail, reader.user, reader.filter))]
  /\ UNCHANGED <<aliases, mail, requests, call, condemned>>

(* The n newest of S; emails of the same time come in any order.            *)
Newest(S, n) ==
  {T \in SUBSET S :
     /\ Cardinality(T) = IF n < Cardinality(S) THEN n ELSE Cardinality(S)
     /\ \A e \in T, f \in S \ T : ReceivedAt[e] >= ReceivedAt[f]}

(* Mutation: pages are counted from zero.                                   *)
PageFromZero(S, n) ==
  {Q[2] \ Q[1] : Q \in {P \in Newest(S, n * PerPage) \X Newest(S, (n + 1) * PerPage) :
                          P[1] \subseteq P[2]}}

(* LIMIT PerPage OFFSET (n - 1) * PerPage.                                  *)
Page(S, n) ==
  {Q[2] \ Q[1] : Q \in {P \in Newest(S, (n - 1) * PerPage) \X Newest(S, n * PerPage) :
                          P[1] \subseteq P[2]}}

(* Service.List: one page at least.                                         *)
TotalPages(total) == IF total = 0 THEN 1 ELSE (total + PerPage - 1) \div PerPage

(* ... and then selects the page.                                           *)
ListPage ==
  /\ reader.pc = "select"
  /\ \E P \in Page(Listing(mail, reader.user, reader.filter), reader.page) :
       reader' = IF reader.page >= TotalPages(reader.total)
                   THEN [reader EXCEPT !.seen = @ \cup P, !.pc = "walked"]
                   ELSE [reader EXCEPT !.seen = @ \cup P, !.pc = "count", !.page = @ + 1]
  /\ UNCHANGED <<aliases, mail, requests, call, condemned>>

(* GET /emails/stats: three statements.  (The first counts the unread ones  *)
(* too.)                                                                    *)
StatsSummary(u) ==
  /\ ~Reading
  /\ reader' = [NoReader EXCEPT !.pc = "time", !.user = u,
                                !.total = Cardinality(Own(mail, u))]
  /\ UNCHANGED <<aliases, mail, requests, call, condemned>>

(* How many are of today depends on their age.  (So for week and month.)    *)
StatsTime ==
  /\ reader.pc = "time"
  /\ \E n \in 0..Cardinality(Own(mail, reader.user)) :
       reader' = [reader EXCEPT !.pc = "alias", !.today = n]
  /\ UNCHANGED <<aliases, mail, requests, call, condemned>>

(* Mutation: the rows of the LEFT JOIN are counted, an empty alias as one. *)
StatsPerAliasCountingRows ==
  LET empty == {a \in aliases : UserOf[a] = reader.user /\
                  \A e \in Own(mail, reader.user) : RcptOf[e] # a}
  IN  /\ reader.pc = "alias"
      /\ reader' = [reader EXCEPT !.pc = "told",
                       !.sum = Cardinality(Own(mail, reader.user)) + Cardinality(empty)]
      /\ UNCHANGED <<aliases, mail, requests, call, condemned>>

StatsPerAlias ==
  /\ reader.pc = "alias"
  /\ reader' = [reader EXCEPT !.pc = "told", !.sum = Cardinality(Own(mail, reader.user))]
  /\ UNCHANGED <<aliases, mail, requests, call, condemned>>
-------------------------------------------------------------------------------
Mail ==
  \/ \E e \in EmailID : Arrive(e) \/ AttachmentsArrive(e)
  \/ \E u \in User, A \in SUBSET Alias : DeleteDomain(u, A)

Serve(r) ==
  \/ \E u \in User, e \in EmailID : GetByID(r, u, e) \/ Delete(r, u, e)
  \/ \E u \in User, I \in SUBSET EmailID : BulkMarkAsRead(r, u, I) \/ BulkDelete(r, u, I)
  \/ \E u \in User, a \in Alias : DeleteAlias(r, u, a)
  \/ Mark(r) \/ MarkBatch(r) \/ DeleteObjects(r)
  \/ DeleteRows(r) \/ DeleteAliasRow(r) \/ Fail(r)

Read ==
  \/ \E u \in User, filter \in {"all", "unread", "attached"} : StartWalk(u, filter)
  \/ ListCount \/ ListPage
  \/ \E u \in User : StatsSummary(u)
  \/ StatsTime \/ StatsPerAlias

Download ==
  \/ \E u \in User : StartDownloads(u)
  \/ \E e \in EmailID : DownloadAttachment(e)
  \/ GetAttachment \/ GetAttachmentURL \/ HourPasses

Next ==
  \/ Mail \/ Read \/ Download
  \/ \E r \in Request : Serve(r)

Spec == Init /\ [][Next]_vars
-------------------------------------------------------------------------------
Counter == 0..(2 * Cardinality(EmailID))

(* The shapes of the tables and the requests.  Whatever a request is about  *)
(* to change by ID alone is its user's own mail or alias: ownership was     *)
(* checked by an earlier statement and cannot have passed on since.         *)
TypeOK ==
  /\ aliases \subseteq Alias
  /\ mail \in [EmailID -> [state : {"coming", "here", "gone"}, read : BOOLEAN,
                           attached : {"no", "stored", "deleted"}]]
  /\ \A e \in EmailID : mail[e].state = "here" => RcptOf[e] \in aliases
  /\ requests \in [User -> 0..DownloadLimit]
  /\ call \in [Request -> [pc : {"idle", "mark", "markBatch", "objects", "rows", "alias"},
                           user : User \cup {None}, alias : Alias \cup {None},
                           ids : SUBSET EmailID, keys : SUBSET EmailID]]
  /\ \A r \in Request :
       /\ \A e \in call[r].ids : Owner(e) = call[r].user
       /\ call[r].alias # None => UserOf[call[r].alias] = call[r].user
  /\ reader.stayed \subseteq EmailID /\ reader.seen \subseteq EmailID
  /\ reader.left \in Counter /\ reader.joined \in Counter
  /\ reader.total \in Counter \cup 0..MaxDownloads
  /\ reader.today \in Counter /\ reader.sum \in Counter
  /\ reader.answer \in {0, 200, 403, 404, 410}
  /\ condemned \subseteq EmailID

(* What a reader is told differs from its mail only by what moved while it  *)
(* was being told.                                                          *)
(* Of the emails that were in its list from the start to the end of a walk  *)
(* through all pages it misses no more than left the list meanwhile         *)
(* (deleted, or read in a list of unread ones) or joined it between the     *)
(* count and the select of the last answer: OFFSET counts rows that move.   *)
(* Emails received at the same time have no order between two pages and are *)
(* not promised anything (email_repository.go:139-185).                     *)
(* The numbers of the statistics come from three statements: they disagree  *)
(* by no more than the emails that came or went between                     *)
(* (email_repository.go:383).                                               *)
AnswersMissOnlyWhatMoved ==
  LET moved  == reader.left + reader.joined
      alone  == {e \in EmailID : \A f \in EmailID \ {e} : ReceivedAt[e] # ReceivedAt[f]}
      missed == (reader.stayed \cap alone) \ reader.seen
  IN  /\ reader.pc = "walked" => Cardinality(missed) <= moved
      /\ reader.pc = "told" =>
           /\ reader.today <= reader.total + moved
           /\ reader.sum <= reader.total + moved /\ reader.total <= reader.sum + moved

(* An attachment whose row is there is missing from the storage only if its *)
(* owner asked to delete that email or the alias it is for: no request of   *)
(* another user, and no failure half way through a deletion, empties a mail *)
(* nobody wanted gone (email_service.go:699-709, 789-822,                   *)
(* alias_service.go:529-549).                                               *)
MissingOnlyIfDeletionAsked ==
  reader.missing => reader.email \in condemned

(* "Rate limit downloads to 100 per user per hour" (main.go:406).           *)
DownloadsAreLimited == reader.pc = "downloads" => reader.total <= DownloadLimit
===============================================================================
