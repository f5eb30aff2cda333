------------------------------- MODULE MailStore -------------------------------
(* Mail in two stores that know nothing of each other: rows in PostgreSQL   *)
(* (aliases, emails, attachments, with cascading deletes) and attachment    *)
(* objects in S3.  Three kinds of actors change both, call by call and      *)
(* without a transaction around them:                                       *)
(*   - an SMTP session processes a received message for each recipient      *)
(*     (internal/smtp/processor.go): upload, email row, attachment rows,    *)
(*     event;                                                               *)
(*   - an API request deletes emails or an alias: list the storage keys,    *)
(*     delete the objects, delete the row; or a domain or a user: the row   *)
(*     alone;                                                               *)
(*   - the orphan cleanup job (internal/storage/orphan_cleanup.go) lists    *)
(*     old objects, asks the database which have a row, deletes the rest.   *)
(*                                                                          *)
(* An email is identified by the message and the recipient it was stored    *)
(* for, an attachment's storage key by its email and its part.  Every call  *)
(* to a store is one step.  In a faulty behaviour a call may fail, without  *)
(* or with effect (the answer was lost); in any behaviour it fails once the *)
(* processing context of 30 seconds (session.go:361) has expired.  Time     *)
(* passes in Tick, which ages the objects.                                  *)
EXTENDS Naturals, FiniteSets

CONSTANTS
  Message,        \* the messages that are received
  Alias,          \* the alias rows there are at the start
  NoAlias,        \* the recipient of a session that has none yet
  Part,           \* the attachments of a message
  Domain, User,
  DomainOf,       \* the domain of an alias
  UserOf,         \* the owner of an alias
  Request,        \* API requests that may be deleting at the same time
  IngestTimeout,  \* ticks until a processing context has expired
  AgeThreshold,   \* ticks until an object counts as old (7 days)
  BatchSize,      \* keys per database query or delete call of the job
  Faults          \* whether there are behaviours in which calls may fail

ASSUME MailStoreAssumption ==
  /\ NoAlias \notin Alias
  /\ DomainOf \in [Alias -> Domain] /\ UserOf \in [Alias -> User]
  /\ IngestTimeout \in Nat /\ AgeThreshold \in Nat /\ IngestTimeout < AgeThreshold
  /\ BatchSize \in Nat \ {0}
  /\ Faults \in BOOLEAN

Email == Message \X Alias
Key == Email \X Part

KeysOf(E) == {k \in Key : k[1] \in E}
EmailsOf(A) == {e \in Email : e[2] \in A}

VARIABLES
  aliases, emails, rows,   \* the database: aliases, emails, attachments
  objects,                 \* S3: the keys that have an object
  age,                     \* age[k]: ticks since k was stored, up to AgeThreshold
  session,                 \* session[m]: the processing of message m
  request,                 \* request[d]: the deletion that API request d performs
  job,                     \* the orphan cleanup job
  faulty,                  \* whether this is a behaviour in which calls may fail
  notified,                \* the emails for which new_email was published
  condemned                \* history: the keys some deletion has listed

db == <<aliases, emails, rows>>
s3 == <<objects, age>>
vars == <<aliases, emails, rows, objects, age, session, request, job, faulty,
          notified, condemned>>

IdleSession == [pc |-> "idle", todo |-> {}, rcpt |-> NoAlias, rest |-> {},
                processed |-> {}, left |-> 0]
IdleRequest == [pc |-> "idle", emails |-> {}, aliases |-> {}, keys |-> {}]
IdleJob == [pc |-> "idle", todo |-> {}, orphans |-> {}]

Init ==
  /\ aliases = Alias /\ emails = {} /\ rows = {}
  /\ objects = {} /\ age = [k \in Key |-> 0]
  /\ session = [m \in Message |-> IdleSession]
  /\ request = [d \in Request |-> IdleRequest]
  /\ job = IdleJob
  /\ faulty \in {FALSE, Faults}
  /\ notified = {} /\ condemned = {}

-------------------------------------------------------------------------------
(* Processing a message.                                                    *)
Current(m) == <<m, session[m].rcpt>>
Succeeds(m) == session[m].left > 0
MayFail(m) == faulty \/ session[m].left = 0

(* Mutation: a recipient without an alias is let through.                   *)
ReceiveDataForAnyone(m) ==
  /\ session[m].pc = "idle"
  /\ session' = [session EXCEPT ![m].pc = "next", ![m].todo = {NoAlias},
                                ![m].left = IngestTimeout]
  /\ UNCHANGED <<faulty, db, s3, request, job, notified, condemned>>

(* DATA is complete; its recipients were looked up at RCPT TO.              *)
ReceiveData(m) ==
  /\ session[m].pc = "idle"
  /\ \E R \in SUBSET aliases \ {{}} :
       session' = [session EXCEPT ![m].pc = "next", ![m].todo = R,
                                  ![m].left = IngestTimeout]
  /\ UNCHANGED <<faulty, db, s3, request, job, notified, condemned>>

(* Mutation: a recipient whose lookup failed is tried again.                *)
LookupAliasAgain(m) ==
  /\ session[m].pc = "next"
  /\ \E a \in session[m].todo :
       \/ /\ a \in aliases /\ Succeeds(m)
          /\ session' = [session EXCEPT ![m].pc = "upload", ![m].rcpt = a,
                           ![m].todo = @ \ {a}, ![m].rest = Part, ![m].processed = {}]
       \/ /\ a \notin aliases \/ MayFail(m)
          /\ UNCHANGED session
  /\ UNCHANGED <<faulty, db, s3, request, job, notified, condemned>>

(* ProcessEmail's loop takes the next recipient: GetByFullAddress.          *)
LookupAlias(m) ==
  /\ session[m].pc = "next"
  /\ \E a \in session[m].todo :
       \/ /\ a \in aliases /\ Succeeds(m)
          /\ session' = [session EXCEPT ![m].pc = "upload", ![m].rcpt = a,
                           ![m].todo = @ \ {a}, ![m].rest = Part, ![m].processed = {}]
       \/ /\ a \notin aliases \/ MayFail(m)
          /\ session' = [session EXCEPT ![m].todo = @ \ {a}]
  /\ UNCHANGED <<faulty, db, s3, request, job, notified, condemned>>

(* Mutation: what was uploaded is not recorded for the rows.                *)
UploadUnrecorded(m) ==
  /\ session[m].pc = "upload"
  /\ \E p \in session[m].rest :
       LET k == <<Current(m), p>>
       IN  /\ Succeeds(m)
           /\ objects' = objects \cup {k}
           /\ age' = [age EXCEPT ![k] = 0]
           /\ session' = [session EXCEPT ![m].rest = @ \ {p}]
  /\ UNCHANGED <<faulty, db, request, job, notified, condemned>>

(* Process takes the next attachment: it is rejected by the validation, or  *)
(* stored, or all attempts fail (one of them may have stored it).           *)
Upload(m) ==
  /\ session[m].pc = "upload"
  /\ \E p \in session[m].rest :
       LET k == <<Current(m), p>>
       IN  \/ /\ Succeeds(m)
              /\ objects' = objects \cup {k}
              /\ age' = [age EXCEPT ![k] = 0]
              /\ session' = [session EXCEPT ![m].rest = @ \ {p},
                                            ![m].processed = @ \cup {p}]
           \/ /\ Succeeds(m) /\ MayFail(m)
              /\ objects' = objects \cup {k}
              /\ age' = [age EXCEPT ![k] = 0]
              /\ session' = [session EXCEPT ![m].rest = @ \ {p}]
           \/ /\ session' = [session EXCEPT ![m].rest = @ \ {p}]
              /\ UNCHANGED s3
  /\ UNCHANGED <<faulty, db, request, job, notified, condemned>>

(* emailRepo.Create: the foreign key wants the alias.  Without the row the  *)
(* recipient ends with an error, whatever was uploaded for it.              *)
CreateEmail(m) ==
  /\ session[m].pc = "upload" /\ session[m].rest = {}
  /\ \/ /\ Succeeds(m) /\ session[m].rcpt \in aliases
        /\ emails' = emails \cup {Current(m)}
        /\ \/ session' = [session EXCEPT ![m].pc = "attach"]
           \/ /\ MayFail(m)
              /\ session' = [session EXCEPT ![m].pc = "next"]
     \/ /\ session[m].rcpt \notin aliases \/ MayFail(m)
        /\ session' = [session EXCEPT ![m].pc = "next"]
        /\ UNCHANGED emails
  /\ UNCHANGED <<faulty, aliases, rows, s3, request, job, notified, condemned>>

(* Mutation: nothing wants the email row.                                   *)
CreateBatchAnyway(m) ==
  /\ session[m].pc = "attach"
  /\ \/ /\ session[m].processed # {}
        /\ Succeeds(m)
        /\ rows' = rows \cup {<<Current(m), p>> : p \in session[m].processed}
     \/ /\ session[m].processed = {} \/ MayFail(m)
        /\ UNCHANGED rows
  /\ session' = [session EXCEPT ![m].pc = "publish"]
  /\ UNCHANGED <<faulty, aliases, emails, s3, request, job, notified, condemned>>

(* attachmentRepo.CreateBatch: all rows in one transaction; the foreign key *)
(* wants the email.  An error is only logged.                               *)
CreateBatch(m) ==
  /\ session[m].pc = "attach"
  /\ \/ /\ session[m].processed # {}
        /\ Succeeds(m) /\ Current(m) \in emails
        /\ rows' = rows \cup {<<Current(m), p>> : p \in session[m].processed}
     \/ /\ session[m].processed = {} \/ Current(m) \notin emails \/ MayFail(m)
        /\ UNCHANGED rows
  /\ session' = [session EXCEPT ![m].pc = "publish"]
  /\ UNCHANGED <<faulty, aliases, emails, s3, request, job, notified, condemned>>

(* publishNewEmailEvent: no event when the alias' owner is not found.       *)
PublishNewEmail(m) ==
  /\ session[m].pc = "publish"
  /\ \/ /\ Succeeds(m) /\ session[m].rcpt \in aliases
        /\ notified' = notified \cup {Current(m)}
     \/ /\ session[m].rcpt \notin aliases \/ MayFail(m)
        /\ UNCHANGED notified
  /\ session' = [session EXCEPT ![m].pc = "next"]
  /\ UNCHANGED <<faulty, db, s3, request, job, condemned>>

(* ProcessEmail returns no error, whatever happened to the recipients, and  *)
(* handleDATA answers 250.  (It would answer 451 for a message the parser   *)
(* cannot represent at all; SafeParse always returns one.)                  *)
Reply(m) ==
  /\ session[m].pc = "next" /\ session[m].todo = {}
  /\ session' = [session EXCEPT ![m].pc = "replied250"]
  /\ UNCHANGED <<faulty, db, s3, request, job, notified, condemned>>

Process(m) ==
  \/ LookupAlias(m) \/ Upload(m) \/ CreateEmail(m)
  \/ CreateBatch(m) \/ PublishNewEmail(m) \/ Reply(m)

-------------------------------------------------------------------------------
(* Deleting through the API.  List names what is to be deleted and the      *)
(* storage keys as they are at that moment.                                 *)
StoredKeys(E) == KeysOf(E) \cap rows
AliasKeys(a) == StoredKeys(EmailsOf({a}))
AliasesOf(u) == {a \in Alias : UserOf[a] = u}

List(d, E, A, K, next) ==
  /\ request[d].pc = "idle"
  /\ request' = [request EXCEPT ![d] =
       [pc |-> next, emails |-> E, aliases |-> A, keys |-> K]]
  /\ condemned' = condemned \cup K
  /\ UNCHANGED <<faulty, db, s3, session, job, notified>>

DeleteEmail(d, e) ==
  /\ e \in emails
  /\ List(d, {e}, {}, StoredKeys({e}), "listed")

(* BulkDelete skips the keys of an email whose listing failed.              *)
BulkDelete(d, E) ==
  /\ E # {} /\ E \subseteq emails
  /\ \E L \in SUBSET E :
       /\ L = E \/ faulty
       /\ List(d, E, {}, StoredKeys(L), "listed")

(* Alias deletion goes on without keys when listing them failed.            *)
DeleteAlias(d, a) ==
  /\ a \in aliases
  /\ \E K \in {AliasKeys(a), {}} :
       /\ faulty \/ K = AliasKeys(a)
       /\ List(d, {}, {a}, K, "listed")

(* User deletion would list and delete the objects if AuthService had a     *)
(* storage service (auth_service.go:499); it is built without one           *)
(* (cmd/server/main.go:184), and leaves the objects to the orphan job.      *)
DeleteUser(d, u) ==
  /\ AliasesOf(u) \cap aliases # {}
  /\ List(d, {}, AliasesOf(u), {}, "purged")

(* Domain deletion leaves the objects alone.                                *)
DeleteDomain(d, o) ==
  LET under == {a \in Alias : DomainOf[a] = o}
  IN  /\ under \cap aliases # {}
      /\ List(d, {}, under, {}, "purged")

(* DeleteByKeys; objects it could not delete are left, and the deletion     *)
(* goes on.                                                                 *)
DeleteByKeys(d) ==
  /\ request[d].pc = "listed"
  /\ \E S \in SUBSET request[d].keys :
       /\ S = request[d].keys \/ faulty
       /\ objects' = objects \ S
  /\ request' = [request EXCEPT ![d].pc = "purged"]
  /\ UNCHANGED <<faulty, db, age, session, job, notified, condemned>>

(* The DELETE statement and its cascade, or its failure.                    *)
DeleteRows(d) ==
  LET E == request[d].emails \cup EmailsOf(request[d].aliases)
  IN  /\ request[d].pc = "purged"
      /\ \/ /\ aliases' = aliases \ request[d].aliases
            /\ emails' = emails \ E
            /\ rows' = rows \ KeysOf(E)
         \/ faulty /\ UNCHANGED db
      /\ request' = [request EXCEPT ![d] = IdleRequest]
      /\ UNCHANGED <<faulty, s3, session, job, notified, condemned>>

Delete(d) ==
  \/ \E e \in Email : DeleteEmail(d, e)
  \/ \E E \in SUBSET Email : BulkDelete(d, E)
  \/ \E a \in Alias : DeleteAlias(d, a)
  \/ \E u \in User : DeleteUser(d, u)
  \/ \E o \in Domain : DeleteDomain(d, o)
  \/ DeleteByKeys(d) \/ DeleteRows(d)

-------------------------------------------------------------------------------
(* The orphan cleanup job.                                                  *)
(* Mutations: any object counts as old; none ever gets old enough.          *)
AnyAge == objects
OlderStill == {k \in objects : age[k] > AgeThreshold}

Old == {k \in objects : age[k] = AgeThreshold}

(* A run fixes the cutoff time.  (Its listing goes page by page; an object  *)
(* that disappears meanwhile makes no difference to what follows.)          *)
StartCleanup ==
  /\ job.pc = "idle"
  /\ job' = [pc |-> "checking", todo |-> Old, orphans |-> {}]
  /\ UNCHANGED <<faulty, db, s3, session, request, notified, condemned>>

(* BatchExistsInDatabase, negated.                                          *)
Missing(B) == B \ rows

(* Mutation: a batch whose query fails counts as absent.                    *)
CheckBatchTrusting(B) ==
  /\ job.pc = "checking"
  /\ B # {} /\ B \subseteq job.todo /\ Cardinality(B) <= BatchSize
  /\ \/ job' = [job EXCEPT !.todo = @ \ B, !.orphans = @ \cup Missing(B)]
     \/ faulty /\ job' = [job EXCEPT !.todo = @ \ B, !.orphans = @ \cup B]
  /\ UNCHANGED <<faulty, db, s3, session, request, notified, condemned>>

(* One batch; if its query fails it is passed over.                         *)
CheckBatch(B) ==
  /\ job.pc = "checking"
  /\ B # {} /\ B \subseteq job.todo /\ Cardinality(B) <= BatchSize
  /\ \/ job' = [job EXCEPT !.todo = @ \ B, !.orphans = @ \cup Missing(B)]
     \/ faulty /\ job' = [job EXCEPT !.todo = @ \ B]
  /\ UNCHANGED <<faulty, db, s3, session, request, notified, condemned>>

(* The listing is exhausted or ends with an error; the orphans found so far *)
(* are deleted in either case.                                              *)
EndListing ==
  /\ job.pc = "checking"
  /\ job.todo = {} \/ faulty
  /\ job' = [job EXCEPT !.pc = "deleting", !.todo = {}]
  /\ UNCHANGED <<faulty, db, s3, session, request, notified, condemned>>

(* DeleteObjects for one batch: the keys S are deleted, the others failed.  *)
DeleteOrphans(B, S) ==
  /\ job.pc = "deleting"
  /\ B # {} /\ B \subseteq job.orphans /\ Cardinality(B) <= BatchSize
  /\ S \subseteq B /\ (S = B \/ faulty)
  /\ objects' = objects \ S
  /\ job' = [job EXCEPT !.orphans = @ \ B]
  /\ UNCHANGED <<faulty, db, age, session, request, notified, condemned>>

EndCleanup ==
  /\ job.pc = "deleting" /\ job.orphans = {}
  /\ job' = IdleJob
  /\ UNCHANGED <<faulty, db, s3, session, request, notified, condemned>>

Cleanup ==
  \/ StartCleanup \/ EndListing \/ EndCleanup
  \/ \E B \in SUBSET Key : CheckBatch(B)
  \/ \E B \in SUBSET Key : \E S \in SUBSET B : DeleteOrphans(B, S)

-------------------------------------------------------------------------------
(* Time passes for the objects and for the processing contexts.             *)
Tick ==
  /\ age' = [k \in Key |-> IF k \in objects /\ age[k] < AgeThreshold
                           THEN age[k] + 1 ELSE age[k]]
  /\ session' = [m \in Message |->
       [session[m] EXCEPT !.left = IF @ > 0 THEN @ - 1 ELSE @]]
  /\ UNCHANGED <<faulty, db, objects, request, job, notified, condemned>>

(* The process dies: sessions, requests and the job's run are in memory     *)
(* only.  A message that was not answered yet has no reply.                 *)
Crash ==
  /\ faulty
  /\ session' = [m \in Message |->
       IF session[m].pc \in {"idle", "replied250"} THEN session[m]
       ELSE [IdleSession EXCEPT !.pc = "dead"]]
  /\ request' = [d \in Request |-> IdleRequest]
  /\ job' = IdleJob
  /\ UNCHANGED <<faulty, db, s3, notified, condemned>>

Next ==
  \/ \E m \in Message : ReceiveData(m) \/ Process(m)
  \/ \E d \in Request : Delete(d)
  \/ Cleanup
  \/ Tick
  \/ Crash

Spec == Init /\ [][Next]_vars

(* Weak fairness where the code just goes on: a session's processing, the   *)
(* clock and the job's own steps (the ticker starts a run after every       *)
(* interval).  Strong fairness for the calls the job needs: a call that is  *)
(* tried again and again does not fail every time, and the process is not   *)
(* killed before it every time.  Requests are under no obligation.          *)
FindsOrphan(k) == \E B \in SUBSET Key : CheckBatch(B) /\ k \in job'.orphans
DeletesOrphan(k) ==
  \E B \in SUBSET Key : \E S \in SUBSET B : DeleteOrphans(B, S) /\ k \in S

FairSpec ==
  /\ Spec
  /\ \A m \in Message : WF_vars(Process(m))
  /\ WF_vars(Tick)
  /\ WF_vars(Cleanup)
  /\ SF_vars(StartCleanup)
  /\ \A k \in Key : /\ SF_vars(FindsOrphan(k))
                    /\ SF_vars(EndListing /\ k \in job.orphans)
                    /\ SF_vars(DeletesOrphan(k))

-------------------------------------------------------------------------------
Session == [pc : {"idle", "next", "upload", "attach", "publish", "replied250", "dead"},
            todo : SUBSET Alias, rcpt : Alias \cup {NoAlias}, rest : SUBSET Part,
            processed : SUBSET Part, left : 0..IngestTimeout]
Deletion == [pc : {"idle", "listed", "purged"},
             emails : SUBSET Email, aliases : SUBSET Alias, keys : SUBSET Key]
Run == [pc : {"idle", "checking", "deleting"}, todo : SUBSET Key, orphans : SUBSET Key]

(* The shape of the stores' contents and of what each actor holds in memory.*)
TypeOK ==
  /\ aliases \in SUBSET Alias /\ emails \in SUBSET Email /\ rows \in SUBSET Key
  /\ objects \in SUBSET Key /\ age \in [Key -> 0..AgeThreshold]
  /\ session \in [Message -> Session]
  /\ request \in [Request -> Deletion]
  /\ job \in Run
  /\ faulty \in BOOLEAN
  /\ notified \in SUBSET Email
  /\ condemned \in SUBSET Key

(* An attachment in the database can be downloaded: its object is there     *)
(* until some deletion request has listed its key.  In particular the       *)
(* orphan job (orphan_cleanup.go:250-425), which compares a listing with    *)
(* the database at different times, never takes the object of an attachment *)
(* that has a row by then or gets one later.                                *)
AttachmentsKeepTheirObjects ==
  \A k \in rows : k \in objects \/ k \in condemned

(* What is uploaded and may still get its row is not among the keys the job *)
(* is about to delete: the processing context (session.go:361) expires      *)
(* before an object counts as old (orphan_cleanup.go:282).                  *)
Pending(m) ==
  IF session[m].pc \in {"upload", "attach"} /\ session[m].left > 0
  THEN {<<Current(m), p>> : p \in session[m].processed} ELSE {}

JobSparesUploads ==
  \A m \in Message :
    /\ Pending(m) \subseteq objects
    /\ Pending(m) \cap (job.todo \cup job.orphans) = {}

(* The event comes after the rows: whoever reads an email that was          *)
(* announced finds all its stored attachments (processor.go:197-228), as    *)
(* long as no call fails.                                                   *)
AnnouncedMailIsComplete ==
  ~faulty => \A e \in notified \cap emails :
               \A k \in KeysOf({e}) \cap objects : k \in rows

(* Nothing outlives its parent: when an alias, or an email, has been        *)
(* deleted while mail for it is still being processed, no email or          *)
(* attachment row remains or appears (adapters.go:76-98, 126-146).          *)
NoRowOutlivesItsParent ==
  /\ \A e \in emails : e[2] \in aliases
  /\ \A k \in rows : k[1] \in emails

(* An object without a row does not stay for ever: whether an upload was    *)
(* followed by an error or a crash, a deletion missed it or failed to       *)
(* delete it, or a domain was deleted with everything under it.             *)
OrphansGo ==
  \A k \in Key : (k \in objects \ rows) ~> (k \notin objects \/ k \in rows)

(* Processing ends: the client gets its answer unless the process dies.     *)
DataIsAnswered ==
  \A m \in Message :
    (session[m].pc # "idle") ~> (session[m].pc \in {"replied250", "dead"})

===============================================================================
