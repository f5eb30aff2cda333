---------------------------- MODULE MailStoreProofs ----------------------------
(* Proofs about MailStore: no attachment in the database loses its object   *)
(* to the orphan job, no row outlives its parent, and the job spares        *)
(* uploads, for any number of messages, aliases, attachments and concurrent *)
(* deletions, with and without failing calls and crashes.                   *)
EXTENDS MailStore, TLAPS

KeyOf(m, a, p) == <<<<m, a>>, p>>

(* The keys that anything but an upload in progress knows of.               *)
Used == objects \cup rows \cup condemned \cup job.todo \cup job.orphans

(* The recipient being processed has been taken off the list.               *)
RecipientIsTaken(m) ==
  session[m].pc \in {"upload", "attach", "publish"} =>
    session[m].rcpt \in Alias /\ session[m].rcpt \notin session[m].todo

(* Nothing has happened yet for the recipients that are still to come.      *)
ComingIsFresh(m) ==
  \A a \in Alias, p \in Part :
    session[m].pc = "idle" \/ a \in session[m].todo => KeyOf(m, a, p) \notin Used

(* Nothing has happened yet for the attachments that are still to come.     *)
RestIsFresh(m) ==
  session[m].pc = "upload" =>
    \A p \in session[m].rest :
      p \notin session[m].processed /\ KeyOf(m, session[m].rcpt, p) \notin Used

(* An email in the making has no attachment rows, so no deletion lists one. *)
NoRowsYet(m) ==
  session[m].pc \in {"upload", "attach"} =>
    \A p \in Part : KeyOf(m, session[m].rcpt, p) \notin rows \cup condemned

(* What may still get its row is in the bucket, too young for the job, and  *)
(* the younger the more time the processing has left.                       *)
PendingIsSafe(m) ==
  session[m].pc \in {"upload", "attach"} /\ session[m].left > 0 =>
    \A p \in session[m].processed :
      /\ KeyOf(m, session[m].rcpt, p) \in objects
      /\ age[KeyOf(m, session[m].rcpt, p)] + session[m].left <= IngestTimeout
      /\ KeyOf(m, session[m].rcpt, p) \notin job.todo \cup job.orphans

SessionInv(m) ==
  /\ RecipientIsTaken(m) /\ ComingIsFresh(m) /\ RestIsFresh(m)
  /\ NoRowsYet(m) /\ PendingIsSafe(m)

(* Deletions only delete objects whose keys they have listed.               *)
RequestsCondemn == \A d \in Request : request[d].keys \subseteq condemned

(* What the job is about to delete has no row.                              *)
OrphansHaveNoRow == job.orphans \cap rows = {}

Inv ==
  /\ TypeOK
  /\ \A m \in Message : SessionInv(m)
  /\ RequestsCondemn
  /\ OrphansHaveNoRow
  /\ NoRowOutlivesItsParent
  /\ AttachmentsKeepTheirObjects

-------------------------------------------------------------------------------
(* A key is known by its message, recipient and part.                       *)
LEMMA KeyFacts ==
  /\ \A m \in Message, a \in Alias, p \in Part : KeyOf(m, a, p) \in Key
  /\ \A m, a, p, n, b, q : KeyOf(m, a, p) = KeyOf(n, b, q) => m = n /\ a = b /\ p = q
  /\ \A k \in Key : \E m \in Message, a \in Alias, p \in Part : k = KeyOf(m, a, p)
BY DEF KeyOf, Key, Email

(* The session of message m becomes s and no other one changes.             *)
LEMMA OneSession ==
  ASSUME TypeOK, NEW m \in Message, NEW s \in Session,
         session' = [session EXCEPT ![m] = s]
  PROVE  /\ session' \in [Message -> Session]
         /\ session'[m] = s
         /\ \A n \in Message \ {m} : session'[n] = session[n]
BY DEF TypeOK

LEMMA InitInv == Init => Inv
<1> SUFFICES ASSUME Init PROVE Inv
  OBVIOUS
<1> USE MailStoreAssumption
<1>1. IdleSession \in Session /\ IdleRequest \in Deletion /\ IdleJob \in Run
  BY DEF IdleSession, Session, IdleRequest, Deletion, IdleJob, Run
<1>2. TypeOK
  <2>1. faulty \in BOOLEAN
    BY DEF Init
  <2>2. age \in [Key -> 0..AgeThreshold]
    BY DEF Init
  <2>3. /\ session \in [Message -> Session] /\ request \in [Request -> Deletion]
        /\ job \in Run
    BY <1>1 DEF Init
  <2>4. /\ aliases \in SUBSET Alias /\ emails \in SUBSET Email /\ rows \in SUBSET Key
        /\ objects \in SUBSET Key /\ notified \in SUBSET Email
        /\ condemned \in SUBSET Key
    BY DEF Init
  <2> QED BY <2>1, <2>2, <2>3, <2>4 DEF TypeOK
<1>3. ASSUME NEW m \in Message PROVE SessionInv(m)
  <2>1. session[m].pc = "idle" /\ Used = {}
    BY <1>3 DEF Init, IdleSession, Used, IdleJob
  <2> QED BY <2>1 DEF SessionInv, RecipientIsTaken, ComingIsFresh, RestIsFresh,
                      NoRowsYet, PendingIsSafe
<1>4. RequestsCondemn /\ OrphansHaveNoRow
  BY DEF Init, RequestsCondemn, OrphansHaveNoRow, IdleRequest, IdleJob
<1>5. NoRowOutlivesItsParent /\ AttachmentsKeepTheirObjects
  BY DEF Init, NoRowOutlivesItsParent, AttachmentsKeepTheirObjects
<1> QED BY <1>2, <1>3, <1>4, <1>5 DEF Inv

-------------------------------------------------------------------------------
(* A step that leaves the session of m alone preserves its invariant if it  *)
(* makes no key of m known, takes away no object that is neither condemned  *)
(* nor an orphan, and gives the job only old objects.                       *)
LEMMA Frame ==
  ASSUME TypeOK, NEW m \in Message, SessionInv(m),
         session'[m] = session[m],
         \A a \in Alias, p \in Part :
           /\ KeyOf(m, a, p) \in Used' => KeyOf(m, a, p) \in Used
           /\ KeyOf(m, a, p) \in rows' \cup condemned' =>
                KeyOf(m, a, p) \in rows \cup condemned
           /\ KeyOf(m, a, p) \in objects \ (job.orphans \cup condemned) =>
                KeyOf(m, a, p) \in objects' /\ age'[KeyOf(m, a, p)] = age[KeyOf(m, a, p)]
           /\ KeyOf(m, a, p) \in job'.todo \cup job'.orphans =>
                \/ KeyOf(m, a, p) \in job.todo \cup job.orphans
                \/ age[KeyOf(m, a, p)] = AgeThreshold
  PROVE  SessionInv(m)'
<1>1. /\ session[m].rest \in SUBSET Part /\ session[m].processed \in SUBSET Part
      /\ session[m].todo \in SUBSET Alias /\ session[m].left \in Nat
  BY MailStoreAssumption DEF TypeOK, Session
<1>2. RecipientIsTaken(m)'
  BY DEF SessionInv, RecipientIsTaken
<1>3. ComingIsFresh(m)'
  BY DEF SessionInv, ComingIsFresh
<1>4. RestIsFresh(m)'
  BY <1>1 DEF SessionInv, RecipientIsTaken, RestIsFresh
<1>5. NoRowsYet(m)'
  BY <1>1 DEF SessionInv, RecipientIsTaken, NoRowsYet
<1>6. PendingIsSafe(m)'
  <2> SUFFICES ASSUME session[m].pc \in {"upload", "attach"}, session[m].left > 0,
                      NEW p \in session[m].processed
               PROVE  /\ KeyOf(m, session[m].rcpt, p) \in objects'
                      /\ age'[KeyOf(m, session[m].rcpt, p)] + session[m].left
                           <= IngestTimeout
                      /\ KeyOf(m, session[m].rcpt, p) \notin job'.todo \cup job'.orphans
    BY DEF PendingIsSafe
  <2>1. PICK k \in Key : k = KeyOf(m, session[m].rcpt, p)
    BY <1>1, KeyFacts DEF SessionInv, RecipientIsTaken
  <2>2. /\ k \in objects /\ age[k] + session[m].left <= IngestTimeout
        /\ k \notin job.todo \cup job.orphans
    BY <2>1 DEF SessionInv, PendingIsSafe
  <2>3. k \notin rows \cup condemned
    BY <1>1, <2>1 DEF SessionInv, NoRowsYet
  <2>4. age[k] \in Nat /\ age[k] # AgeThreshold
    BY <2>2, <1>1, MailStoreAssumption DEF TypeOK
  <2>5. k \in objects' /\ age'[k] = age[k]
    BY <1>1, <2>1, <2>2, <2>3 DEF SessionInv, RecipientIsTaken
  <2>6. k \notin job'.todo \cup job'.orphans
    BY <1>1, <2>1, <2>2, <2>4 DEF SessionInv, RecipientIsTaken
  <2> QED BY <2>1, <2>2, <2>5, <2>6
<1> QED BY <1>2, <1>3, <1>4, <1>5, <1>6 DEF SessionInv

(* A deletion lists keys of rows; nothing else changes.                     *)
LEMMA ListStep ==
  ASSUME Inv, NEW d \in Request,
         NEW E \in SUBSET Email, NEW A \in SUBSET Alias, NEW K \in SUBSET rows,
         NEW next \in {"listed", "purged"}, List(d, E, A, K, next)
  PROVE  Inv'
<1> USE DEF Inv
<1>1. PICK r \in Deletion : r.keys = K /\ request' = [request EXCEPT ![d] = r]
  <2>1. K \in SUBSET Key
    BY DEF TypeOK
  <2> QED BY <2>1 DEF List, Deletion
<1>2. /\ condemned' = condemned \cup K
      /\ UNCHANGED <<faulty, aliases, emails, rows, objects, age, session, job,
                     notified>>
  BY DEF List, db, s3
<1>3. TypeOK'
  <2>1. request' \in [Request -> Deletion]
    BY <1>1 DEF TypeOK
  <2>2. condemned' \in SUBSET Key
    BY <1>2 DEF TypeOK
  <2> QED BY <1>2, <2>1, <2>2 DEF TypeOK
<1>4. ASSUME NEW m \in Message PROVE SessionInv(m)'
  <2>1. Used' = Used /\ rows' \cup condemned' = rows \cup condemned
    BY <1>2 DEF Used
  <2> QED BY <1>2, <2>1, Frame
<1>5. RequestsCondemn'
  BY <1>1, <1>2 DEF RequestsCondemn, TypeOK
<1>6. OrphansHaveNoRow' /\ NoRowOutlivesItsParent' /\ AttachmentsKeepTheirObjects'
  BY <1>2 DEF OrphansHaveNoRow, NoRowOutlivesItsParent, AttachmentsKeepTheirObjects
<1> QED BY <1>3, <1>4, <1>5, <1>6

LEMMA DeleteByKeysStep ==
  ASSUME Inv, NEW d \in Request, DeleteByKeys(d)
  PROVE  Inv'
<1> USE DEF Inv
<1>1. PICK S \in SUBSET request[d].keys : objects' = objects \ S
  BY DEF DeleteByKeys
<1>2. /\ request' = [request EXCEPT ![d].pc = "purged"]
      /\ UNCHANGED <<faulty, aliases, emails, rows, age, session, job, notified,
                     condemned>>
  BY DEF DeleteByKeys, db
<1>3. S \subseteq condemned
  BY DEF RequestsCondemn
<1>4. /\ request' \in [Request -> Deletion]
      /\ \A x \in Request : request'[x].keys = request[x].keys
  BY <1>2 DEF TypeOK, Deletion
<1>5. TypeOK'
  BY <1>1, <1>2, <1>4 DEF TypeOK
<1>6. ASSUME NEW m \in Message PROVE SessionInv(m)'
  <2>1. Used' \subseteq Used
    BY <1>1, <1>2 DEF Used
  <2> QED BY <1>1, <1>2, <1>3, <2>1, Frame
<1>7. RequestsCondemn'
  BY <1>2, <1>4 DEF RequestsCondemn
<1>8. AttachmentsKeepTheirObjects'
  BY <1>1, <1>2, <1>3 DEF AttachmentsKeepTheirObjects
<1>9. OrphansHaveNoRow' /\ NoRowOutlivesItsParent'
  BY <1>2 DEF OrphansHaveNoRow, NoRowOutlivesItsParent
<1> QED BY <1>5, <1>6, <1>7, <1>8, <1>9

(* The cascade takes the rows with their parents.                           *)
LEMMA DeleteRowsStep ==
  ASSUME Inv, NEW d \in Request, DeleteRows(d)
  PROVE  Inv'
<1> USE DEF Inv
<1>1. request' = [request EXCEPT ![d] = IdleRequest]
  BY DEF DeleteRows
<1>2. UNCHANGED <<faulty, objects, age, session, job, notified, condemned>>
  BY DEF DeleteRows, s3
<1>3. /\ aliases' \subseteq aliases /\ emails' \subseteq emails /\ rows' \subseteq rows
  BY DEF DeleteRows, db
<1>4. TypeOK'
  <2>1. request' \in [Request -> Deletion]
    BY <1>1 DEF TypeOK, IdleRequest, Deletion
  <2> QED BY <1>2, <1>3, <2>1 DEF TypeOK
<1>5. ASSUME NEW m \in Message PROVE SessionInv(m)'
  <2>1. Used' \subseteq Used
    BY <1>2, <1>3 DEF Used
  <2> QED BY <1>2, <1>3, <2>1, Frame
<1>6. RequestsCondemn'
  BY <1>1, <1>2 DEF RequestsCondemn, IdleRequest, TypeOK
<1>7. OrphansHaveNoRow' /\ AttachmentsKeepTheirObjects'
  BY <1>2, <1>3 DEF OrphansHaveNoRow, AttachmentsKeepTheirObjects
<1>8. NoRowOutlivesItsParent'
  <2>1. CASE UNCHANGED db
    BY <2>1 DEF db, NoRowOutlivesItsParent
  <2>2. CASE ~ UNCHANGED db
    <3>1. PICK A, E : /\ E = request[d].emails \cup EmailsOf(A)
                      /\ aliases' = aliases \ A /\ emails' = emails \ E
                      /\ rows' = rows \ KeysOf(E)
      BY <2>2 DEF DeleteRows
    <3>2. ASSUME NEW e \in emails' PROVE e[2] \in aliases'
      BY <3>1 DEF TypeOK, EmailsOf, NoRowOutlivesItsParent
    <3>3. ASSUME NEW k \in rows' PROVE k[1] \in emails'
      BY <3>1 DEF TypeOK, KeysOf, NoRowOutlivesItsParent
    <3> QED BY <3>2, <3>3 DEF NoRowOutlivesItsParent
  <2> QED BY <2>1, <2>2
<1> QED BY <1>4, <1>5, <1>6, <1>7, <1>8

-------------------------------------------------------------------------------
(* The steps of the job that only change what it has in memory: it takes up *)
(* old objects, and what it takes up as orphans has no row.                 *)
LEMMA JobStep ==
  ASSUME Inv, job' \in Run,
         UNCHANGED <<faulty, aliases, emails, rows, objects, age, session, request,
                     notified, condemned>>,
         \A k \in job'.todo : k \in job.todo \/ k \in Old,
         \A k \in job'.orphans : k \in job.orphans \/ k \in job.todo \ rows
  PROVE  Inv'
<1> USE DEF Inv
<1>1. TypeOK'
  BY DEF TypeOK
<1>2. ASSUME NEW m \in Message PROVE SessionInv(m)'
  <2>1. Used' \subseteq Used
    BY DEF Used, Old
  <2>2. \A k \in job'.todo \cup job'.orphans :
          k \in job.todo \cup job.orphans \/ age[k] = AgeThreshold
    BY DEF Old
  <2> QED BY <2>1, <2>2, Frame
<1>3. OrphansHaveNoRow'
  BY DEF OrphansHaveNoRow
<1>4. RequestsCondemn' /\ NoRowOutlivesItsParent' /\ AttachmentsKeepTheirObjects'
  BY DEF RequestsCondemn, NoRowOutlivesItsParent, AttachmentsKeepTheirObjects
<1> QED BY <1>1, <1>2, <1>3, <1>4

(* The orphans have no row, so none loses its object.                       *)
LEMMA DeleteOrphansStep ==
  ASSUME Inv, NEW B \in SUBSET Key, NEW S \in SUBSET B, DeleteOrphans(B, S)
  PROVE  Inv'
<1> USE DEF Inv
<1>1. /\ S \subseteq job.orphans
      /\ objects' = objects \ S
      /\ job' = [job EXCEPT !.orphans = @ \ B]
      /\ UNCHANGED <<faulty, aliases, emails, rows, age, session, request, notified,
                     condemned>>
  BY DEF DeleteOrphans, db
<1>2. job' \in Run /\ job'.todo = job.todo /\ job'.orphans \subseteq job.orphans
  BY <1>1 DEF TypeOK, Run
<1>3. TypeOK'
  BY <1>1, <1>2 DEF TypeOK
<1>4. ASSUME NEW m \in Message PROVE SessionInv(m)'
  <2>1. Used' \subseteq Used
    BY <1>1, <1>2 DEF Used
  <2> QED BY <1>1, <1>2, <2>1, Frame
<1>5. AttachmentsKeepTheirObjects'
  BY <1>1 DEF AttachmentsKeepTheirObjects, OrphansHaveNoRow
<1>6. OrphansHaveNoRow'
  BY <1>1, <1>2 DEF OrphansHaveNoRow
<1>7. RequestsCondemn' /\ NoRowOutlivesItsParent'
  BY <1>1 DEF RequestsCondemn, NoRowOutlivesItsParent
<1> QED BY <1>3, <1>4, <1>5, <1>6, <1>7

LEMMA CleanupStep == Inv /\ Cleanup => Inv'
<1> SUFFICES ASSUME Inv, Cleanup PROVE Inv'
  OBVIOUS
<1>1. job \in Run /\ objects \in SUBSET Key /\ rows \in SUBSET Key
  BY DEF Inv, TypeOK
<1>2. CASE StartCleanup
  <2>1. job' = [pc |-> "checking", todo |-> Old, orphans |-> {}]
    BY <1>2 DEF StartCleanup
  <2>2. job' \in Run
    BY <1>1, <2>1 DEF Run, Old
  <2> QED BY <1>2, <2>1, <2>2, JobStep DEF StartCleanup, db, s3
<1>3. CASE EndListing
  <2>1. job' \in Run /\ job'.todo = {} /\ job'.orphans = job.orphans
    BY <1>1, <1>3 DEF EndListing, Run
  <2> QED BY <1>3, <2>1, JobStep DEF EndListing, db, s3
<1>4. CASE EndCleanup
  <2>1. job' \in Run /\ job'.todo = {} /\ job'.orphans = {}
    BY <1>4 DEF EndCleanup, Run, IdleJob
  <2> QED BY <1>4, <2>1, JobStep DEF EndCleanup, db, s3
<1>5. ASSUME NEW B \in SUBSET Key, CheckBatch(B) PROVE Inv'
  <2>1. PICK O \in SUBSET (job.todo \ rows) :
          job' = [job EXCEPT !.todo = @ \ B, !.orphans = @ \cup O]
    <3>1. CASE job' = [job EXCEPT !.todo = @ \ B, !.orphans = @ \cup Missing(B)]
      <4>1. Missing(B) \in SUBSET (job.todo \ rows)
        BY <1>5 DEF CheckBatch, Missing
      <4> QED BY <3>1, <4>1
    <3>2. CASE job' = [job EXCEPT !.todo = @ \ B]
      <4>1. job' = [job EXCEPT !.todo = @ \ B, !.orphans = @ \cup {}]
        BY <1>1, <3>2 DEF Run
      <4> QED BY <4>1
    <3> QED BY <1>5, <3>1, <3>2 DEF CheckBatch
  <2>2. /\ job' \in Run /\ job'.todo \subseteq job.todo
        /\ job'.orphans = job.orphans \cup O
    BY <1>1, <2>1 DEF Run
  <2> QED BY <1>5, <2>1, <2>2, JobStep DEF CheckBatch, db, s3
<1> QED BY <1>2, <1>3, <1>4, <1>5, DeleteOrphansStep DEF Cleanup

(* A tick takes from the session what it adds to the age.                   *)
LEMMA TickStep == Inv /\ Tick => Inv'
<1> SUFFICES ASSUME Inv, Tick PROVE Inv'
  OBVIOUS
<1> USE DEF Inv
<1>1. UNCHANGED <<faulty, aliases, emails, rows, objects, request, job, notified,
                  condemned>>
  BY DEF Tick, db
<1>2. \A m \in Message :
        /\ session'[m] \in Session
        /\ session'[m].pc = session[m].pc /\ session'[m].todo = session[m].todo
        /\ session'[m].rcpt = session[m].rcpt /\ session'[m].rest = session[m].rest
        /\ session'[m].processed = session[m].processed
        /\ session'[m].left = IF session[m].left > 0 THEN session[m].left - 1
                              ELSE session[m].left
  <2> SUFFICES ASSUME NEW m \in Message, NEW s \in Session, s = session[m],
                      session'[m] = [s EXCEPT !.left = IF s.left > 0 THEN s.left - 1
                                                       ELSE s.left]
               PROVE  /\ session'[m] \in Session
                      /\ session'[m].pc = s.pc /\ session'[m].todo = s.todo
                      /\ session'[m].rcpt = s.rcpt /\ session'[m].rest = s.rest
                      /\ session'[m].processed = s.processed
                      /\ session'[m].left = IF s.left > 0 THEN s.left - 1 ELSE s.left
    BY DEF Tick, TypeOK
  <2>1. (IF s.left > 0 THEN s.left - 1 ELSE s.left) \in 0..IngestTimeout
    BY MailStoreAssumption DEF Session
  <2> QED BY <2>1 DEF Session
<1>3. \A k \in Key : /\ age'[k] \in 0..AgeThreshold
                     /\ age'[k] <= age[k] + 1
  BY MailStoreAssumption DEF Tick, TypeOK
<1>4. TypeOK'
  <2>1. session' \in [Message -> Session]
    BY <1>2 DEF Tick
  <2>2. age' \in [Key -> 0..AgeThreshold]
    BY <1>3 DEF Tick
  <2> QED BY <1>1, <2>1, <2>2 DEF TypeOK
<1>5. ASSUME NEW m \in Message PROVE SessionInv(m)'
  <2>1. Used' = Used
    BY <1>1 DEF Used
  <2>2. RecipientIsTaken(m)' /\ ComingIsFresh(m)' /\ RestIsFresh(m)' /\ NoRowsYet(m)'
    BY <1>1, <1>2, <2>1 DEF SessionInv, RecipientIsTaken, ComingIsFresh, RestIsFresh,
                            NoRowsYet
  <2>3. PendingIsSafe(m)'
    <3> SUFFICES ASSUME session[m].pc \in {"upload", "attach"}, session'[m].left > 0,
                        NEW p \in session[m].processed
                 PROVE  /\ KeyOf(m, session[m].rcpt, p) \in objects
                        /\ age'[KeyOf(m, session[m].rcpt, p)] + session'[m].left
                             <= IngestTimeout
                        /\ KeyOf(m, session[m].rcpt, p) \notin job.todo \cup job.orphans
      BY <1>1, <1>2 DEF PendingIsSafe
    <3>1. session[m].left \in Nat /\ session[m].processed \in SUBSET Part
      BY MailStoreAssumption DEF TypeOK, Session
    <3>2. session[m].left > 0 /\ session'[m].left = session[m].left - 1
      BY <1>2, <3>1
    <3>3. PICK k \in Key : k = KeyOf(m, session[m].rcpt, p)
      BY <3>1, KeyFacts DEF SessionInv, RecipientIsTaken
    <3>4. /\ k \in objects /\ age[k] + session[m].left <= IngestTimeout
          /\ k \notin job.todo \cup job.orphans
      BY <3>2, <3>3 DEF SessionInv, PendingIsSafe
    <3>5. age[k] \in Nat /\ age'[k] \in Nat /\ age'[k] <= age[k] + 1
      BY <1>3, MailStoreAssumption DEF TypeOK
    <3> QED BY <3>1, <3>2, <3>3, <3>4, <3>5, MailStoreAssumption
  <2> QED BY <2>2, <2>3 DEF SessionInv
<1>6. /\ RequestsCondemn' /\ OrphansHaveNoRow' /\ NoRowOutlivesItsParent'
      /\ AttachmentsKeepTheirObjects'
  BY <1>1 DEF RequestsCondemn, OrphansHaveNoRow, NoRowOutlivesItsParent,
              AttachmentsKeepTheirObjects
<1> QED BY <1>4, <1>5, <1>6

(* A crash forgets what was in memory; the stores keep what they have.      *)
LEMMA CrashStep == Inv /\ Crash => Inv'
<1> SUFFICES ASSUME Inv, Crash PROVE Inv'
  OBVIOUS
<1> USE DEF Inv
<1>1. /\ request' = [d \in Request |-> IdleRequest] /\ job' = IdleJob
      /\ UNCHANGED <<faulty, aliases, emails, rows, objects, age, notified,
                     condemned>>
  BY DEF Crash, db, s3
<1>2. ASSUME NEW m \in Message
      PROVE  /\ session'[m] \in Session
             /\ \/ session'[m] = session[m]
                \/ session'[m].pc = "dead" /\ session'[m].todo = {}
  <2>1. [IdleSession EXCEPT !.pc = "dead"] \in Session
    BY MailStoreAssumption DEF IdleSession, Session
  <2>2. CASE session[m].pc \in {"idle", "replied250"}
    BY <2>2 DEF Crash, TypeOK
  <2>3. CASE session[m].pc \notin {"idle", "replied250"}
    BY <2>1, <2>3 DEF Crash, IdleSession
  <2> QED BY <2>2, <2>3
<1>3. TypeOK'
  <2>1. session' \in [Message -> Session]
    BY <1>2 DEF Crash
  <2>2. IdleRequest \in Deletion /\ IdleJob \in Run
    BY DEF IdleRequest, Deletion, IdleJob, Run
  <2> QED BY <1>1, <2>1, <2>2 DEF TypeOK
<1>4. ASSUME NEW m \in Message PROVE SessionInv(m)'
  <2>1. CASE session'[m] = session[m]
    <3>1. Used' \subseteq Used
      BY <1>1 DEF Used, IdleJob
    <3> QED BY <1>1, <2>1, <3>1, Frame DEF IdleJob
  <2>2. CASE session'[m].pc = "dead" /\ session'[m].todo = {}
    BY <2>2 DEF SessionInv, RecipientIsTaken, ComingIsFresh, RestIsFresh, NoRowsYet,
                PendingIsSafe
  <2> QED BY <1>2, <2>1, <2>2
<1>5. /\ RequestsCondemn' /\ OrphansHaveNoRow' /\ NoRowOutlivesItsParent'
      /\ AttachmentsKeepTheirObjects'
  BY <1>1 DEF RequestsCondemn, OrphansHaveNoRow, NoRowOutlivesItsParent,
              AttachmentsKeepTheirObjects, IdleRequest, IdleJob
<1> QED BY <1>3, <1>4, <1>5

-------------------------------------------------------------------------------
(* A step of the session of m that changes neither the bucket nor the       *)
(* attachment rows only has to preserve that session's own invariant.       *)
LEMMA QuietSessionStep ==
  ASSUME Inv, NEW m \in Message, SessionInv(m)',
         session' \in [Message -> Session],
         \A n \in Message \ {m} : session'[n] = session[n],
         UNCHANGED <<faulty, aliases, rows, objects, age, request, job, condemned>>,
         emails' \in SUBSET Email, emails \subseteq emails',
         \A e \in emails' : e[2] \in aliases,
         notified' \in SUBSET Email
  PROVE  Inv'
<1> USE DEF Inv
<1>1. TypeOK'
  BY DEF TypeOK
<1>2. ASSUME NEW n \in Message PROVE SessionInv(n)'
  <2>1. CASE n # m
    <3>1. Used' = Used
      BY DEF Used
    <3> QED BY <2>1, <3>1, Frame
  <2> QED BY <2>1
<1>3. NoRowOutlivesItsParent'
  BY DEF NoRowOutlivesItsParent
<1>4. RequestsCondemn' /\ OrphansHaveNoRow' /\ AttachmentsKeepTheirObjects'
  BY DEF RequestsCondemn, OrphansHaveNoRow, AttachmentsKeepTheirObjects
<1> QED BY <1>1, <1>2, <1>3, <1>4

(* All recipients of a new message are fresh.                               *)
LEMMA ReceiveDataStep ==
  ASSUME Inv, NEW m \in Message, ReceiveData(m)
  PROVE  Inv'
<1> USE DEF Inv
<1>1. PICK R \in SUBSET Alias :
        session' = [session EXCEPT ![m].pc = "next", ![m].todo = R,
                                   ![m].left = IngestTimeout]
  BY DEF ReceiveData, TypeOK
<1>2. /\ session[m].pc = "idle"
      /\ UNCHANGED <<faulty, aliases, emails, rows, objects, age, request, job,
                     notified, condemned>>
  BY DEF ReceiveData, db, s3
<1>3. /\ session' \in [Message -> Session]
      /\ session'[m].pc = "next" /\ session'[m].todo = R
      /\ \A n \in Message \ {m} : session'[n] = session[n]
  <2>1. IngestTimeout \in 0..IngestTimeout
    BY MailStoreAssumption
  <2>2. PICK s : s = [session[m] EXCEPT !.pc = "next", !.todo = R, !.left = IngestTimeout]
    OBVIOUS
  <2>3. s \in Session /\ s.pc = "next" /\ s.todo = R
    <3>1. session[m] \in Session
      BY DEF TypeOK
    <3> QED BY <2>1, <2>2, <3>1 DEF Session
  <2>4. session' = [session EXCEPT ![m] = s]
    BY <1>1, <2>2
  <2> QED BY <2>3, <2>4, OneSession
<1>4. SessionInv(m)'
  <2>1. Used' = Used
    BY <1>2 DEF Used
  <2>2. ComingIsFresh(m)'
    BY <1>2, <2>1 DEF SessionInv, ComingIsFresh
  <2> QED BY <1>3, <2>2 DEF SessionInv, RecipientIsTaken, RestIsFresh, NoRowsYet,
                             PendingIsSafe
<1> QED BY <1>2, <1>3, <1>4, QuietSessionStep DEF TypeOK, NoRowOutlivesItsParent

(* The next recipient is taken off the list; all its keys are fresh.        *)
LEMMA LookupAliasStep ==
  ASSUME Inv, NEW m \in Message, LookupAlias(m)
  PROVE  Inv'
<1> USE DEF Inv
<1>1. /\ session[m].pc = "next" /\ session[m] \in Session
      /\ UNCHANGED <<faulty, aliases, emails, rows, objects, age, request, job,
                     notified, condemned>>
  BY DEF LookupAlias, db, s3, TypeOK
<1>2. Used' = Used
  BY <1>1 DEF Used
<1>3. PICK a \in session[m].todo :
        \/ session' = [session EXCEPT ![m].pc = "upload", ![m].rcpt = a,
                         ![m].todo = @ \ {a}, ![m].rest = Part, ![m].processed = {}]
        \/ session' = [session EXCEPT ![m].todo = @ \ {a}]
  BY DEF LookupAlias
<1>4. a \in Alias
  BY <1>1 DEF Session
<1>5. CASE session' = [session EXCEPT ![m].pc = "upload", ![m].rcpt = a,
                         ![m].todo = @ \ {a}, ![m].rest = Part, ![m].processed = {}]
  <2>1. /\ session' \in [Message -> Session]
        /\ session'[m].pc = "upload" /\ session'[m].rcpt = a
        /\ session'[m].todo = session[m].todo \ {a}
        /\ session'[m].rest = Part /\ session'[m].processed = {}
        /\ \A n \in Message \ {m} : session'[n] = session[n]
    BY <1>4, <1>5 DEF TypeOK, Session
  <2>2. \A p \in Part : KeyOf(m, a, p) \notin Used
    BY <1>4 DEF SessionInv, ComingIsFresh
  <2>3. RecipientIsTaken(m)' /\ ComingIsFresh(m)'
    BY <1>2, <1>4, <2>1 DEF SessionInv, RecipientIsTaken, ComingIsFresh
  <2>4. RestIsFresh(m)' /\ NoRowsYet(m)' /\ PendingIsSafe(m)'
    BY <1>2, <2>1, <2>2 DEF RestIsFresh, NoRowsYet, PendingIsSafe, Used
  <2> QED BY <1>1, <2>1, <2>3, <2>4, QuietSessionStep
          DEF SessionInv, TypeOK, NoRowOutlivesItsParent
<1>6. CASE session' = [session EXCEPT ![m].todo = @ \ {a}]
  <2>1. /\ session' \in [Message -> Session]
        /\ session'[m].pc = "next"
        /\ session'[m].todo = session[m].todo \ {a}
        /\ \A n \in Message \ {m} : session'[n] = session[n]
    BY <1>1, <1>4, <1>6 DEF TypeOK, Session
  <2>2. SessionInv(m)'
    BY <1>2, <2>1 DEF SessionInv, RecipientIsTaken, ComingIsFresh, RestIsFresh,
                      NoRowsYet, PendingIsSafe
  <2> QED BY <1>1, <2>1, <2>2, QuietSessionStep DEF TypeOK, NoRowOutlivesItsParent
<1> QED BY <1>3, <1>5, <1>6

(* The email row: its parent is there, and it has no attachments yet.       *)
LEMMA CreateEmailStep ==
  ASSUME Inv, NEW m \in Message, CreateEmail(m)
  PROVE  Inv'
<1> USE DEF Inv
<1>1. /\ session[m].pc = "upload" /\ session[m] \in Session
      /\ UNCHANGED <<faulty, aliases, rows, objects, age, request, job, notified,
                     condemned>>
  BY DEF CreateEmail, s3, TypeOK
<1>2. session[m].rcpt \in Alias /\ Current(m) \in Email /\ Current(m)[2] = session[m].rcpt
  BY <1>1 DEF SessionInv, RecipientIsTaken, Current, Email
<1>3. Used' = Used
  BY <1>1 DEF Used
<1>4. /\ emails' \in SUBSET Email /\ emails \subseteq emails'
      /\ \A e \in emails' : e[2] \in aliases
  <2>1. CASE UNCHANGED emails
    BY <2>1 DEF TypeOK, NoRowOutlivesItsParent
  <2>2. CASE /\ session[m].rcpt \in aliases
             /\ emails' = emails \cup {Current(m)}
    BY <1>2, <2>2 DEF TypeOK, NoRowOutlivesItsParent
  <2> QED BY <2>1, <2>2 DEF CreateEmail
<1>5. \/ session' = [session EXCEPT ![m].pc = "attach"]
      \/ session' = [session EXCEPT ![m].pc = "next"]
  BY DEF CreateEmail
<1>6. /\ session' \in [Message -> Session]
      /\ session'[m].pc \in {"attach", "next"}
      /\ session'[m].todo = session[m].todo /\ session'[m].rcpt = session[m].rcpt
      /\ session'[m].rest = session[m].rest
      /\ session'[m].processed = session[m].processed
      /\ session'[m].left = session[m].left
      /\ \A n \in Message \ {m} : session'[n] = session[n]
  <2>1. CASE session' = [session EXCEPT ![m].pc = "attach"]
    BY <2>1 DEF TypeOK, Session
  <2>2. CASE session' = [session EXCEPT ![m].pc = "next"]
    BY <2>2 DEF TypeOK, Session
  <2> QED BY <1>5, <2>1, <2>2
<1>7. SessionInv(m)'
  BY <1>1, <1>3, <1>6 DEF SessionInv, RecipientIsTaken, ComingIsFresh, RestIsFresh,
                          NoRowsYet, PendingIsSafe
<1>8. notified' \in SUBSET Email
  BY <1>1 DEF TypeOK
<1> QED BY <1>1, <1>4, <1>6, <1>7, <1>8, QuietSessionStep

LEMMA PublishNewEmailStep ==
  ASSUME Inv, NEW m \in Message, PublishNewEmail(m)
  PROVE  Inv'
<1> USE DEF Inv
<1>1. /\ session[m].pc = "publish" /\ session[m] \in Session
      /\ session' = [session EXCEPT ![m].pc = "next"]
      /\ UNCHANGED <<faulty, aliases, emails, rows, objects, age, request, job,
                     condemned>>
  BY DEF PublishNewEmail, db, s3, TypeOK
<1>2. Current(m) \in Email
  BY <1>1 DEF SessionInv, RecipientIsTaken, Current, Email
<1>3. notified' \in SUBSET Email
  BY <1>2 DEF PublishNewEmail, TypeOK
<1>4. /\ session' \in [Message -> Session]
      /\ session'[m].pc = "next" /\ session'[m].todo = session[m].todo
      /\ \A n \in Message \ {m} : session'[n] = session[n]
  BY <1>1 DEF TypeOK, Session
<1>5. Used' = Used
  BY <1>1 DEF Used
<1>6. SessionInv(m)'
  BY <1>4, <1>5 DEF SessionInv, RecipientIsTaken, ComingIsFresh, RestIsFresh,
                    NoRowsYet, PendingIsSafe
<1> QED BY <1>1, <1>3, <1>4, <1>6, QuietSessionStep DEF TypeOK, NoRowOutlivesItsParent

LEMMA ReplyStep ==
  ASSUME Inv, NEW m \in Message, Reply(m)
  PROVE  Inv'
<1> USE DEF Inv
<1>1. /\ session' = [session EXCEPT ![m].pc = "replied250"]
      /\ UNCHANGED <<faulty, aliases, emails, rows, objects, age, request, job, notified,
                     condemned>>
  BY DEF Reply, db, s3
<1>2. /\ session' \in [Message -> Session]
      /\ session'[m].pc = "replied250" /\ session'[m].todo = session[m].todo
      /\ \A n \in Message \ {m} : session'[n] = session[n]
  BY <1>1 DEF TypeOK, Session
<1>3. Used' = Used
  BY <1>1 DEF Used
<1>4. SessionInv(m)'
  BY <1>2, <1>3 DEF SessionInv, RecipientIsTaken, ComingIsFresh, RestIsFresh,
                    NoRowsYet, PendingIsSafe
<1> QED BY <1>1, <1>2, <1>4, QuietSessionStep DEF TypeOK, NoRowOutlivesItsParent

-------------------------------------------------------------------------------
(* What an upload of part p may change: p is no longer to come, and if its  *)
(* object was stored, with a fresh key, it may have been recorded.          *)
LEMMA UploadEffect ==
  ASSUME Inv, NEW m \in Message, session[m].pc = "upload",
         UNCHANGED <<faulty, aliases, emails, rows, request, job, notified,
                     condemned>>,
         session' \in [Message -> Session],
         \A n \in Message \ {m} : session'[n] = session[n],
         NEW p \in session[m].rest,
         session'[m].pc = "upload", session'[m].rest = session[m].rest \ {p},
         session'[m].todo = session[m].todo, session'[m].rcpt = session[m].rcpt,
         session'[m].left = session[m].left,
         \/ /\ session[m].left > 0
            /\ objects' = objects \cup {KeyOf(m, session[m].rcpt, p)}
            /\ age' = [age EXCEPT ![KeyOf(m, session[m].rcpt, p)] = 0]
            /\ session'[m].processed \in {session[m].processed,
                                          session[m].processed \cup {p}}
         \/ /\ UNCHANGED <<objects, age>>
            /\ session'[m].processed = session[m].processed
  PROVE  Inv'
<1> USE DEF Inv
<1>1. /\ session[m].rcpt \in Alias /\ session[m].rcpt \notin session[m].todo
      /\ session[m].rest \in SUBSET Part /\ session[m].processed \in SUBSET Part
      /\ session[m].todo \in SUBSET Alias
      /\ session[m].left \in Nat /\ session[m].left <= IngestTimeout
  BY MailStoreAssumption DEF SessionInv, RecipientIsTaken, TypeOK, Session
<1>2. PICK k \in Key : k = KeyOf(m, session[m].rcpt, p) /\ k \notin Used
  BY <1>1, KeyFacts DEF SessionInv, RestIsFresh
<1>3. /\ objects \subseteq objects' /\ objects' \subseteq objects \cup {k}
      /\ objects' \in SUBSET Key /\ age' \in [Key -> 0..AgeThreshold]
      /\ \A j \in Key \ {k} : age'[j] = age[j]
  <2>1. 0 \in 0..AgeThreshold
    BY MailStoreAssumption
  <2> QED BY <1>2, <2>1 DEF TypeOK
<1>4. Used' \subseteq Used \cup {k}
  BY <1>3 DEF Used
<1>5. TypeOK'
  BY <1>3 DEF TypeOK
<1>6. ASSUME NEW n \in Message \ {m} PROVE SessionInv(n)'
  <2>1. \A a \in Alias, q \in Part : KeyOf(n, a, q) \in Key \ {k}
    BY <1>1, <1>2, KeyFacts
  <2> QED BY <1>3, <1>4, <2>1, Frame
<1>7. SessionInv(m)'
  <2>1. \A q \in Part \ {p} : /\ KeyOf(m, session[m].rcpt, q) \in Key
                              /\ KeyOf(m, session[m].rcpt, q) # k
    BY <1>1, <1>2, KeyFacts
  <2>2. \A a \in session[m].todo, q \in Part : KeyOf(m, a, q) # k
    BY <1>1, <1>2, KeyFacts
  <2>3. RecipientIsTaken(m)'
    BY <1>1 DEF RecipientIsTaken
  <2>4. ComingIsFresh(m)'
    BY <1>1, <1>4, <2>2 DEF SessionInv, ComingIsFresh
  <2>5. RestIsFresh(m)'
    <3> SUFFICES ASSUME NEW q \in session[m].rest, q # p
                 PROVE  /\ q \notin session'[m].processed
                        /\ KeyOf(m, session[m].rcpt, q) \notin Used'
      BY DEF RestIsFresh
    <3>1. q \notin session[m].processed /\ KeyOf(m, session[m].rcpt, q) \notin Used
      BY DEF SessionInv, RestIsFresh
    <3> QED BY <1>1, <1>4, <2>1, <3>1
  <2>6. NoRowsYet(m)'
    BY DEF SessionInv, NoRowsYet
  <2>7. PendingIsSafe(m)'
    <3> SUFFICES ASSUME session[m].left > 0, NEW q \in session'[m].processed
                 PROVE  /\ KeyOf(m, session[m].rcpt, q) \in objects'
                        /\ age'[KeyOf(m, session[m].rcpt, q)] + session[m].left
                             <= IngestTimeout
                        /\ KeyOf(m, session[m].rcpt, q) \notin job.todo \cup job.orphans
      BY DEF PendingIsSafe
    <3>1. CASE q \in session[m].processed
      <4>1. q # p /\ q \in Part
        BY <1>1, <3>1 DEF SessionInv, RestIsFresh
      <4>2. /\ KeyOf(m, session[m].rcpt, q) \in objects
            /\ age[KeyOf(m, session[m].rcpt, q)] + session[m].left <= IngestTimeout
            /\ KeyOf(m, session[m].rcpt, q) \notin job.todo \cup job.orphans
        BY <3>1 DEF SessionInv, PendingIsSafe
      <4> QED BY <1>3, <2>1, <4>1, <4>2
    <3>2. CASE q \notin session[m].processed
      <4>1. /\ q = p /\ k \in objects' /\ age' = [age EXCEPT ![k] = 0]
        BY <1>2, <3>2
      <4>2. age'[k] = 0
        BY <4>1 DEF TypeOK
      <4>3. k \notin job.todo \cup job.orphans
        BY <1>2 DEF Used
      <4> QED BY <1>1, <1>2, <4>1, <4>2, <4>3
    <3> QED BY <3>1, <3>2
  <2> QED BY <2>3, <2>4, <2>5, <2>6, <2>7 DEF SessionInv
<1>8. AttachmentsKeepTheirObjects'
  BY <1>3 DEF AttachmentsKeepTheirObjects
<1>9. RequestsCondemn' /\ OrphansHaveNoRow' /\ NoRowOutlivesItsParent'
  BY DEF RequestsCondemn, OrphansHaveNoRow, NoRowOutlivesItsParent
<1> QED BY <1>5, <1>6, <1>7, <1>8, <1>9

LEMMA UploadStep ==
  ASSUME Inv, NEW m \in Message, Upload(m)
  PROVE  Inv'
<1>1. /\ session[m].pc = "upload" /\ session[m] \in Session /\ TypeOK
      /\ UNCHANGED <<faulty, aliases, emails, rows, request, job, notified,
                     condemned>>
  BY DEF Upload, db, Inv, TypeOK
<1>2. PICK p \in session[m].rest :
        \/ /\ session[m].left > 0
           /\ objects' = objects \cup {KeyOf(m, session[m].rcpt, p)}
           /\ age' = [age EXCEPT ![KeyOf(m, session[m].rcpt, p)] = 0]
           /\ \/ session' = [session EXCEPT ![m].rest = @ \ {p},
                                            ![m].processed = @ \cup {p}]
              \/ session' = [session EXCEPT ![m].rest = @ \ {p}]
        \/ /\ UNCHANGED <<objects, age>>
           /\ session' = [session EXCEPT ![m].rest = @ \ {p}]
  BY DEF Upload, Succeeds, Current, KeyOf, s3
<1>3. p \in Part
  BY <1>1 DEF Session
<1>4. CASE session' = [session EXCEPT ![m].rest = @ \ {p}, ![m].processed = @ \cup {p}]
  <2>1. /\ session' \in [Message -> Session]
        /\ session'[m].pc = "upload" /\ session'[m].rest = session[m].rest \ {p}
        /\ session'[m].todo = session[m].todo /\ session'[m].rcpt = session[m].rcpt
        /\ session'[m].left = session[m].left
        /\ session'[m].processed = session[m].processed \cup {p}
        /\ \A n \in Message \ {m} : session'[n] = session[n]
    BY <1>1, <1>3, <1>4 DEF TypeOK, Session
  <2>2. CASE session' = [session EXCEPT ![m].rest = @ \ {p}]
    <3>1. session'[m].processed = session[m].processed
      BY <1>1, <2>2 DEF TypeOK, Session
    <3> QED BY <1>1, <1>2, <2>1, <3>1, UploadEffect
  <2>3. CASE session' # [session EXCEPT ![m].rest = @ \ {p}]
    BY <1>1, <1>2, <2>1, <2>3, UploadEffect
  <2> QED BY <2>2, <2>3
<1>5. CASE session' = [session EXCEPT ![m].rest = @ \ {p}]
  <2>1. /\ session' \in [Message -> Session]
        /\ session'[m].pc = "upload" /\ session'[m].rest = session[m].rest \ {p}
        /\ session'[m].todo = session[m].todo /\ session'[m].rcpt = session[m].rcpt
        /\ session'[m].left = session[m].left
        /\ session'[m].processed = session[m].processed
        /\ \A n \in Message \ {m} : session'[n] = session[n]
    BY <1>1, <1>5 DEF TypeOK, Session
  <2> QED BY <1>1, <1>2, <2>1, UploadEffect
<1> QED BY <1>2, <1>4, <1>5

(* The attachment rows: their objects are there and the job spares them.    *)
LEMMA CreateBatchStep ==
  ASSUME Inv, NEW m \in Message, CreateBatch(m)
  PROVE  Inv'
<1> USE DEF Inv
<1>1. /\ session[m].pc = "attach" /\ session[m] \in Session
      /\ session' = [session EXCEPT ![m].pc = "publish"]
      /\ UNCHANGED <<faulty, aliases, emails, objects, age, request, job, notified,
                     condemned>>
  BY DEF CreateBatch, s3, TypeOK
<1>2. /\ session[m].rcpt \in Alias /\ session[m].rcpt \notin session[m].todo
      /\ session[m].processed \in SUBSET Part /\ session[m].todo \in SUBSET Alias
  BY <1>1 DEF SessionInv, RecipientIsTaken, Session
<1>3. /\ session' \in [Message -> Session]
      /\ session'[m].pc = "publish" /\ session'[m].todo = session[m].todo
      /\ session'[m].rcpt = session[m].rcpt
      /\ \A n \in Message \ {m} : session'[n] = session[n]
  BY <1>1 DEF TypeOK, Session
<1>4. PICK N \in SUBSET Key :
        /\ rows' = rows \cup N
        /\ \A k \in N : /\ \E p \in session[m].processed : k = KeyOf(m, session[m].rcpt, p)
                        /\ k[1] \in emails /\ k \in objects
                        /\ k \notin job.todo \cup job.orphans
  <2>1. CASE UNCHANGED rows
    <3>1. PICK N \in SUBSET Key : N = {}
      OBVIOUS
    <3>2. rows' = rows \cup N
      BY <2>1, <3>1
    <3> QED BY <3>1, <3>2
  <2>2. CASE /\ Succeeds(m) /\ Current(m) \in emails
             /\ rows' = rows \cup {<<Current(m), p>> : p \in session[m].processed}
    <3>1. \A p \in session[m].processed :
            /\ KeyOf(m, session[m].rcpt, p) \in Key
            /\ KeyOf(m, session[m].rcpt, p) = <<Current(m), p>>
            /\ KeyOf(m, session[m].rcpt, p)[1] = Current(m)
            /\ KeyOf(m, session[m].rcpt, p) \in objects
            /\ KeyOf(m, session[m].rcpt, p) \notin job.todo \cup job.orphans
      <4>1. \A p \in session[m].processed :
              /\ KeyOf(m, session[m].rcpt, p) \in objects
              /\ KeyOf(m, session[m].rcpt, p) \notin job.todo \cup job.orphans
        BY <1>1, <2>2 DEF SessionInv, PendingIsSafe, Succeeds
      <4>2. \A p \in session[m].processed : KeyOf(m, session[m].rcpt, p) \in Key
        BY <1>2, KeyFacts
      <4>3. \A p : /\ KeyOf(m, session[m].rcpt, p) = <<Current(m), p>>
                   /\ KeyOf(m, session[m].rcpt, p)[1] = Current(m)
        BY DEF KeyOf, Current
      <4> QED BY <4>1, <4>2, <4>3
    <3>2. PICK N : N = {KeyOf(m, session[m].rcpt, p) : p \in session[m].processed}
      OBVIOUS
    <3>3. N = {<<Current(m), p>> : p \in session[m].processed}
      BY <3>1, <3>2
    <3>4. \A k \in N : \E p \in session[m].processed : k = KeyOf(m, session[m].rcpt, p)
      BY <3>2
    <3>5. ASSUME NEW k \in N
          PROVE  /\ k \in Key /\ k[1] \in emails /\ k \in objects
                 /\ k \notin job.todo \cup job.orphans
      <4>1. PICK p \in session[m].processed : k = KeyOf(m, session[m].rcpt, p)
        BY <3>4
      <4> QED BY <2>2, <3>1, <4>1
    <3>6. N \in SUBSET Key /\ rows' = rows \cup N
      BY <2>2, <3>3, <3>5
    <3> QED BY <3>4, <3>5, <3>6
  <2> QED BY <2>1, <2>2 DEF CreateBatch
<1>5. Used' \subseteq Used \cup N /\ rows \in SUBSET Key
  BY <1>1, <1>4 DEF Used, TypeOK
<1>6. TypeOK'
  BY <1>1, <1>3, <1>4 DEF TypeOK
<1>7. ASSUME NEW n \in Message \ {m} PROVE SessionInv(n)'
  <2>1. \A a \in Alias, q \in Part : KeyOf(n, a, q) \notin N
    BY <1>4, KeyFacts
  <2> QED BY <1>1, <1>3, <1>4, <1>5, <2>1, Frame
<1>8. SessionInv(m)'
  <2>1. \A a \in session[m].todo, q \in Part : KeyOf(m, a, q) \notin N
    BY <1>2, <1>4, KeyFacts
  <2>2. ComingIsFresh(m)'
    BY <1>2, <1>3, <1>5, <2>1 DEF SessionInv, ComingIsFresh
  <2> QED BY <1>2, <1>3, <2>2 DEF SessionInv, RecipientIsTaken, RestIsFresh, NoRowsYet,
                                  PendingIsSafe
<1>9. NoRowOutlivesItsParent' /\ AttachmentsKeepTheirObjects'
  BY <1>1, <1>4 DEF NoRowOutlivesItsParent, AttachmentsKeepTheirObjects
<1>10. RequestsCondemn' /\ OrphansHaveNoRow'
  BY <1>1, <1>4 DEF RequestsCondemn, OrphansHaveNoRow
<1> QED BY <1>6, <1>7, <1>8, <1>9, <1>10

-------------------------------------------------------------------------------
LEMMA DeleteStep ==
  ASSUME Inv, NEW d \in Request, Delete(d)
  PROVE  Inv'
<1>1. ASSUME NEW e \in Email, DeleteEmail(d, e) PROVE Inv'
  BY <1>1, ListStep DEF DeleteEmail, StoredKeys
<1>2. ASSUME NEW E \in SUBSET Email, BulkDelete(d, E) PROVE Inv'
  <2>1. PICK L \in SUBSET E : List(d, E, {}, KeysOf(L) \cap rows, "listed")
    BY <1>2 DEF BulkDelete, StoredKeys
  <2> QED BY <2>1, ListStep
<1>3. ASSUME NEW a \in Alias, DeleteAlias(d, a) PROVE Inv'
  <2>1. PICK K \in SUBSET rows : List(d, {}, {a}, K, "listed")
    BY <1>3 DEF DeleteAlias, AliasKeys, StoredKeys
  <2> QED BY <2>1, ListStep
<1>4. ASSUME NEW u \in User, DeleteUser(d, u) PROVE Inv'
  <2>1. PICK A \in SUBSET Alias : List(d, {}, A, {}, "purged")
    BY <1>4 DEF DeleteUser, AliasesOf
  <2> QED BY <2>1, ListStep
<1>5. ASSUME NEW o \in Domain, DeleteDomain(d, o) PROVE Inv'
  <2>1. PICK A \in SUBSET Alias : List(d, {}, A, {}, "purged")
    BY <1>5 DEF DeleteDomain
  <2> QED BY <2>1, ListStep
<1> QED BY <1>1, <1>2, <1>3, <1>4, <1>5, DeleteByKeysStep, DeleteRowsStep DEF Delete

LEMMA StutterStep == Inv /\ UNCHANGED vars => Inv'
<1> SUFFICES ASSUME Inv, UNCHANGED vars PROVE Inv'
  OBVIOUS
<1>1. UNCHANGED <<aliases, emails, rows, objects, age, session, request, job, faulty,
                  notified, condemned>>
  BY DEF vars
<1>2. TypeOK'
  BY <1>1 DEF Inv, TypeOK
<1>3. ASSUME NEW m \in Message PROVE SessionInv(m)'
  BY <1>1 DEF Inv, SessionInv, RecipientIsTaken, ComingIsFresh, RestIsFresh, NoRowsYet,
              PendingIsSafe, Used
<1> QED BY <1>1, <1>2, <1>3 DEF Inv, RequestsCondemn, OrphansHaveNoRow,
           NoRowOutlivesItsParent, AttachmentsKeepTheirObjects

(* The inductive invariant of mail in two stores: nothing is known of a key *)
(* before its upload, and from then until its row is inserted the object is *)
(* in the bucket, younger than the time its processing has left allows the  *)
(* job to notice, and condemned by no deletion.                             *)
THEOREM MailStoreInvariant == Spec => []Inv
<1>1. Inv /\ [Next]_vars => Inv'
  <2> SUFFICES ASSUME Inv, [Next]_vars PROVE Inv'
    OBVIOUS
  <2>1. ASSUME NEW m \in Message, Process(m) PROVE Inv'
    BY <2>1, LookupAliasStep, UploadStep, CreateEmailStep, CreateBatchStep,
       PublishNewEmailStep, ReplyStep DEF Process
  <2> QED BY <2>1, ReceiveDataStep, DeleteStep, CleanupStep, TickStep, CrashStep,
             StutterStep DEF Next
<1> QED BY InitInv, <1>1, PTL DEF Spec

(* Every variable keeps its shape.                                          *)
THEOREM MailStoreTypes == Spec => []TypeOK
BY MailStoreInvariant, PTL DEF Inv

(* An attachment that has a row keeps its object until a deletion request   *)
(* lists it; the orphan job (orphan_cleanup.go:250-425) never takes it.     *)
THEOREM AttachmentsAreKept == Spec => []AttachmentsKeepTheirObjects
BY MailStoreInvariant, PTL DEF Inv

(* No email and no attachment row remains or appears under a deleted alias  *)
(* or email (adapters.go:76-98, 126-146, domain_repo.go:285-366).           *)
THEOREM NoRowIsLeftBehind == Spec => []NoRowOutlivesItsParent
BY MailStoreInvariant, PTL DEF Inv

(* The job has no key in hand that an upload may still turn into a row      *)
(* (session.go:361 against orphan_cleanup.go:282).                          *)
THEOREM UploadsAreSpared == Spec => []JobSparesUploads
<1>1. Inv => JobSparesUploads
  <2> SUFFICES ASSUME Inv, NEW m \in Message,
                      session[m].pc \in {"upload", "attach"}, session[m].left > 0,
                      NEW p \in session[m].processed
               PROVE  /\ <<Current(m), p>> \in objects
                      /\ <<Current(m), p>> \notin job.todo \cup job.orphans
    BY DEF JobSparesUploads, Pending
  <2> QED BY DEF Inv, SessionInv, PendingIsSafe, KeyOf, Current
<1> QED BY MailStoreInvariant, <1>1, PTL

-------------------------------------------------------------------------------
(* Announced mail is complete as long as no call fails.  The argument rests *)
(* on the invariant above and needs three facts more about each session.    *)

(* No event is published for what is still to come or in the making.        *)
NotYetAnnounced(m) ==
  \A a \in Alias :
    \/ session[m].pc = "idle" \/ a \in session[m].todo
    \/ session[m].pc \in {"upload", "attach"} /\ a = session[m].rcpt
    => <<m, a>> \notin notified

(* Every object of an email in the making is recorded for its row.          *)
UploadsAreRecorded(m) ==
  session[m].pc \in {"upload", "attach"} =>
    \A p \in Part : KeyOf(m, session[m].rcpt, p) \in objects => p \in session[m].processed

(* When the event comes the rows are there, or the email has gone again.    *)
RowsBeforeEvent(m) ==
  session[m].pc = "publish" /\ session[m].left > 0 /\ Current(m) \in emails =>
    \A p \in Part : KeyOf(m, session[m].rcpt, p) \in objects =>
                    KeyOf(m, session[m].rcpt, p) \in rows

AnnouncedInv ==
  ~faulty =>
    /\ \A m \in Message : NotYetAnnounced(m) /\ UploadsAreRecorded(m) /\ RowsBeforeEvent(m)
    /\ AnnouncedMailIsComplete

(* Steps that announce nothing, store nothing in the bucket, create no      *)
(* email and take rows only with their emails.                              *)
LEMMA AnnouncedFrame ==
  ASSUME Inv, AnnouncedInv, UNCHANGED <<faulty, notified>>,
         objects' \subseteq objects, emails' \subseteq emails,
         \A k \in rows : k[1] \in emails' => k \in rows',
         \A m \in Message :
           /\ session'[m].pc = session[m].pc /\ session'[m].todo = session[m].todo
           /\ session'[m].rcpt = session[m].rcpt
           /\ session'[m].processed = session[m].processed
           /\ session'[m].left > 0 => session[m].left > 0
  PROVE  AnnouncedInv'
<1> SUFFICES ASSUME ~faulty
             PROVE  /\ \A m \in Message : /\ NotYetAnnounced(m)' /\ UploadsAreRecorded(m)'
                                          /\ RowsBeforeEvent(m)'
                    /\ AnnouncedMailIsComplete'
  BY DEF AnnouncedInv
<1>1. ASSUME NEW m \in Message PROVE NotYetAnnounced(m)' /\ UploadsAreRecorded(m)'
  BY DEF AnnouncedInv, NotYetAnnounced, UploadsAreRecorded
<1>2. ASSUME NEW m \in Message PROVE RowsBeforeEvent(m)'
  <2> SUFFICES ASSUME session[m].pc = "publish", session[m].left > 0,
                      Current(m) \in emails', NEW p \in Part,
                      KeyOf(m, session[m].rcpt, p) \in objects
               PROVE  KeyOf(m, session[m].rcpt, p) \in rows'
    BY DEF RowsBeforeEvent, Current
  <2>1. KeyOf(m, session[m].rcpt, p) \in rows
    BY DEF AnnouncedInv, RowsBeforeEvent
  <2>2. KeyOf(m, session[m].rcpt, p)[1] = Current(m)
    BY DEF KeyOf, Current
  <2> QED BY <2>1, <2>2
<1>3. AnnouncedMailIsComplete'
  <2> SUFFICES ASSUME NEW e \in notified \cap emails', NEW k \in KeysOf({e}) \cap objects'
               PROVE  k \in rows'
    BY DEF AnnouncedMailIsComplete
  <2>1. k \in rows /\ k[1] = e
    BY DEF AnnouncedInv, AnnouncedMailIsComplete, KeysOf
  <2> QED BY <2>1
<1> QED BY <1>1, <1>2, <1>3

LEMMA AnnouncedInit == Init => AnnouncedInv
<1> SUFFICES ASSUME Init PROVE AnnouncedInv
  OBVIOUS
<1>1. \A m \in Message : session[m].pc = "idle"
  BY DEF Init, IdleSession
<1>2. notified = {}
  BY DEF Init
<1> QED BY <1>1, <1>2 DEF AnnouncedInv, NotYetAnnounced, UploadsAreRecorded,
           RowsBeforeEvent, AnnouncedMailIsComplete

(* Steps of the session of m: what they add belongs to m.                   *)
LEMMA AnnouncedSession ==
  ASSUME Inv, AnnouncedInv, UNCHANGED faulty, NEW m \in Message,
         \A n \in Message \ {m} : session'[n] = session[n],
         \A n \in Message \ {m}, a \in Alias :
           /\ <<n, a>> \in notified' => <<n, a>> \in notified
           /\ <<n, a>> \in emails' => <<n, a>> \in emails
           /\ \A p \in Part : KeyOf(n, a, p) \in objects' => KeyOf(n, a, p) \in objects,
         rows \subseteq rows',
         ~faulty => NotYetAnnounced(m)' /\ UploadsAreRecorded(m)' /\ RowsBeforeEvent(m)',
         ~faulty => AnnouncedMailIsComplete'
  PROVE  AnnouncedInv'
<1> SUFFICES ASSUME ~faulty, NEW n \in Message, n # m
             PROVE  NotYetAnnounced(n)' /\ UploadsAreRecorded(n)' /\ RowsBeforeEvent(n)'
  BY DEF AnnouncedInv
<1>1. NotYetAnnounced(n)'
  BY DEF AnnouncedInv, NotYetAnnounced
<1>2. session[n].pc \in {"upload", "attach", "publish"} => session[n].rcpt \in Alias
  BY DEF Inv, SessionInv, RecipientIsTaken
<1>3. UploadsAreRecorded(n)'
  BY <1>2 DEF AnnouncedInv, UploadsAreRecorded
<1>4. RowsBeforeEvent(n)'
  BY <1>2 DEF AnnouncedInv, RowsBeforeEvent, Current
<1> QED BY <1>1, <1>3, <1>4

(* Steps of a session that touch no store and publish nothing.              *)
LEMMA AnnouncedQuiet ==
  ASSUME Inv, AnnouncedInv, NEW m \in Message,
         UNCHANGED <<faulty, notified, emails, objects, rows>>,
         \A n \in Message \ {m} : session'[n] = session[n],
         ~faulty => NotYetAnnounced(m)' /\ UploadsAreRecorded(m)' /\ RowsBeforeEvent(m)'
  PROVE  AnnouncedInv'
<1>1. ~faulty => AnnouncedMailIsComplete'
  BY DEF AnnouncedInv, AnnouncedMailIsComplete
<1> QED BY <1>1, AnnouncedSession

LEMMA AnnouncedReceiveData ==
  ASSUME Inv, AnnouncedInv, NEW m \in Message, ReceiveData(m)
  PROVE  AnnouncedInv'
<1>1. PICK R \in SUBSET Alias :
        session' = [session EXCEPT ![m].pc = "next", ![m].todo = R,
                                   ![m].left = IngestTimeout]
  BY DEF ReceiveData, Inv, TypeOK
<1>2. session'[m].pc = "next" /\ \A n \in Message \ {m} : session'[n] = session[n]
  BY <1>1 DEF Inv, TypeOK, Session
<1>3. /\ session[m].pc = "idle"
      /\ UNCHANGED <<faulty, notified, emails, objects, rows>>
  BY DEF ReceiveData, db, s3
<1>4. ~faulty => NotYetAnnounced(m)' /\ UploadsAreRecorded(m)' /\ RowsBeforeEvent(m)'
  BY <1>2, <1>3 DEF AnnouncedInv, NotYetAnnounced, UploadsAreRecorded, RowsBeforeEvent
<1> QED BY <1>2, <1>3, <1>4, AnnouncedQuiet

LEMMA AnnouncedLookupAlias ==
  ASSUME Inv, AnnouncedInv, NEW m \in Message, LookupAlias(m)
  PROVE  AnnouncedInv'
<1>1. /\ session[m].pc = "next" /\ session[m] \in Session /\ TypeOK
      /\ UNCHANGED <<faulty, notified, emails, objects, rows>>
  BY DEF LookupAlias, db, s3, Inv, TypeOK
<1>2. PICK a \in session[m].todo :
        \/ session' = [session EXCEPT ![m].pc = "upload", ![m].rcpt = a,
                         ![m].todo = @ \ {a}, ![m].rest = Part, ![m].processed = {}]
        \/ session' = [session EXCEPT ![m].todo = @ \ {a}]
  BY DEF LookupAlias
<1>3. a \in Alias
  BY <1>1 DEF Session
<1>4. CASE session' = [session EXCEPT ![m].pc = "upload", ![m].rcpt = a,
                         ![m].todo = @ \ {a}, ![m].rest = Part, ![m].processed = {}]
  <2>1. /\ session'[m].pc = "upload" /\ session'[m].rcpt = a
        /\ session'[m].todo = session[m].todo \ {a}
        /\ \A n \in Message \ {m} : session'[n] = session[n]
    BY <1>1, <1>3, <1>4 DEF TypeOK, Session
  <2>2. \A p \in Part : KeyOf(m, a, p) \notin objects
    BY <1>3 DEF Inv, SessionInv, ComingIsFresh, Used
  <2>3. ~faulty => NotYetAnnounced(m)' /\ UploadsAreRecorded(m)' /\ RowsBeforeEvent(m)'
    BY <1>1, <2>1, <2>2 DEF AnnouncedInv, NotYetAnnounced, UploadsAreRecorded,
                            RowsBeforeEvent
  <2> QED BY <1>1, <2>1, <2>3, AnnouncedQuiet
<1>5. CASE session' = [session EXCEPT ![m].todo = @ \ {a}]
  <2>1. /\ session'[m].pc = "next"
        /\ session'[m].todo = session[m].todo \ {a}
        /\ \A n \in Message \ {m} : session'[n] = session[n]
    BY <1>1, <1>3, <1>5 DEF TypeOK, Session
  <2>2. ~faulty => NotYetAnnounced(m)' /\ UploadsAreRecorded(m)' /\ RowsBeforeEvent(m)'
    BY <1>1, <2>1 DEF AnnouncedInv, NotYetAnnounced, UploadsAreRecorded, RowsBeforeEvent
  <2> QED BY <1>1, <2>1, <2>2, AnnouncedQuiet
<1> QED BY <1>2, <1>4, <1>5

(* Without failing calls every stored object is recorded.                   *)
LEMMA AnnouncedUpload ==
  ASSUME Inv, AnnouncedInv, NEW m \in Message, Upload(m)
  PROVE  AnnouncedInv'
<1>1. /\ session[m].pc = "upload" /\ session[m] \in Session /\ TypeOK
      /\ UNCHANGED <<faulty, notified, emails, rows>>
  BY DEF Upload, db, Inv, TypeOK
<1>2. session[m].rcpt \in Alias /\ session[m].left \in Nat
  BY <1>1, MailStoreAssumption DEF Inv, SessionInv, RecipientIsTaken, Session
<1>3. PICK p \in session[m].rest :
        \/ /\ objects' = objects \cup {KeyOf(m, session[m].rcpt, p)}
           /\ session' = [session EXCEPT ![m].rest = @ \ {p}, ![m].processed = @ \cup {p}]
        \/ /\ session[m].left > 0 /\ MayFail(m)
           /\ objects' = objects \cup {KeyOf(m, session[m].rcpt, p)}
           /\ session' = [session EXCEPT ![m].rest = @ \ {p}]
        \/ /\ UNCHANGED objects
           /\ session' = [session EXCEPT ![m].rest = @ \ {p}]
  BY DEF Upload, Succeeds, Current, KeyOf, s3
<1>4. p \in Part
  BY <1>1 DEF Session
<1>5. /\ session'[m].pc = "upload" /\ session'[m].todo = session[m].todo
      /\ session'[m].rcpt = session[m].rcpt
      /\ \/ /\ objects' = objects \cup {KeyOf(m, session[m].rcpt, p)}
            /\ ~faulty => session'[m].processed = session[m].processed \cup {p}
         \/ /\ UNCHANGED objects
            /\ session'[m].processed = session[m].processed
      /\ \A n \in Message \ {m} : session'[n] = session[n]
  <2>1. CASE session' = [session EXCEPT ![m].rest = @ \ {p},
                                        ![m].processed = @ \cup {p}]
             /\ objects' = objects \cup {KeyOf(m, session[m].rcpt, p)}
    BY <1>1, <1>4, <2>1 DEF TypeOK, Session
  <2>2. CASE session' = [session EXCEPT ![m].rest = @ \ {p}] /\ UNCHANGED objects
    BY <1>1, <1>4, <2>2 DEF TypeOK, Session
  <2>3. CASE /\ session' = [session EXCEPT ![m].rest = @ \ {p}]
             /\ objects' = objects \cup {KeyOf(m, session[m].rcpt, p)}
             /\ session[m].left > 0 /\ MayFail(m)
    <3>1. faulty
      BY <1>2, <2>3 DEF MayFail
    <3> QED BY <1>1, <1>4, <2>3, <3>1 DEF TypeOK, Session
  <2> QED BY <1>3, <2>1, <2>2, <2>3
<1>6. \A n \in Message, a \in Alias, q \in Part :
        KeyOf(n, a, q) \in objects' =>
          \/ KeyOf(n, a, q) \in objects
          \/ n = m /\ a = session[m].rcpt /\ q = p
  BY <1>5, KeyFacts
<1>7. ASSUME ~faulty PROVE NotYetAnnounced(m)' /\ RowsBeforeEvent(m)'
  BY <1>1, <1>5, <1>7 DEF AnnouncedInv, NotYetAnnounced, RowsBeforeEvent
<1>8. ASSUME ~faulty PROVE UploadsAreRecorded(m)'
  <2> SUFFICES ASSUME NEW q \in Part, KeyOf(m, session[m].rcpt, q) \in objects'
               PROVE  q \in session'[m].processed
    BY <1>5 DEF UploadsAreRecorded
  <2>1. KeyOf(m, session[m].rcpt, q) \in objects => q \in session[m].processed
    BY <1>1, <1>8 DEF AnnouncedInv, UploadsAreRecorded
  <2>2. CASE UNCHANGED objects /\ session'[m].processed = session[m].processed
    BY <2>1, <2>2
  <2>3. CASE session'[m].processed = session[m].processed \cup {p}
    BY <1>2, <1>6, <2>1, <2>3
  <2> QED BY <1>5, <1>8, <2>2, <2>3
<1>9. ASSUME ~faulty PROVE AnnouncedMailIsComplete'
  <2> SUFFICES ASSUME NEW e \in notified \cap emails, NEW k \in KeysOf({e}), k \in objects'
               PROVE  k \in rows
    BY <1>1 DEF AnnouncedMailIsComplete
  <2>1. <<m, session[m].rcpt>> \notin notified
    BY <1>1, <1>2, <1>9 DEF AnnouncedInv, NotYetAnnounced
  <2>2. k # KeyOf(m, session[m].rcpt, p)
    BY <2>1 DEF KeyOf, KeysOf
  <2>3. k \in objects
    BY <1>5, <2>2
  <2> QED BY <1>9, <2>3 DEF AnnouncedInv, AnnouncedMailIsComplete
<1> QED BY <1>1, <1>5, <1>6, <1>7, <1>8, <1>9, AnnouncedSession

LEMMA AnnouncedCreateEmail ==
  ASSUME Inv, AnnouncedInv, NEW m \in Message, CreateEmail(m)
  PROVE  AnnouncedInv'
<1>1. /\ session[m].pc = "upload" /\ session[m] \in Session /\ TypeOK
      /\ UNCHANGED <<faulty, notified, objects, rows>>
      /\ emails' \subseteq emails \cup {Current(m)}
  BY DEF CreateEmail, s3, Inv, TypeOK
<1>2. session[m].rcpt \in Alias
  BY <1>1 DEF Inv, SessionInv, RecipientIsTaken
<1>3. \/ session' = [session EXCEPT ![m].pc = "attach"]
      \/ session' = [session EXCEPT ![m].pc = "next"]
  BY DEF CreateEmail
<1>4. /\ session'[m].pc \in {"attach", "next"}
      /\ session'[m].todo = session[m].todo /\ session'[m].rcpt = session[m].rcpt
      /\ session'[m].processed = session[m].processed
      /\ \A n \in Message \ {m} : session'[n] = session[n]
  <2>1. CASE session' = [session EXCEPT ![m].pc = "attach"]
    BY <1>1, <2>1 DEF TypeOK, Session
  <2>2. CASE session' = [session EXCEPT ![m].pc = "next"]
    BY <1>1, <2>2 DEF TypeOK, Session
  <2> QED BY <1>3, <2>1, <2>2
<1>5. ASSUME ~faulty
      PROVE  NotYetAnnounced(m)' /\ UploadsAreRecorded(m)' /\ RowsBeforeEvent(m)'
  BY <1>1, <1>4, <1>5 DEF AnnouncedInv, NotYetAnnounced, UploadsAreRecorded,
                          RowsBeforeEvent
<1>6. ASSUME ~faulty PROVE AnnouncedMailIsComplete'
  <2>1. Current(m) \notin notified
    BY <1>1, <1>2, <1>6 DEF AnnouncedInv, NotYetAnnounced, Current
  <2>2. notified \cap emails' \subseteq notified \cap emails
    BY <1>1, <2>1
  <2> QED BY <1>1, <1>6, <2>2 DEF AnnouncedInv, AnnouncedMailIsComplete
<1>7. \A n \in Message \ {m}, a \in Alias : <<n, a>> \in emails' => <<n, a>> \in emails
  BY <1>1 DEF Current
<1> QED BY <1>1, <1>4, <1>5, <1>6, <1>7, AnnouncedSession

(* The batch fails without a failing call only when the email has gone or   *)
(* time is up, and then nothing is announced.                               *)
LEMMA AnnouncedCreateBatch ==
  ASSUME Inv, AnnouncedInv, NEW m \in Message, CreateBatch(m)
  PROVE  AnnouncedInv'
<1>1. /\ session[m].pc = "attach" /\ session[m] \in Session /\ TypeOK
      /\ session' = [session EXCEPT ![m].pc = "publish"]
      /\ UNCHANGED <<faulty, notified, objects, emails>>
      /\ rows \subseteq rows'
  BY DEF CreateBatch, s3, Inv, TypeOK
<1>2. /\ session'[m].pc = "publish" /\ session'[m].todo = session[m].todo
      /\ session'[m].rcpt = session[m].rcpt /\ session'[m].left = session[m].left
      /\ \A n \in Message \ {m} : session'[n] = session[n]
  BY <1>1 DEF TypeOK, Session
<1>3. ASSUME ~faulty PROVE NotYetAnnounced(m)' /\ UploadsAreRecorded(m)'
  BY <1>1, <1>2, <1>3 DEF AnnouncedInv, NotYetAnnounced, UploadsAreRecorded
<1>4. ASSUME ~faulty PROVE RowsBeforeEvent(m)'
  <2> SUFFICES ASSUME session[m].left > 0, Current(m) \in emails, NEW p \in Part,
                      KeyOf(m, session[m].rcpt, p) \in objects
               PROVE  KeyOf(m, session[m].rcpt, p) \in rows'
    BY <1>1, <1>2 DEF RowsBeforeEvent, Current
  <2>1. p \in session[m].processed
    BY <1>1, <1>4 DEF AnnouncedInv, UploadsAreRecorded
  <2>2. session[m].processed # {} /\ ~MayFail(m)
    BY <1>4, <2>1 DEF MayFail
  <2>3. rows' = rows \cup {<<Current(m), q>> : q \in session[m].processed}
    BY <2>2 DEF CreateBatch
  <2> QED BY <2>1, <2>3 DEF KeyOf, Current
<1>5. ASSUME ~faulty PROVE AnnouncedMailIsComplete'
  BY <1>1, <1>5 DEF AnnouncedInv, AnnouncedMailIsComplete
<1> QED BY <1>1, <1>2, <1>3, <1>4, <1>5, AnnouncedSession

LEMMA AnnouncedPublish ==
  ASSUME Inv, AnnouncedInv, NEW m \in Message, PublishNewEmail(m)
  PROVE  AnnouncedInv'
<1>1. /\ session[m].pc = "publish" /\ session[m] \in Session /\ TypeOK
      /\ session' = [session EXCEPT ![m].pc = "next"]
      /\ UNCHANGED <<faulty, objects, emails, rows>>
      /\ \/ session[m].left > 0 /\ notified' = notified \cup {Current(m)}
         \/ UNCHANGED notified
  BY DEF PublishNewEmail, Succeeds, db, s3, Inv, TypeOK
<1>2. session[m].rcpt \in Alias /\ session[m].rcpt \notin session[m].todo
  BY <1>1 DEF Inv, SessionInv, RecipientIsTaken
<1>3. /\ session'[m].pc = "next" /\ session'[m].todo = session[m].todo
      /\ \A n \in Message \ {m} : session'[n] = session[n]
  BY <1>1 DEF TypeOK, Session
<1>4. ASSUME ~faulty
      PROVE  NotYetAnnounced(m)' /\ UploadsAreRecorded(m)' /\ RowsBeforeEvent(m)'
  <2>1. NotYetAnnounced(m)'
    BY <1>1, <1>2, <1>3, <1>4 DEF AnnouncedInv, NotYetAnnounced, Current
  <2> QED BY <1>3, <2>1 DEF UploadsAreRecorded, RowsBeforeEvent
<1>5. ASSUME ~faulty PROVE AnnouncedMailIsComplete'
  <2> SUFFICES ASSUME NEW e \in notified' \cap emails, NEW k \in KeysOf({e}), k \in objects
               PROVE  k \in rows
    BY <1>1 DEF AnnouncedMailIsComplete
  <2>1. CASE e \in notified
    BY <1>5, <2>1 DEF AnnouncedInv, AnnouncedMailIsComplete
  <2>2. CASE e = Current(m) /\ session[m].left > 0
    <3>1. PICK p \in Part : k = KeyOf(m, session[m].rcpt, p)
      BY <2>2 DEF KeysOf, Key, KeyOf, Current
    <3> QED BY <1>1, <1>5, <2>2, <3>1 DEF AnnouncedInv, RowsBeforeEvent
  <2> QED BY <1>1, <2>1, <2>2
<1>6. \A n \in Message \ {m}, a \in Alias : <<n, a>> \in notified' => <<n, a>> \in notified
  BY <1>1 DEF Current
<1> QED BY <1>1, <1>3, <1>4, <1>5, <1>6, AnnouncedSession

LEMMA AnnouncedReply ==
  ASSUME Inv, AnnouncedInv, NEW m \in Message, Reply(m)
  PROVE  AnnouncedInv'
<1>1. /\ session' = [session EXCEPT ![m].pc = "replied250"]
      /\ session[m].pc = "next" /\ session[m] \in Session /\ TypeOK
      /\ UNCHANGED <<faulty, notified, emails, objects, rows>>
  BY DEF Reply, db, s3, Inv, TypeOK
<1>2. /\ session'[m].pc = "replied250" /\ session'[m].todo = session[m].todo
      /\ \A n \in Message \ {m} : session'[n] = session[n]
  BY <1>1 DEF TypeOK, Session
<1>3. ~faulty => NotYetAnnounced(m)' /\ UploadsAreRecorded(m)' /\ RowsBeforeEvent(m)'
  BY <1>1, <1>2 DEF AnnouncedInv, NotYetAnnounced, UploadsAreRecorded, RowsBeforeEvent
<1> QED BY <1>1, <1>2, <1>3, AnnouncedQuiet

(* Deletions take rows with their emails; the job takes no rows.            *)
LEMMA AnnouncedElsewhere ==
  ASSUME Inv, AnnouncedInv,
         (\E d \in Request : Delete(d)) \/ Cleanup \/ Tick \/ UNCHANGED vars
  PROVE  AnnouncedInv'
<1>1. \A d, E, A, K, next : List(d, E, A, K, next) => AnnouncedInv'
  BY AnnouncedFrame DEF List, db, s3
<1>2. ASSUME NEW d \in Request, DeleteByKeys(d) PROVE AnnouncedInv'
  <2>1. objects' \subseteq objects /\ UNCHANGED <<faulty, notified, emails, rows, session>>
    BY <1>2 DEF DeleteByKeys, db
  <2> QED BY <2>1, AnnouncedFrame
<1>3. ASSUME NEW d \in Request, DeleteRows(d) PROVE AnnouncedInv'
  <2>1. UNCHANGED <<faulty, notified, objects, session>>
    BY <1>3 DEF DeleteRows, s3
  <2>2. emails' \subseteq emails /\ \A k \in rows : k[1] \in emails' => k \in rows'
    BY <1>3 DEF DeleteRows, db, KeysOf
  <2> QED BY <2>1, <2>2, AnnouncedFrame
<1>4. ASSUME NEW d \in Request, Delete(d) PROVE AnnouncedInv'
  BY <1>1, <1>2, <1>3, <1>4
     DEF Delete, DeleteEmail, BulkDelete, DeleteAlias, DeleteUser, DeleteDomain
<1>5. CASE Cleanup
  <2>1. objects' \subseteq objects /\ UNCHANGED <<faulty, notified, emails, rows, session>>
    BY <1>5 DEF Cleanup, StartCleanup, EndListing, EndCleanup, CheckBatch, DeleteOrphans,
                db, s3
  <2> QED BY <2>1, AnnouncedFrame
<1>6. CASE Tick
  <2>1. UNCHANGED <<faulty, notified, emails, objects, rows>>
    BY <1>6 DEF Tick, db
  <2>2. \A m \in Message :
          /\ session'[m].pc = session[m].pc /\ session'[m].todo = session[m].todo
          /\ session'[m].rcpt = session[m].rcpt
          /\ session'[m].processed = session[m].processed
          /\ session'[m].left > 0 => session[m].left > 0
    BY <1>6, MailStoreAssumption DEF Tick, Inv, TypeOK, Session
  <2> QED BY <2>1, <2>2, AnnouncedFrame
<1>7. CASE UNCHANGED vars
  BY <1>7, AnnouncedFrame DEF vars
<1> QED BY <1>4, <1>5, <1>6, <1>7

(* An email that has been announced and not been deleted has a row for each *)
(* of its objects (processor.go:197-228), as long as no call fails.         *)
THEOREM AnnouncedIsComplete == Spec => []AnnouncedMailIsComplete
<1>1. Inv /\ AnnouncedInv /\ [Next]_vars => AnnouncedInv'
  <2> SUFFICES ASSUME Inv, AnnouncedInv, [Next]_vars PROVE AnnouncedInv'
    OBVIOUS
  <2>1. ASSUME NEW m \in Message, Process(m) PROVE AnnouncedInv'
    BY <2>1, AnnouncedLookupAlias, AnnouncedUpload, AnnouncedCreateEmail,
       AnnouncedCreateBatch, AnnouncedPublish, AnnouncedReply DEF Process
  <2>2. CASE Crash
    BY <2>2 DEF Crash, AnnouncedInv
  <2> QED BY <2>1, <2>2, AnnouncedReceiveData, AnnouncedElsewhere DEF Next
<1>2. AnnouncedInv => AnnouncedMailIsComplete
  BY DEF AnnouncedInv, AnnouncedMailIsComplete
<1> QED BY AnnouncedInit, <1>1, <1>2, MailStoreInvariant, PTL DEF Spec

===============================================================================
