------------------------------- MODULE InboxProofs ------------------------------
(* Proofs about Inbox, for any mail, any requests and any failures: only    *)
(* what its owner asked to delete goes missing; what a request changes by   *)
(* ID alone is mail of the user whose request it is; and a reader that      *)
(* walks through the pages of a list, or adds up its statistics, misses no  *)
(* more than what moved meanwhile.  The last one is about places: OFFSET    *)
(* and LIMIT name places in a list, an email's place is how many newer ones *)
(* the list has (Rank), and each email that leaves moves the others up by   *)
(* one (MovesUpBy, FewSlip).                                                *)
EXTENDS Inbox, FiniteSetTheorems, TLAPS

Row == [state : {"coming", "here", "gone"}, read : BOOLEAN, attached : {"no", "stored", "deleted"}]

Activity == [pc : {"idle", "mark", "markBatch", "objects", "rows", "alias"},
             user : User \cup {None}, alias : Alias \cup {None},
             ids : SUBSET EmailID, keys : SUBSET EmailID]

(* A reader's record; only what the proofs speak of has a type.             *)
IsReader(x) ==
  x \in [pc : {x.pc}, user : {x.user}, filter : {x.filter}, page : {x.page}, seen : {x.seen},
         total : {x.total}, today : {x.today}, sum : {x.sum}, stayed : {x.stayed},
         left : {x.left}, joined : {x.joined}, email : {x.email}, answer : {x.answer},
         missing : BOOLEAN]

Shape == mail \in [EmailID -> Row] /\ call \in [Request -> Activity] /\ IsReader(reader)

(* The requests that delete know the keys of condemned emails only ...      *)
KeysAreCondemned == \A r \in Request : call[r].keys \subseteq condemned

(* ... so that an object that was deleted was its owner's to delete.        *)
DeletedIsCondemned == \A e \in EmailID : mail[e].attached = "deleted" => e \in condemned

FetchesAnEmail == reader.pc = "fetch" => reader.email \in EmailID

Inductive ==
  Shape /\ KeysAreCondemned /\ DeletedIsCondemned /\ FetchesAnEmail /\ MissingOnlyIfDeletionAsked

(* What a request is about to change by ID alone is its user's own mail, or *)
(* an alias of its user.                                                    *)
Owns(a) ==
  /\ \A e \in a.ids : Owner(e) = a.user
  /\ a.alias # None => UserOf[a.alias] = a.user
OwnMailOnly == \A r \in Request : Owns(call[r])
-------------------------------------------------------------------------------
(* What a step of the tables leaves to the reader.                          *)
LEMMA NoReaderIsReader ==
  IsReader(NoReader) /\ NoReader.pc = "idle" /\ ~NoReader.missing
BY DEF NoReader, IsReader

ReaderFollows ==
  /\ IsReader(reader')
  /\ \/ reader'.pc # "fetch" /\ ~reader'.missing
     \/ /\ reader'.pc = "fetch" => reader.pc = "fetch"
        /\ reader'.email = reader.email /\ reader'.missing = reader.missing

LEMMA ReaderOfBecomes ==
  ASSUME NEW m, IsReader(reader), Becomes(m)
  PROVE  mail' = m /\ ReaderFollows
<1>0. mail' = m
  BY DEF Becomes
<1>1. CASE reader' = NoReader
  BY <1>0, <1>1, NoReaderIsReader DEF ReaderFollows
<1>2. CASE reader' # NoReader
  <2>1. PICK s, l, j : reader' = [reader EXCEPT !.stayed = s, !.left = l, !.joined = j]
    BY <1>2 DEF Becomes
  <2>2. IsReader(reader') /\ reader'.pc = reader.pc /\ reader'.email = reader.email
        /\ reader'.missing = reader.missing
    BY <2>1 DEF IsReader
  <2> QED BY <1>0, <2>2 DEF ReaderFollows
<1> QED BY <1>1, <1>2

(* The rows that statements change.                                         *)
LEMMA AttachedRows ==
  ASSUME mail \in [EmailID -> Row], NEW ids, NEW v \in {"stored", "deleted"}
  PROVE  LET m == SetAttached(ids, v)
         IN  /\ m \in [EmailID -> Row]
             /\ \A e \in EmailID : m[e].attached = mail[e].attached
                                   \/ (m[e].attached = v /\ e \in ids)
BY DEF SetAttached, Rows, Row

LEMMA ReadRows ==
  ASSUME mail \in [EmailID -> Row], NEW ids
  PROVE  LET m == MarkAsReadBatch(ids)
         IN  /\ m \in [EmailID -> Row]
             /\ \A e \in EmailID : m[e].attached = mail[e].attached
BY DEF MarkAsReadBatch, Row

LEMMA DeletedRows ==
  ASSUME mail \in [EmailID -> Row], NEW ids
  PROVE  LET m == DeleteBatch(ids)
         IN  /\ m \in [EmailID -> Row]
             /\ \A e \in EmailID : m[e].attached = mail[e].attached \/ m[e].attached = "no"
<1>1. [Coming EXCEPT !.state = "gone"] \in Row /\ [Coming EXCEPT !.state = "gone"].attached = "no"
  BY DEF Coming, Row
<1> QED BY <1>1 DEF DeleteBatch
-------------------------------------------------------------------------------
(* A step that condemns what it must and deletes no other object.           *)
LEMMA KeptBy ==
  ASSUME Inductive, mail' \in [EmailID -> Row], call' \in [Request -> Activity], ReaderFollows,
         condemned \subseteq condemned',
         \A r \in Request : call'[r].keys \subseteq condemned',
         \A e \in EmailID : mail'[e].attached = "deleted" => e \in condemned'
  PROVE  Inductive'
<1>1. FetchesAnEmail' /\ MissingOnlyIfDeletionAsked'
  BY DEF Inductive, ReaderFollows, FetchesAnEmail, MissingOnlyIfDeletionAsked
<1> QED BY <1>1 DEF Inductive, Shape, KeysAreCondemned, DeletedIsCondemned, ReaderFollows

LEMMA GotoKeeps ==
  ASSUME Inductive, NEW r \in Request, NEW pc \in {"idle", "rows", "alias"}, Goto(r, pc)
  PROVE  /\ call' \in [Request -> Activity]
         /\ \A q \in Request : call'[q].keys \subseteq condemned
<1>1. Idle \in Activity /\ Idle.keys = {}
  BY DEF Idle, Activity
<1>2. [call[r] EXCEPT !.pc = pc] \in Activity /\ [call[r] EXCEPT !.pc = pc].keys = call[r].keys
  BY DEF Inductive, Shape, Activity
<1>3. PICK a \in Activity : a.keys \subseteq condemned /\ call' = [call EXCEPT ![r] = a]
  BY <1>1, <1>2 DEF Goto, Inductive, KeysAreCondemned
<1> QED BY <1>3 DEF Inductive, Shape, KeysAreCondemned

LEMMA StartKeeps ==
  ASSUME Inductive, NEW r \in Request, NEW pc \in {"mark", "markBatch", "objects"},
         NEW u \in User, NEW alias \in Alias \cup {None},
         NEW ids \in SUBSET EmailID, NEW keys \in SUBSET EmailID,
         Start(r, pc, u, alias, ids, keys), condemned' = condemned \cup keys
  PROVE  Inductive'
<1> DEFINE a == [pc |-> pc, user |-> u, alias |-> alias, ids |-> ids, keys |-> keys]
<1>1. a \in Activity /\ a.keys = keys
  BY DEF Activity
<1>2. call' = [call EXCEPT ![r] = a] /\ UNCHANGED <<mail, reader>>
  BY DEF Start
<1> HIDE DEF a
<1>3. /\ call' \in [Request -> Activity]
      /\ \A q \in Request : call'[q].keys \subseteq condemned'
  BY <1>1, <1>2 DEF Inductive, Shape, KeysAreCondemned
<1>4. ReaderFollows
  BY <1>2 DEF Inductive, Shape, ReaderFollows
<1> QED BY <1>2, <1>3, <1>4, KeptBy DEF Inductive, Shape, DeletedIsCondemned

(* Where only the reader moves.                                             *)
LEMMA ReaderMoves ==
  ASSUME Inductive, UNCHANGED <<mail, call, condemned>>, ReaderFollows
  PROVE  Inductive'
BY KeptBy DEF Inductive, Shape, KeysAreCondemned, DeletedIsCondemned
-------------------------------------------------------------------------------
LEMMA MailStep ==
  ASSUME Inductive, Mail
  PROVE  Inductive'
<1>1. PICK m : /\ Becomes(m) /\ m \in [EmailID -> Row] /\ UNCHANGED <<call, condemned>>
               /\ \A e \in EmailID : m[e].attached = "deleted" => mail[e].attached = "deleted"
  <2>1. ASSUME NEW e \in EmailID, Arrive(e)
        PROVE  \E m : /\ Becomes(m) /\ m \in [EmailID -> Row] /\ UNCHANGED <<call, condemned>>
                      /\ \A f \in EmailID : m[f].attached = mail[f].attached
    <3> DEFINE m == [mail EXCEPT ![e].state = "here"]
    <3>1. m \in [EmailID -> Row] /\ \A f \in EmailID : m[f].attached = mail[f].attached
      BY DEF Inductive, Shape, Row
    <3>2. Becomes(m) /\ UNCHANGED <<call, condemned>>
      BY <2>1 DEF Arrive
    <3> HIDE DEF m
    <3> QED BY <3>1, <3>2
  <2>2. ASSUME NEW e \in EmailID, AttachmentsArrive(e)
        PROVE  \E m : /\ Becomes(m) /\ m \in [EmailID -> Row] /\ UNCHANGED <<call, condemned>>
                      /\ \A f \in EmailID : m[f].attached = "deleted" => mail[f].attached = "deleted"
    <3> DEFINE m == SetAttached({e}, "stored")
    <3>1. /\ m \in [EmailID -> Row]
          /\ \A f \in EmailID : m[f].attached = "deleted" => mail[f].attached = "deleted"
      BY AttachedRows DEF Inductive, Shape
    <3>2. Becomes(m) /\ UNCHANGED <<call, condemned>>
      BY <2>2 DEF AttachmentsArrive
    <3> HIDE DEF m
    <3> QED BY <3>1, <3>2
  <2>3. ASSUME NEW u \in User, NEW A \in SUBSET Alias, DeleteDomain(u, A)
        PROVE  \E m : /\ Becomes(m) /\ m \in [EmailID -> Row] /\ UNCHANGED <<call, condemned>>
                      /\ \A f \in EmailID : m[f].attached = "deleted" => mail[f].attached = "deleted"
    <3> DEFINE m == DeleteBatch({e \in EmailID : RcptOf[e] \in A})
    <3>1. /\ m \in [EmailID -> Row]
          /\ \A f \in EmailID : m[f].attached = "deleted" => mail[f].attached = "deleted"
      BY DeletedRows DEF Inductive, Shape
    <3>2. Becomes(m) /\ UNCHANGED <<call, condemned>>
      BY <2>3 DEF DeleteDomain
    <3> HIDE DEF m
    <3> QED BY <3>1, <3>2
  <2> QED BY <2>1, <2>2, <2>3 DEF Mail
<1>2. mail' = m /\ ReaderFollows
  BY <1>1, ReaderOfBecomes DEF Inductive, Shape
<1> QED BY <1>1, <1>2, KeptBy DEF Inductive, Shape, KeysAreCondemned, DeletedIsCondemned

LEMMA StartStep ==
  ASSUME Inductive, NEW r \in Request, NEW u \in User
  PROVE  /\ \A e \in EmailID : GetByID(r, u, e) \/ Delete(r, u, e) => Inductive'
         /\ \A I \in SUBSET EmailID : BulkMarkAsRead(r, u, I) \/ BulkDelete(r, u, I) => Inductive'
         /\ \A a \in Alias : DeleteAlias(r, u, a) => Inductive'
<1>1. \A ids \in SUBSET EmailID : GetStorageKeys(ids) \in SUBSET EmailID
  BY DEF GetStorageKeys, Rows
<1>2. ASSUME NEW e \in EmailID, GetByID(r, u, e)
      PROVE  Inductive'
  <2>1. Start(r, "mark", u, None, {e}, {}) /\ condemned' = condemned \cup {}
    BY <1>2 DEF GetByID
  <2> QED BY <2>1, StartKeeps
<1>3. ASSUME NEW e \in EmailID, Delete(r, u, e)
      PROVE  Inductive'
  <2>1. /\ Start(r, "objects", u, None, {e}, GetStorageKeys({e}))
        /\ condemned' = condemned \cup GetStorageKeys({e})
    BY <1>3 DEF Delete
  <2> QED BY <1>1, <2>1, StartKeeps
<1>4. ASSUME NEW I \in SUBSET EmailID, BulkMarkAsRead(r, u, I) \/ BulkDelete(r, u, I)
      PROVE  Inductive'
  <2> DEFINE owned == GetEmailIDsOwnedByUser(I, u)
  <2>1. owned \in SUBSET EmailID /\ GetStorageKeys(owned) \in SUBSET EmailID
    BY <1>1 DEF GetEmailIDsOwnedByUser
  <2>2. CASE BulkMarkAsRead(r, u, I)
    <3>1. Start(r, "markBatch", u, None, owned, {}) /\ condemned' = condemned \cup {}
      BY <2>2 DEF BulkMarkAsRead
    <3> QED BY <2>1, <3>1, StartKeeps
  <2>3. CASE BulkDelete(r, u, I)
    <3>1. /\ Start(r, "objects", u, None, owned, GetStorageKeys(owned))
          /\ condemned' = condemned \cup GetStorageKeys(owned)
      BY <2>3 DEF BulkDelete
    <3> QED BY <2>1, <3>1, StartKeeps
  <2> QED BY <1>4, <2>2, <2>3
<1>5. ASSUME NEW a \in Alias, DeleteAlias(r, u, a)
      PROVE  Inductive'
  <2> DEFINE keys == GetStorageKeys({e \in EmailID : RcptOf[e] = a})
  <2>1. keys \in SUBSET EmailID
    BY <1>1
  <2>2. Start(r, "objects", u, a, {}, keys) /\ condemned' = condemned \cup keys
    BY <1>5 DEF DeleteAlias
  <2> HIDE DEF keys
  <2> QED BY <2>1, <2>2, StartKeeps
<1> QED BY <1>2, <1>3, <1>4, <1>5

LEMMA WorkStep ==
  ASSUME Inductive, NEW r \in Request,
         \/ Mark(r) \/ MarkBatch(r) \/ DeleteObjects(r)
         \/ DeleteRows(r) \/ DeleteAliasRow(r) \/ Fail(r)
  PROVE  Inductive'
<1>1. /\ call' \in [Request -> Activity]
      /\ \A q \in Request : call'[q].keys \subseteq condemned
      /\ condemned' = condemned
  <2>1. \E pc \in {"idle", "rows", "alias"} : Goto(r, pc)
    BY DEF Mark, MarkBatch, DeleteObjects, DeleteRows, DeleteAliasRow, Fail
  <2>2. condemned' = condemned
    BY DEF Mark, MarkBatch, DeleteObjects, DeleteRows, DeleteAliasRow, Fail
  <2> QED BY <2>1, <2>2, GotoKeeps
<1>2. CASE UNCHANGED <<mail, reader>>
  <2>1. ReaderFollows
    BY <1>2 DEF Inductive, Shape, ReaderFollows
  <2> QED BY <1>1, <1>2, <2>1, KeptBy DEF Inductive, Shape, DeletedIsCondemned
<1>3. ASSUME NEW m \in [EmailID -> Row], Becomes(m),
             \A e \in EmailID : m[e].attached = "deleted" => e \in condemned
      PROVE  Inductive'
  <2>1. mail' = m /\ ReaderFollows
    BY <1>3, ReaderOfBecomes DEF Inductive, Shape
  <2> QED BY <1>1, <1>3, <2>1, KeptBy
<1>4. CASE Mark(r) \/ MarkBatch(r)
  <2>1. UNCHANGED <<mail, reader>> \/ \E ids : Becomes(MarkAsReadBatch(ids))
    BY <1>4 DEF Mark, MarkBatch, MarkAsRead
  <2>2. ASSUME NEW ids, Becomes(MarkAsReadBatch(ids))
        PROVE  Inductive'
    BY <1>3, <2>2, ReadRows DEF Inductive, Shape, DeletedIsCondemned
  <2> QED BY <1>2, <2>1, <2>2
<1>5. CASE DeleteObjects(r)
  <2>1. PICK keys \in SUBSET call[r].keys : Becomes(SetAttached(keys, "deleted"))
    <3>1. PICK K \in SUBSET call[r].keys :
            Becomes(SetAttached({e \in K : mail[e].attached # "no"}, "deleted"))
      BY <1>5 DEF DeleteObjects
    <3>2. {e \in K : mail[e].attached # "no"} \in SUBSET call[r].keys
      OBVIOUS
    <3> QED BY <3>1, <3>2
  <2>2. keys \subseteq condemned
    BY DEF Inductive, KeysAreCondemned
  <2> DEFINE m == SetAttached(keys, "deleted")
  <2>3. /\ m \in [EmailID -> Row]
        /\ \A e \in EmailID : m[e].attached = "deleted" => e \in condemned
    BY <2>2, AttachedRows DEF Inductive, Shape, DeletedIsCondemned
  <2> QED BY <1>3, <2>1, <2>3
<1>6. CASE DeleteRows(r) \/ DeleteAliasRow(r)
  <2>1. PICK ids : Becomes(DeleteBatch(ids))
    BY <1>6 DEF DeleteRows, DeleteAliasRow
  <2> DEFINE m == DeleteBatch(ids)
  <2>2. /\ m \in [EmailID -> Row]
        /\ \A e \in EmailID : m[e].attached = "deleted" => e \in condemned
    BY DeletedRows DEF Inductive, Shape, DeletedIsCondemned
  <2> QED BY <1>3, <2>1, <2>2
<1>7. CASE Fail(r)
  BY <1>2, <1>7 DEF Fail
<1> QED BY <1>4, <1>5, <1>6, <1>7

(* Every step of a walk or of the statistics fills in the reader's record.  *)
LEMMA ReadStep ==
  ASSUME Inductive, Read
  PROVE  Inductive'
<1>1. UNCHANGED <<mail, call, condemned>>
  BY DEF Read, StartWalk, ListCount, ListPage, StatsSummary, StatsTime, StatsPerAlias
<1>2. IsReader(reader) /\ IsReader(NoReader)
  BY NoReaderIsReader DEF Inductive, Shape
<1>3. CASE \E u \in User, filter \in {"all", "unread", "attached"} : StartWalk(u, filter)
  <2>1. PICK u, filter, s : reader' = [NoReader EXCEPT !.pc = "count", !.user = u,
                                         !.filter = filter, !.stayed = s]
    BY <1>3 DEF StartWalk
  <2>2. ReaderFollows
    BY <2>1 DEF NoReader, IsReader, ReaderFollows
  <2> QED BY <1>1, <2>2, ReaderMoves
<1>4. CASE ListCount
  <2>1. PICK t : reader' = [reader EXCEPT !.pc = "select", !.joined = 0, !.total = t]
    BY <1>4 DEF ListCount
  <2>2. IsReader(reader') /\ reader'.pc # "fetch" /\ reader'.email = reader.email
        /\ reader'.missing = reader.missing
    BY <1>2, <2>1 DEF IsReader
  <2> QED BY <1>1, <2>2, ReaderMoves DEF ReaderFollows
<1>5. CASE ListPage
  <2>1. PICK s, pc, p : /\ reader' = [reader EXCEPT !.seen = s, !.pc = pc, !.page = p]
                        /\ pc \in {"walked", "count"}
    <3>1. PICK P : reader' = IF reader.page >= TotalPages(reader.total)
                   THEN [reader EXCEPT !.seen = @ \cup P, !.pc = "walked"]
                   ELSE [reader EXCEPT !.seen = @ \cup P, !.pc = "count", !.page = @ + 1]
      BY <1>5 DEF ListPage
    <3>2. [reader EXCEPT !.seen = @ \cup P, !.pc = "walked"]
            = [reader EXCEPT !.seen = @ \cup P, !.pc = "walked", !.page = reader.page]
      BY <1>2 DEF IsReader
    <3> QED BY <3>1, <3>2
  <2>2. IsReader(reader') /\ reader'.pc # "fetch" /\ reader'.email = reader.email
        /\ reader'.missing = reader.missing
    BY <1>2, <2>1 DEF IsReader
  <2> QED BY <1>1, <2>2, ReaderMoves DEF ReaderFollows
<1>6. CASE \E u \in User : StatsSummary(u)
  <2>1. PICK u, t : reader' = [NoReader EXCEPT !.pc = "time", !.user = u, !.total = t]
    BY <1>6 DEF StatsSummary
  <2>2. ReaderFollows
    BY <2>1 DEF NoReader, IsReader, ReaderFollows
  <2> QED BY <1>1, <2>2, ReaderMoves
<1>7. CASE StatsTime
  <2>1. PICK n : reader' = [reader EXCEPT !.pc = "alias", !.today = n]
    BY <1>7 DEF StatsTime
  <2>2. IsReader(reader') /\ reader'.pc # "fetch" /\ reader'.email = reader.email
        /\ reader'.missing = reader.missing
    BY <1>2, <2>1 DEF IsReader
  <2> QED BY <1>1, <2>2, ReaderMoves DEF ReaderFollows
<1>8. CASE StatsPerAlias
  <2>1. PICK n : reader' = [reader EXCEPT !.pc = "told", !.sum = n]
    BY <1>8 DEF StatsPerAlias
  <2>2. IsReader(reader') /\ reader'.pc # "fetch" /\ reader'.email = reader.email
        /\ reader'.missing = reader.missing
    BY <1>2, <2>1 DEF IsReader
  <2> QED BY <1>1, <2>2, ReaderMoves DEF ReaderFollows
<1> QED BY <1>3, <1>4, <1>5, <1>6, <1>7, <1>8 DEF Read

LEMMA DownloadStep ==
  ASSUME Inductive, Download
  PROVE  Inductive'
<1>1. UNCHANGED <<mail, call, condemned>>
  BY DEF Download, StartDownloads, DownloadAttachment, GetAttachment, GetAttachmentURL,
         HourPasses
<1>2. IsReader(reader) /\ IsReader(NoReader)
  BY NoReaderIsReader DEF Inductive, Shape
<1>3. ASSUME IsReader(reader'), FetchesAnEmail', MissingOnlyIfDeletionAsked'
      PROVE  Inductive'
  BY <1>1, <1>3 DEF Inductive, Shape, KeysAreCondemned, DeletedIsCondemned
<1>4. CASE (\E u \in User : StartDownloads(u)) \/ HourPasses
  <2>1. reader' = NoReader
        \/ \E u : reader' = [NoReader EXCEPT !.pc = "downloads", !.user = u]
    BY <1>4 DEF StartDownloads, HourPasses
  <2>2. IsReader(reader') /\ reader'.pc # "fetch" /\ ~reader'.missing
    <3>1. CASE reader' = NoReader
      BY <3>1, NoReaderIsReader
    <3>2. CASE \E u : reader' = [NoReader EXCEPT !.pc = "downloads", !.user = u]
      BY <3>2 DEF NoReader, IsReader
    <3> QED BY <2>1, <3>1, <3>2
  <2> QED BY <1>1, <2>2, ReaderMoves DEF ReaderFollows
<1>5. CASE \E e \in EmailID : DownloadAttachment(e)
  <2>1. PICK e \in EmailID : \E t, pc, a :
          reader' = [reader EXCEPT !.total = t, !.email = e, !.missing = FALSE, !.pc = pc,
                                   !.answer = a]
    <3>1. PICK e \in EmailID : DownloadAttachment(e)
      BY <1>5
    <3> DEFINE found == GetAttachmentMetadata(reader.user, e)
    <3>2. reader' = [reader EXCEPT !.total = @ + 1, !.email = e, !.missing = FALSE,
                       !.pc = IF found = "ok" THEN "fetch" ELSE "downloads",
                       !.answer = HandleEmailError(found)]
      BY <3>1 DEF DownloadAttachment
    <3> HIDE DEF found
    <3> QED BY <3>2
  <2>2. IsReader(reader') /\ reader'.email = e /\ ~reader'.missing
    BY <1>2, <2>1 DEF IsReader
  <2> QED BY <1>3, <2>2 DEF FetchesAnEmail, MissingOnlyIfDeletionAsked
<1>6. CASE GetAttachment \/ GetAttachmentURL
  <2>1. PICK a, missing : /\ reader' = [reader EXCEPT !.pc = "downloads", !.answer = a,
                                                      !.missing = missing]
                          /\ missing \in BOOLEAN
                          /\ missing => mail[reader.email].attached = "deleted"
    <3> DEFINE found == GetAttachmentMetadata(reader.user, reader.email)
               lost  == found = "ok" /\ mail[reader.email].attached = "deleted"
    <3>1. CASE Answered(IF lost THEN "gone" ELSE found, lost)
      <4> DEFINE a == HandleEmailError(IF lost THEN "gone" ELSE found)
      <4>1. reader' = [reader EXCEPT !.pc = "downloads", !.answer = a, !.missing = lost]
        BY <3>1 DEF Answered
      <4>2. lost \in BOOLEAN /\ (lost => mail[reader.email].attached = "deleted")
        OBVIOUS
      <4> HIDE DEF a, lost
      <4> QED BY <4>1, <4>2
    <3>2. CASE Answered("gone", FALSE) \/ Answered(found, FALSE)
      <4>1. PICK f : Answered(f, FALSE)
        BY <3>2
      <4> QED BY <4>1 DEF Answered
    <3> QED BY <1>6, <3>1, <3>2 DEF GetAttachment, GetAttachmentURL
  <2>2. reader.email \in EmailID
    BY <1>6 DEF GetAttachment, GetAttachmentURL, Inductive, FetchesAnEmail
  <2>3. missing => reader.email \in condemned
    BY <2>1, <2>2 DEF Inductive, DeletedIsCondemned
  <2>4. IsReader(reader') /\ reader'.pc = "downloads" /\ reader'.email = reader.email
        /\ reader'.missing = missing
    BY <1>2, <2>1 DEF IsReader
  <2> QED BY <1>1, <1>3, <2>3, <2>4 DEF FetchesAnEmail, MissingOnlyIfDeletionAsked
<1> QED BY <1>4, <1>5, <1>6 DEF Download
-------------------------------------------------------------------------------
LEMMA InductiveInit == Init => Inductive
<1> SUFFICES ASSUME Init PROVE Inductive
  OBVIOUS
<1>1. Coming \in Row /\ Coming.attached = "no" /\ Idle \in Activity /\ Idle.keys = {}
  BY DEF Coming, Row, Idle, Activity
<1> QED BY <1>1, NoReaderIsReader
        DEF Init, Inductive, Shape, KeysAreCondemned, DeletedIsCondemned, FetchesAnEmail,
            MissingOnlyIfDeletionAsked

LEMMA InductiveNext == Inductive /\ [Next]_vars => Inductive'
<1> SUFFICES ASSUME Inductive, [Next]_vars PROVE Inductive'
  OBVIOUS
<1>1. CASE Mail
  BY <1>1, MailStep
<1>2. CASE Read
  BY <1>2, ReadStep
<1>3. CASE Download
  BY <1>3, DownloadStep
<1>4. ASSUME NEW r \in Request, Serve(r)
      PROVE  Inductive'
  BY <1>4, StartStep, WorkStep DEF Serve
<1>5. CASE UNCHANGED vars
  BY <1>5 DEF vars, Inductive, Shape, KeysAreCondemned, DeletedIsCondemned, FetchesAnEmail,
              MissingOnlyIfDeletionAsked
<1> QED BY <1>1, <1>2, <1>3, <1>4, <1>5 DEF Next

(* Objects go missing through deletions only, and these only know the keys  *)
(* of what the owner of an email asked to delete, by the email or by the    *)
(* alias it is for (Delete and BulkDelete, email_service.go:699-709,        *)
(* 789-822; Delete, alias_service.go:529-549).                              *)
THEOREM InboxInvariant == Spec => []Inductive
BY InductiveInit, InductiveNext, PTL DEF Spec

(* An attachment whose row is there is missing from the storage only if its *)
(* owner asked to delete that email or the alias it is for                  *)
(* (email_service.go:699-709, 789-822, alias_service.go:529-549).           *)
THEOREM MissingWasAskedFor == Spec => []MissingOnlyIfDeletionAsked
<1>1. Inductive => MissingOnlyIfDeletionAsked
  BY DEF Inductive
<1> QED BY <1>1, InboxInvariant, PTL

(* MarkAsRead, DeleteBatch and the rest name emails by ID alone, after an   *)
(* earlier statement found them to be the user's; they still are (GetByID,  *)
(* Delete, BulkDelete and BulkMarkAsRead of email_service.go).  So is the   *)
(* alias that is deleted (alias_service.go:515-543).                        *)
THEOREM OwnMailIsChanged == Spec => []OwnMailOnly
<1>1. Init => OwnMailOnly
  BY DEF Init, OwnMailOnly, Owns, Idle
<1>2. ASSUME Inductive, OwnMailOnly, [Next]_vars
      PROVE  OwnMailOnly'
  <2>1. CASE UNCHANGED call
    BY <1>2, <2>1 DEF OwnMailOnly, Owns
  <2>2. ASSUME NEW r \in Request, NEW a, call' = [call EXCEPT ![r] = a], Owns(a)
        PROVE  OwnMailOnly'
    BY <1>2, <2>2 DEF OwnMailOnly, Owns, Inductive, Shape
  <2>3. ASSUME NEW r \in Request, NEW pc, NEW u, NEW alias, NEW keys, NEW ids \in SUBSET EmailID,
               Start(r, pc, u, alias, ids, keys), \A e \in ids : Owner(e) = u,
               alias # None => UserOf[alias] = u
        PROVE  OwnMailOnly'
    <3> DEFINE a == [pc |-> pc, user |-> u, alias |-> alias, ids |-> ids, keys |-> keys]
    <3>1. call' = [call EXCEPT ![r] = a] /\ Owns(a)
      BY <2>3 DEF Start, Owns
    <3> HIDE DEF a
    <3> QED BY <2>2, <3>1
  <2>4. ASSUME NEW r \in Request, NEW pc, Goto(r, pc)
        PROVE  OwnMailOnly'
    <3> DEFINE a == IF pc = "idle" THEN Idle ELSE [call[r] EXCEPT !.pc = pc]
    <3>1. call' = [call EXCEPT ![r] = a]
      BY <2>4 DEF Goto
    <3>2. Owns(a)
      BY <1>2 DEF OwnMailOnly, Owns, Idle, Inductive, Shape, Activity
    <3> HIDE DEF a
    <3> QED BY <2>2, <3>1, <3>2
  <2>5. ASSUME NEW r \in Request, Serve(r)
        PROVE  OwnMailOnly'
    <3>1. ASSUME NEW u \in User, NEW e \in EmailID, GetByID(r, u, e) \/ Delete(r, u, e)
          PROVE  OwnMailOnly'
      <4>1. /\ \E pc, keys : Start(r, pc, u, None, {e}, keys)
            /\ Owner(e) = u
        BY <3>1 DEF GetByID, Delete, IsOwnedByUser, Own
      <4> QED BY <2>3, <4>1
    <3>2. ASSUME NEW u \in User, NEW I \in SUBSET EmailID,
                 BulkMarkAsRead(r, u, I) \/ BulkDelete(r, u, I)
          PROVE  OwnMailOnly'
      <4> DEFINE owned == GetEmailIDsOwnedByUser(I, u)
      <4>1. owned \in SUBSET EmailID /\ \A e \in owned : Owner(e) = u
        BY DEF GetEmailIDsOwnedByUser, Own
      <4>2. \E pc, keys : Start(r, pc, u, None, owned, keys)
        BY <3>2 DEF BulkMarkAsRead, BulkDelete
      <4> HIDE DEF owned
      <4> QED BY <2>3, <4>1, <4>2
    <3>3. ASSUME NEW u \in User, NEW a \in Alias, DeleteAlias(r, u, a)
          PROVE  OwnMailOnly'
      <4>1. (\E pc, keys : Start(r, pc, u, a, {}, keys)) /\ UserOf[a] = u
        BY <3>3 DEF DeleteAlias
      <4> QED BY <2>3, <4>1
    <3>4. CASE \/ Mark(r) \/ MarkBatch(r) \/ DeleteObjects(r)
               \/ DeleteRows(r) \/ DeleteAliasRow(r) \/ Fail(r)
      <4>1. \E pc : Goto(r, pc)
        BY <3>4 DEF Mark, MarkBatch, DeleteObjects, DeleteRows, DeleteAliasRow, Fail
      <4> QED BY <2>4, <4>1
    <3> QED BY <2>5, <3>1, <3>2, <3>3, <3>4 DEF Serve
  <2>6. CASE Mail \/ Read \/ Download \/ UNCHANGED vars
    <3>1. UNCHANGED call
      BY <2>6 DEF Mail, Arrive, AttachmentsArrive, DeleteDomain, Read, StartWalk, ListCount,
                  ListPage, StatsSummary, StatsTime, StatsPerAlias, Download, StartDownloads,
                  DownloadAttachment, GetAttachment, GetAttachmentURL, HourPasses, vars
    <3> QED BY <2>1, <3>1
  <2> QED BY <1>2, <2>5, <2>6 DEF Next
<1> QED BY <1>1, <1>2, InboxInvariant, PTL DEF Spec
-------------------------------------------------------------------------------
(* Every filter counts an email in once and out once: when it Began to be   *)
(* in the list and when that Ended.                                         *)
Filters == {"all", "unread", "attached"}
Began(m, u, filter) ==
  {e \in EmailID : /\ Owner(e) = u
                   /\ \/ m[e].state = "gone"
                      \/ m[e].state = "here" /\ (filter = "attached" => m[e].attached # "no")}
Ended(m, u, filter) ==
  {e \in EmailID : /\ Owner(e) = u
                   /\ \/ m[e].state = "gone"
                      \/ m[e].state = "here" /\ filter = "unread" /\ m[e].read}

(* The emails whose place in the list has no ties, and that place.          *)
Alone == {e \in EmailID : \A f \in EmailID \ {e} : ReceivedAt[e] # ReceivedAt[f]}
Newer(e, L) == {f \in L : ReceivedAt[f] > ReceivedAt[e]}
Rank(e, L) == Cardinality(Newer(e, L))

Current == Listing(mail, reader.user, reader.filter)

(* The emails of the list that the walk has passed and never saw.           *)
Passed(x, L) ==
  {e \in (x.stayed \cap Alone) \ x.seen : Rank(e, L) < (x.page - 1) * PerPage}

(* What a reader was told, as far as it goes.                               *)
ReaderTypes ==
  /\ reader.filter \in Filters /\ reader.page \in Nat \ {0}
  /\ reader.stayed \subseteq EmailID /\ reader.seen \subseteq EmailID
  /\ reader.total \in Counter \cup 0..MaxDownloads
  /\ reader.today \in Counter /\ reader.sum \in Counter
  /\ reader.answer \in {0, 200, 403, 404, 410}

(* No email is counted as leaving or joining twice.                         *)
MovesAreCounted ==
  /\ reader.left \in 0..Cardinality(Ended(mail, reader.user, reader.filter))
  /\ reader.joined \in 0..Cardinality(Began(mail, reader.user, reader.filter))

(* Half way through a walk: each email passed unseen is one that slipped    *)
(* when another left, and between the count and the select the list is      *)
(* longer than the count only by what joined.                               *)
WalkMissesLittle ==
  /\ reader.pc \in {"count", "select"} =>
       reader.stayed \subseteq Current /\ Cardinality(Passed(reader, Current)) <= reader.left
  /\ reader.pc = "select" => Cardinality(Current) <= reader.total + reader.joined

(* Half way through the statistics.                                         *)
StatsAddUp ==
  /\ reader.pc \in {"time", "alias"} =>
       /\ reader.filter = "all"
       /\ Cardinality(Current) = reader.total + reader.joined - reader.left
  /\ reader.pc = "alias" => reader.today <= reader.total + reader.joined + reader.left


LEMMA SizeOf ==
  ASSUME NEW S \in SUBSET EmailID
  PROVE  /\ IsFiniteSet(S) /\ Cardinality(S) \in Nat /\ Cardinality(EmailID) \in Nat
         /\ Cardinality(S) <= Cardinality(EmailID)
BY InboxAssumption, FS_Subset, FS_CardinalityType

LEMMA SmallerOf ==
  ASSUME NEW S \in SUBSET EmailID, NEW T \in SUBSET S
  PROVE  Cardinality(T) <= Cardinality(S)
BY SizeOf, FS_Subset

(* What leaves and what joins is the difference.                            *)
LEMMA Balance ==
  ASSUME NEW A \in SUBSET EmailID, NEW B \in SUBSET EmailID
  PROVE  Cardinality(B) = Cardinality(A) - Cardinality(A \ B) + Cardinality(B \ A)
<1>1. IsFiniteSet(A) /\ IsFiniteSet(B) /\ Cardinality(A) \in Nat /\ Cardinality(B) \in Nat
  BY SizeOf
<1>2. /\ Cardinality(A \ B) = Cardinality(A) - Cardinality(A \cap B)
      /\ Cardinality(B \ A) = Cardinality(B) - Cardinality(B \cap A)
  BY <1>1, FS_Difference
<1>3. PICK n \in Nat : Cardinality(A \cap B) = n /\ Cardinality(B \cap A) = n
  <2>1. A \cap B = B \cap A /\ Cardinality(A \cap B) \in Nat
    BY SizeOf
  <2> QED BY <2>1
<1>4. PICK a \in Nat, b \in Nat : Cardinality(A) = a /\ Cardinality(B) = b
  BY <1>1
<1> QED BY <1>2, <1>3, <1>4

(* A set that grew grew by what it has more of.                             *)
LEMMA Grown ==
  ASSUME NEW X \in SUBSET EmailID, NEW Y \in SUBSET EmailID, X \subseteq Y, NEW D \in SUBSET (Y \ X)
  PROVE  Cardinality(X) + Cardinality(D) <= Cardinality(Y)
<1>1. X \cap D = {} /\ X \cup D \subseteq Y /\ D \in SUBSET EmailID
  OBVIOUS
<1>2. IsFiniteSet(X) /\ IsFiniteSet(D) /\ Cardinality(X) \in Nat /\ Cardinality(D) \in Nat
  BY <1>1, SizeOf
<1>3. Cardinality(X \cup D) = Cardinality(X) + Cardinality(D) - Cardinality(X \cap D)
  BY <1>2, FS_Union
<1>4. Cardinality(X \cap D) = 0
  BY <1>1, FS_EmptySet
<1>5. Cardinality(X \cup D) <= Cardinality(Y)
  BY <1>1, SmallerOf
<1> QED BY <1>2, <1>3, <1>4, <1>5

(* Two sets cover no more than their sizes.                                 *)
LEMMA Covered ==
  ASSUME NEW X \in SUBSET EmailID, NEW Y \in SUBSET EmailID, NEW Z \in SUBSET (X \cup Y)
  PROVE  Cardinality(Z) <= Cardinality(X) + Cardinality(Y)
<1>1. IsFiniteSet(X) /\ IsFiniteSet(Y) /\ Cardinality(X) \in Nat /\ Cardinality(Y) \in Nat
      /\ Cardinality(X \cap Y) \in Nat /\ X \cup Y \in SUBSET EmailID
      /\ Cardinality(X \cup Y) \in Nat /\ Cardinality(Z) \in Nat
  BY SizeOf
<1>2. Cardinality(X \cup Y) = Cardinality(X) + Cardinality(Y) - Cardinality(X \cap Y)
  BY <1>1, FS_Union
<1>3. Cardinality(Z) <= Cardinality(X \cup Y)
  BY <1>1, SmallerOf
<1> QED BY <1>1, <1>2, <1>3
-------------------------------------------------------------------------------
(* Emails only move on: they come, are read, get their attachments, and go. *)
Advances(m, n) ==
  \A e \in EmailID :
    /\ m[e].state = "gone" => n[e].state = "gone"
    /\ m[e].state = "here" => /\ n[e].state \in {"here", "gone"}
                              /\ n[e].state = "here" =>
                                   /\ m[e].read => n[e].read
                                   /\ m[e].attached # "no" => n[e].attached # "no"

LEMMA ListingIs ==
  ASSUME NEW m, NEW u, NEW filter \in Filters
  PROVE  /\ Listing(m, u, filter) = Began(m, u, filter) \ Ended(m, u, filter)
         /\ Ended(m, u, filter) \subseteq Began(m, u, filter)
         /\ Began(m, u, filter) \subseteq EmailID /\ Listing(m, u, filter) \subseteq EmailID
<1>1. \A e \in EmailID : e \in Listing(m, u, filter) <=>
         /\ m[e].state = "here" /\ Owner(e) = u
         /\ filter = "unread" => ~m[e].read
         /\ filter = "attached" => m[e].attached # "no"
  BY DEF Listing, Own, Filters
<1>2. Listing(m, u, filter) \subseteq EmailID /\ Began(m, u, filter) \subseteq EmailID
      /\ Ended(m, u, filter) \subseteq EmailID
  BY DEF Listing, Own, Began, Ended
<1>3. ASSUME NEW e \in EmailID
      PROVE  /\ e \in Listing(m, u, filter) <=> e \in Began(m, u, filter) \ Ended(m, u, filter)
             /\ e \in Ended(m, u, filter) => e \in Began(m, u, filter)
  BY <1>1 DEF Began, Ended, Filters
<1> QED BY <1>2, <1>3

(* So an email leaves a list once and joins it once.                        *)
LEMMA OnceEach ==
  ASSUME NEW m, NEW n, Advances(m, n), NEW u, NEW filter \in Filters
  PROVE  LET now  == Listing(m, u, filter)
             next == Listing(n, u, filter)
         IN  /\ Ended(m, u, filter) \subseteq Ended(n, u, filter)
             /\ Began(m, u, filter) \subseteq Began(n, u, filter)
             /\ now \ next \subseteq Ended(n, u, filter) \ Ended(m, u, filter)
             /\ next \ now \subseteq Began(n, u, filter) \ Began(m, u, filter)
<1>1. Ended(m, u, filter) \subseteq Ended(n, u, filter)
  BY DEF Advances, Ended, Filters
<1>2. Began(m, u, filter) \subseteq Began(n, u, filter)
  BY DEF Advances, Began, Filters
<1>3. /\ Listing(m, u, filter) = Began(m, u, filter) \ Ended(m, u, filter)
      /\ Listing(n, u, filter) = Began(n, u, filter) \ Ended(n, u, filter)
  BY ListingIs
<1> QED BY <1>1, <1>2, <1>3
-------------------------------------------------------------------------------
LEMMA ReceivedAtIsNat == \A e \in EmailID : ReceivedAt[e] \in Nat
BY InboxAssumption

LEMMA RankIsSize ==
  ASSUME NEW L \in SUBSET EmailID, NEW e
  PROVE  Newer(e, L) \in SUBSET EmailID /\ Newer(e, L) \subseteq L /\ Rank(e, L) \in Nat
<1>1. Newer(e, L) \in SUBSET EmailID /\ Newer(e, L) \subseteq L
  BY DEF Newer
<1> QED BY <1>1, SizeOf DEF Rank

(* No two emails without ties have the same place in a list.                *)
LEMMA PlacesDiffer ==
  ASSUME NEW L \in SUBSET EmailID, NEW e \in L \cap Alone, NEW f \in L \cap Alone, e # f
  PROVE  Rank(e, L) # Rank(f, L)
<1>1. ASSUME NEW x \in L \cap Alone, NEW y \in L \cap Alone, ReceivedAt[x] > ReceivedAt[y]
      PROVE  Rank(x, L) # Rank(y, L)
  <2>1. Newer(x, L) \subseteq Newer(y, L)
    BY <1>1, ReceivedAtIsNat DEF Newer, Alone
  <2>2. x \in Newer(y, L) /\ x \notin Newer(x, L)
    BY <1>1, ReceivedAtIsNat DEF Newer, Alone
  <2>3. IsFiniteSet(Newer(y, L))
    BY RankIsSize, SizeOf
  <2> QED BY <2>1, <2>2, <2>3, FS_Subset DEF Rank
<1>2. ReceivedAt[e] # ReceivedAt[f] /\ ReceivedAt[e] \in Nat /\ ReceivedAt[f] \in Nat
  BY ReceivedAtIsNat DEF Alone
<1>3. ReceivedAt[e] > ReceivedAt[f] \/ ReceivedAt[f] > ReceivedAt[e]
  BY <1>2
<1> QED BY <1>1, <1>3

(* So there are no more of them than places.                                *)
LEMMA FewInPlaces ==
  ASSUME NEW L \in SUBSET EmailID, NEW S \in SUBSET (L \cap Alone), NEW a \in Nat, NEW d \in Nat,
         \A e \in S : Rank(e, L) >= a /\ Rank(e, L) < a + d
  PROVE  Cardinality(S) <= d
<1> DEFINE T == a..(a + d - 1)
           place == [e \in S |-> Rank(e, L)]
<1>1. IsFiniteSet(T) /\ Cardinality(T) = d
  <2>1. a + d - 1 \in Int /\ a \in Int
    OBVIOUS
  <2>2. IsFiniteSet(T) /\ Cardinality(T) = IF a > a + d - 1 THEN 0 ELSE (a + d - 1) - a + 1
    BY <2>1, FS_Interval
  <2> QED BY <2>2
<1>2. \A e \in S : Rank(e, L) \in T
  BY RankIsSize
<1>3. \A e, f \in S : e # f => Rank(e, L) # Rank(f, L)
  BY PlacesDiffer
<1> HIDE DEF T
<1>4. place \in Injection(S, T)
  BY <1>2, <1>3 DEF Injection, IsInjective
<1> QED BY <1>1, <1>4, FS_Injection

(* What leaves the list moves an email up by no more than what left.        *)
LEMMA MovesUpBy ==
  ASSUME NEW L \in SUBSET EmailID, NEW M \in SUBSET EmailID, NEW e
  PROVE  Rank(e, L) <= Rank(e, M) + Cardinality(L \ M)
<1>1. Newer(e, L) \subseteq Newer(e, M) \cup (L \ M)
  BY DEF Newer
<1>2. Newer(e, L) \in SUBSET EmailID /\ Newer(e, M) \in SUBSET EmailID /\ L \ M \in SUBSET EmailID
  BY RankIsSize
<1> QED BY <1>1, <1>2, Covered DEF Rank

(* The n newest have the first n places.                                    *)
LEMMA NewestHaveFirstPlaces ==
  ASSUME NEW L \in SUBSET EmailID, NEW n \in Nat, NEW T \in Newest(L, n), NEW e \in L \cap Alone
  PROVE  e \in T <=> Rank(e, L) < n
<1>1. /\ T \in SUBSET L /\ T \in SUBSET EmailID
      /\ Cardinality(T) = IF n < Cardinality(L) THEN n ELSE Cardinality(L)
      /\ \A x \in T, y \in L \ T : ReceivedAt[x] >= ReceivedAt[y]
  BY DEF Newest
<1>2. Cardinality(L) \in Nat /\ Rank(e, L) \in Nat /\ Cardinality(T) \in Nat
      /\ IsFiniteSet(T) /\ IsFiniteSet(L) /\ Newer(e, L) \in SUBSET EmailID
      /\ IsFiniteSet(Newer(e, L))
  BY <1>1, SizeOf, RankIsSize
<1>3. ASSUME e \in T
      PROVE  Rank(e, L) < n
  <2>1. Newer(e, L) \cup {e} \subseteq T
    BY <1>1, <1>3, ReceivedAtIsNat DEF Newer
  <2>2. e \notin Newer(e, L)
    BY ReceivedAtIsNat DEF Newer
  <2>3. Cardinality(Newer(e, L) \cup {e}) = Rank(e, L) + 1
    BY <1>2, <2>2, FS_AddElement DEF Rank
  <2>4. Cardinality(Newer(e, L) \cup {e}) <= Cardinality(T)
    BY <1>1, <2>1, SmallerOf
  <2> QED BY <1>1, <1>2, <2>3, <2>4
<1>4. ASSUME e \notin T
      PROVE  n <= Rank(e, L)
  <2>1. T \subseteq Newer(e, L)
    <3>1. ASSUME NEW x \in T PROVE ReceivedAt[x] > ReceivedAt[e]
      <4>1. ReceivedAt[x] >= ReceivedAt[e] /\ x # e /\ x \in EmailID
        BY <1>1, <1>4
      <4>2. ReceivedAt[x] # ReceivedAt[e] /\ ReceivedAt[x] \in Nat /\ ReceivedAt[e] \in Nat
        BY <4>1, ReceivedAtIsNat DEF Alone
      <4> QED BY <4>1, <4>2
    <3> QED BY <1>1, <3>1 DEF Newer
  <2>2. Cardinality(T) <= Rank(e, L)
    BY <1>2, <2>1, SmallerOf DEF Rank
  <2>3. Cardinality(T) # Cardinality(L)
    BY <1>1, <1>2, <1>4, FS_Subset
  <2> QED BY <1>1, <1>2, <2>2, <2>3
<1> QED BY <1>2, <1>3, <1>4

(* A page shows the emails in its places.                                   *)
LEMMA PageShowsPlaces ==
  ASSUME NEW L \in SUBSET EmailID, NEW n \in Nat \ {0}, NEW P \in Page(L, n),
         NEW e \in L \cap Alone, Rank(e, L) >= (n - 1) * PerPage, Rank(e, L) < n * PerPage
  PROVE  e \in P
<1>1. PICK Q \in Newest(L, (n - 1) * PerPage) \X Newest(L, n * PerPage) : P = Q[2] \ Q[1]
  BY DEF Page
<1>2. (n - 1) * PerPage \in Nat /\ n * PerPage \in Nat
  BY InboxAssumption
<1>3. Rank(e, L) \in Nat /\ ~(Rank(e, L) < (n - 1) * PerPage)
  BY <1>2, RankIsSize
<1>4. e \in Q[2]
  BY <1>1, <1>2, NewestHaveFirstPlaces
<1>5. e \notin Q[1]
  BY <1>1, <1>2, <1>3, NewestHaveFirstPlaces
<1> QED BY <1>1, <1>4, <1>5

LEMMA PageIsOfTheList ==
  ASSUME NEW L, NEW n, NEW P \in Page(L, n)
  PROVE  P \subseteq L
<1>1. PICK Q \in Newest(L, (n - 1) * PerPage) \X Newest(L, n * PerPage) : P = Q[2] \ Q[1]
  BY DEF Page
<1>2. Q[2] \in SUBSET L
  BY <1>1 DEF Newest
<1> QED BY <1>1, <1>2

(* The pages that were announced have a place for all that were counted.    *)
LEMMA LastPageIsFarEnough ==
  ASSUME NEW total \in Nat, NEW n \in Nat \ {0}, n >= TotalPages(total)
  PROVE  n * PerPage >= total
<1>1. PICK p \in Nat \ {0} : p = PerPage
  BY InboxAssumption
<1>2. CASE total = 0
  BY <1>1, <1>2
<1>3. CASE total # 0
  <2>1. PICK q \in Int : q = (total + p - 1) \div p /\ n >= q
    BY <1>1, <1>3 DEF TotalPages
  <2>2. q * p > (total + p - 1) - p
    BY <1>1, <2>1
  <2>3. n * p >= q * p
    BY <1>1, <2>1
  <2>4. n * p \in Int /\ q * p \in Int
    BY <1>1, <2>1
  <2> QED BY <1>1, <2>2, <2>3, <2>4
<1> QED BY <1>2, <1>3

(* Inductive only together with the types of Inductive: what the tables     *)
(* become and how the reader's record follows them.                         *)
Answering ==
  ReaderTypes /\ MovesAreCounted /\ WalkMissesLittle /\ StatsAddUp /\ AnswersMissOnlyWhatMoved
-------------------------------------------------------------------------------
LEMMA CurrentIs ==
  ASSUME Answering
  PROVE  /\ Current \in SUBSET EmailID /\ reader.filter \in Filters
         /\ Ended(mail, reader.user, reader.filter) \in SUBSET EmailID
         /\ Began(mail, reader.user, reader.filter) \in SUBSET EmailID
         /\ Cardinality(Current) \in 0..Cardinality(EmailID) /\ Cardinality(EmailID) \in Nat
         /\ reader.left \in 0..Cardinality(EmailID) /\ reader.joined \in 0..Cardinality(EmailID)
         /\ reader.total \in Nat /\ reader.today \in Nat /\ reader.sum \in Nat
<1>1. reader.filter \in Filters
  BY DEF Answering, ReaderTypes
<1>2. /\ Current \in SUBSET EmailID
      /\ Ended(mail, reader.user, reader.filter) \in SUBSET EmailID
      /\ Began(mail, reader.user, reader.filter) \in SUBSET EmailID
  BY <1>1, ListingIs DEF Current, Ended
<1>3. /\ Cardinality(Current) \in 0..Cardinality(EmailID) /\ Cardinality(EmailID) \in Nat
      /\ Cardinality(Ended(mail, reader.user, reader.filter)) \in 0..Cardinality(EmailID)
      /\ Cardinality(Began(mail, reader.user, reader.filter)) \in 0..Cardinality(EmailID)
  BY <1>2, SizeOf
<1>4. reader.left \in 0..Cardinality(EmailID) /\ reader.joined \in 0..Cardinality(EmailID)
  BY <1>3 DEF Answering, MovesAreCounted
<1>5. reader.total \in Nat /\ reader.today \in Nat /\ reader.sum \in Nat
  BY <1>3, InboxAssumption DEF Answering, ReaderTypes, Counter
<1> QED BY <1>1, <1>2, <1>3, <1>4, <1>5

(* A reader that has its answer is forgotten.                               *)
LEMMA NobodyReads ==
  ASSUME reader' = NoReader
  PROVE  Answering'
<1>1. /\ reader'.pc = "idle" /\ reader'.user = None /\ reader'.filter = "all" /\ reader'.page = 1
      /\ reader'.seen = {} /\ reader'.total = 0 /\ reader'.today = 0 /\ reader'.sum = 0
      /\ reader'.stayed = {} /\ reader'.left = 0 /\ reader'.joined = 0 /\ reader'.answer = 0
  BY DEF NoReader
<1>2. \A S \in SUBSET EmailID : Cardinality(S) \in Nat
  BY SizeOf
<1>3. /\ Ended(mail', reader'.user, reader'.filter) \in SUBSET EmailID
      /\ Began(mail', reader'.user, reader'.filter) \in SUBSET EmailID
  BY DEF Ended, Began
<1>4. MovesAreCounted'
  BY <1>1, <1>2, <1>3 DEF MovesAreCounted
<1>5. ReaderTypes'
  <2>1. 0 \in Counter
    BY SizeOf DEF Counter
  <2> QED BY <1>1, <2>1 DEF ReaderTypes, Filters
<1> QED BY <1>1, <1>4, <1>5
        DEF Answering, WalkMissesLittle, StatsAddUp, AnswersMissOnlyWhatMoved

(* A table that moves on moves a walk's emails past it one by one: an email *)
(* that left lets at most one other slip from a page still to come to one   *)
(* that was seen.                                                           *)
LEMMA FewSlip ==
  ASSUME NEW L \in SUBSET EmailID, NEW M \in SUBSET EmailID, NEW b \in Nat,
         NEW S \in SUBSET L
  PROVE  Cardinality({e \in S \cap M \cap Alone : Rank(e, M) < b})
           <= Cardinality({e \in S \cap Alone : Rank(e, L) < b}) + Cardinality(L \ M)
<1> DEFINE X == {e \in S \cap Alone : Rank(e, L) < b}
           Y == {e \in S \cap M \cap Alone : Rank(e, M) < b}
           N == Y \ X
<1>1. PICK d \in Nat : d = Cardinality(L \ M)
  BY SizeOf
<1>2. \A e \in N : Rank(e, L) >= b /\ Rank(e, L) < b + d
  <2> SUFFICES ASSUME NEW e \in N PROVE Rank(e, L) >= b /\ Rank(e, L) < b + d
    OBVIOUS
  <2>1. Rank(e, L) \in Nat /\ Rank(e, M) \in Nat
    BY RankIsSize
  <2>2. Rank(e, M) < b /\ ~(Rank(e, L) < b)
    OBVIOUS
  <2>3. Rank(e, L) <= Rank(e, M) + d
    BY <1>1, MovesUpBy
  <2> QED BY <2>1, <2>2, <2>3
<1>3. Cardinality(N) <= d
  <2>1. N \in SUBSET (L \cap Alone)
    OBVIOUS
  <2> HIDE DEF N
  <2> QED BY <1>2, <2>1, FewInPlaces
<1>4. Y \in SUBSET (X \cup N) /\ X \in SUBSET EmailID /\ N \in SUBSET EmailID /\ Y \in SUBSET EmailID
  OBVIOUS
<1> HIDE DEF X, Y, N
<1>5. Cardinality(Y) <= Cardinality(X) + Cardinality(N)
  BY <1>4, Covered
<1>6. Cardinality(X) \in Nat /\ Cardinality(N) \in Nat /\ Cardinality(Y) \in Nat
  BY <1>4, SizeOf
<1>7. Cardinality(Y) <= Cardinality(X) + d
  BY <1>3, <1>5, <1>6
<1> QED BY <1>1, <1>7 DEF X, Y

LEMMA TableStep ==
  ASSUME IsReader(reader), Answering, NEW m, Advances(mail, m), Becomes(m)
  PROVE  Answering'
<1> DEFINE next == Listing(m, reader.user, reader.filter)
           R == Current \ next
           A == next \ Current
<1>1. CASE ~Reading
  <2>1. reader' = NoReader
    BY <1>1 DEF Becomes
  <2> QED BY <2>1, NobodyReads
<1>2. CASE Reading
  <2>1. /\ mail' = m
        /\ reader' = [reader EXCEPT !.stayed = @ \cap next, !.left = @ + Cardinality(R),
                                    !.joined = @ + Cardinality(A)]
    BY <1>2 DEF Becomes, Current
  <2>2. next \in SUBSET EmailID /\ R \in SUBSET EmailID /\ A \in SUBSET EmailID
    BY CurrentIs DEF Listing, Own
  <2>3. /\ reader'.pc = reader.pc /\ reader'.user = reader.user
        /\ reader'.filter = reader.filter /\ reader'.page = reader.page
        /\ reader'.seen = reader.seen /\ reader'.total = reader.total
        /\ reader'.today = reader.today /\ reader'.sum = reader.sum
        /\ reader'.answer = reader.answer
        /\ reader'.stayed = reader.stayed \cap next
        /\ reader'.left = reader.left + Cardinality(R)
        /\ reader'.joined = reader.joined + Cardinality(A)
    BY <2>1 DEF IsReader
  <2>4. PICK r \in Nat, a \in Nat : r = Cardinality(R) /\ a = Cardinality(A)
    BY <2>2, SizeOf
  <2>5. Current' = next
    BY <2>1, <2>3 DEF Current
  <2>6. ReaderTypes'
    BY <2>3 DEF Answering, ReaderTypes
  <2>7. MovesAreCounted'
    <3> DEFINE E == Ended(mail, reader.user, reader.filter)
               F == Ended(m, reader.user, reader.filter)
               B == Began(mail, reader.user, reader.filter)
               C == Began(m, reader.user, reader.filter)
    <3>1. E \subseteq F /\ B \subseteq C /\ R \in SUBSET (F \ E) /\ A \in SUBSET (C \ B)
      BY CurrentIs, OnceEach DEF Current
    <3>2. E \in SUBSET EmailID /\ F \in SUBSET EmailID /\ B \in SUBSET EmailID
          /\ C \in SUBSET EmailID
      BY DEF Ended, Began
    <3>3. reader.left \in 0..Cardinality(E) /\ reader.joined \in 0..Cardinality(B)
      BY DEF Answering, MovesAreCounted
    <3>4. MovesAreCounted' <=> /\ reader.left + r \in 0..Cardinality(F)
                               /\ reader.joined + a \in 0..Cardinality(C)
      BY <2>1, <2>3, <2>4 DEF MovesAreCounted
    <3> HIDE DEF E, F, B, C, R, A
    <3>5. Cardinality(E) + r <= Cardinality(F) /\ Cardinality(B) + a <= Cardinality(C)
      BY <2>4, <3>1, <3>2, Grown
    <3>6. Cardinality(E) \in Nat /\ Cardinality(F) \in Nat /\ Cardinality(B) \in Nat
          /\ Cardinality(C) \in Nat
      BY <3>2, SizeOf
    <3> QED BY <3>3, <3>4, <3>5, <3>6
  <2>8. PICK k \in Nat, n \in Nat : /\ k = Cardinality(Current) /\ n = Cardinality(next)
                                    /\ n = k - r + a
    <3>1. Cardinality(next) = Cardinality(Current) - r + a
      BY <2>2, <2>4, CurrentIs, Balance
    <3> HIDE DEF next
    <3> QED BY <2>2, <3>1, CurrentIs, SizeOf
  <2>9. WalkMissesLittle'
    <3>1. ASSUME reader.pc \in {"count", "select"}
          PROVE  Cardinality(Passed(reader, Current)') <= reader.left + r
      <4> DEFINE b == (reader.page - 1) * PerPage
                 S == reader.stayed \ reader.seen
      <4>1. S \in SUBSET Current /\ Cardinality(Passed(reader, Current)) <= reader.left
        BY <3>1 DEF Answering, WalkMissesLittle
      <4>2. b \in Nat
        BY InboxAssumption DEF Answering, ReaderTypes
      <4>3. Passed(reader, Current) = {e \in S \cap Alone : Rank(e, Current) < b}
        BY DEF Passed
      <4>4. Passed(reader, Current)' = {e \in S \cap next \cap Alone : Rank(e, next) < b}
        BY <2>3, <2>5 DEF Passed, Rank, Newer, Alone
      <4> HIDE DEF b, S, next, R, A
      <4>5. Cardinality(Passed(reader, Current)')
              <= Cardinality(Passed(reader, Current)) + Cardinality(Current \ next)
        BY <2>2, <4>1, <4>2, <4>3, <4>4, CurrentIs, FewSlip
      <4>6. Cardinality(Passed(reader, Current)') \in Nat /\ reader.left \in Nat
            /\ Cardinality(Passed(reader, Current)) \in Nat
        <5>1. {e \in S \cap next \cap Alone : Rank(e, next) < b} \in SUBSET EmailID
              /\ {e \in S \cap Alone : Rank(e, Current) < b} \in SUBSET EmailID
          BY DEF Alone
        <5> QED BY <4>3, <4>4, <5>1, SizeOf, CurrentIs
      <4> QED BY <2>4, <4>1, <4>5, <4>6 DEF R
    <3>2. reader'.stayed \subseteq Current'
      BY <2>3, <2>5
    <3>3. reader.pc = "select" => n <= reader.total + (reader.joined + a)
      BY <2>8, CurrentIs DEF Answering, WalkMissesLittle
    <3> HIDE DEF next, R, A
    <3> QED BY <2>3, <2>4, <2>5, <2>8, <3>1, <3>2, <3>3 DEF WalkMissesLittle
  <2>10. StatsAddUp'
    <3>1. reader.pc \in {"time", "alias"} =>
            reader.filter = "all" /\ n = reader.total + (reader.joined + a) - (reader.left + r)
      BY <2>8, CurrentIs DEF Answering, StatsAddUp
    <3>2. reader.pc = "alias" =>
            reader.today <= reader.total + (reader.joined + a) + (reader.left + r)
      BY CurrentIs DEF Answering, StatsAddUp
    <3> HIDE DEF next, R, A
    <3> QED BY <2>3, <2>4, <2>5, <2>8, <3>1, <3>2 DEF StatsAddUp
  <2>11. AnswersMissOnlyWhatMoved'
    BY <1>2, <2>3 DEF Reading, AnswersMissOnlyWhatMoved
  <2> QED BY <2>6, <2>7, <2>9, <2>10, <2>11 DEF Answering
<1> QED BY <1>1, <1>2
-------------------------------------------------------------------------------
LEMMA PlaceIsInTheList ==
  ASSUME NEW L \in SUBSET EmailID, NEW e \in L
  PROVE  Rank(e, L) < Cardinality(L)
<1>1. Newer(e, L) \cup {e} \in SUBSET L /\ e \notin Newer(e, L)
  BY ReceivedAtIsNat DEF Newer
<1>2. IsFiniteSet(Newer(e, L)) /\ Rank(e, L) \in Nat /\ Cardinality(L) \in Nat
  BY RankIsSize, SizeOf
<1>3. Cardinality(Newer(e, L) \cup {e}) = Rank(e, L) + 1
  BY <1>1, <1>2, FS_AddElement DEF Rank
<1>4. Cardinality(Newer(e, L) \cup {e}) <= Cardinality(L)
  BY <1>1, SmallerOf
<1> QED BY <1>2, <1>3, <1>4

LEMMA AllIsOwn == \A m, u : Listing(m, u, "all") = Own(m, u)
BY DEF Listing, Own

(* The list of a filter has at most all emails, and so has a count.         *)
LEMMA CountersHold ==
  ASSUME NEW S \in SUBSET EmailID
  PROVE  /\ Cardinality(S) \in Counter /\ 0 \in Counter
         /\ \A n \in 0..Cardinality(S) : n \in Counter
<1>1. PICK n \in Nat, k \in Nat : n = Cardinality(S) /\ k = Cardinality(EmailID) /\ n <= k
  BY SizeOf
<1> QED BY <1>1 DEF Counter

(* A step that neither touches the tables nor the reader's counts.          *)
LEMMA Unmoved ==
  ASSUME Answering, mail' = mail, reader'.user = reader.user, reader'.filter = reader.filter,
         reader'.left = reader.left
  PROVE  /\ Current' = Current
         /\ reader'.joined \in {0, reader.joined} => MovesAreCounted'
<1>1. Current' = Current
  BY DEF Current
<1>2. ASSUME reader'.joined \in {0, reader.joined}
      PROVE  MovesAreCounted'
  <2>1. Cardinality(Began(mail, reader.user, reader.filter)) \in Nat
    BY CurrentIs, SizeOf
  <2> QED BY <1>2, <2>1 DEF Answering, MovesAreCounted
<1> QED BY <1>1, <1>2

LEMMA StartWalkStep ==
  ASSUME NEW u \in User, NEW filter \in Filters, StartWalk(u, filter)
  PROVE  Answering'
<1> DEFINE L == Listing(mail, u, filter)
<1>1. /\ mail' = mail /\ reader'.pc = "count" /\ reader'.user = u /\ reader'.filter = filter
      /\ reader'.stayed = L /\ reader'.page = 1 /\ reader'.seen = {} /\ reader'.total = 0
      /\ reader'.today = 0 /\ reader'.sum = 0 /\ reader'.left = 0 /\ reader'.joined = 0
      /\ reader'.answer = 0
  BY DEF StartWalk, NoReader
<1>2. L \in SUBSET EmailID
  BY DEF Listing, Own
<1>3. ReaderTypes'
  BY <1>1, <1>2, CountersHold DEF ReaderTypes
<1>4. MovesAreCounted'
  <2>1. /\ Ended(mail', u, filter) \in SUBSET EmailID
        /\ Began(mail', u, filter) \in SUBSET EmailID
    BY DEF Ended, Began
  <2>2. /\ Cardinality(Ended(mail', u, filter)) \in Nat
        /\ Cardinality(Began(mail', u, filter)) \in Nat
    BY <2>1, SizeOf
  <2> QED BY <1>1, <2>2 DEF MovesAreCounted
<1>5. WalkMissesLittle'
  <2>1. Current' = L
    BY <1>1 DEF Current
  <2>2. (reader'.page - 1) * PerPage = 0
    BY <1>1, InboxAssumption
  <2>3. Passed(reader, Current)' = {}
    <3>1. \A e : Rank(e, L) \in Nat
      BY <1>2, RankIsSize
    <3>2. \A e : ~(Rank(e, L) < 0)
      BY <3>1
    <3>3. Passed(reader, Current)'
            = {e \in (reader'.stayed \cap Alone) \ reader'.seen : Rank(e, L) < 0}
      BY <2>1, <2>2 DEF Passed, Rank, Newer, Alone
    <3> QED BY <3>2, <3>3
  <2>4. Cardinality(Passed(reader, Current)') = 0
    BY <2>3, FS_EmptySet
  <2> QED BY <1>1, <2>1, <2>4 DEF WalkMissesLittle
<1> QED BY <1>1, <1>3, <1>4, <1>5 DEF Answering, StatsAddUp, AnswersMissOnlyWhatMoved

LEMMA ListCountStep ==
  ASSUME IsReader(reader), Answering, ListCount
  PROVE  Answering'
<1>1. /\ mail' = mail /\ reader.pc = "count"
      /\ reader' = [reader EXCEPT !.pc = "select", !.joined = 0, !.total = Cardinality(Current)]
  BY DEF ListCount, Current
<1>2. /\ reader'.pc = "select" /\ reader'.user = reader.user /\ reader'.filter = reader.filter
      /\ reader'.page = reader.page /\ reader'.seen = reader.seen
      /\ reader'.total = Cardinality(Current)
      /\ reader'.today = reader.today /\ reader'.sum = reader.sum
      /\ reader'.answer = reader.answer /\ reader'.stayed = reader.stayed
      /\ reader'.left = reader.left /\ reader'.joined = 0
  BY <1>1 DEF IsReader
<1>3. Current' = Current /\ MovesAreCounted'
  BY <1>1, <1>2, Unmoved
<1>4. ReaderTypes'
  BY <1>2, CurrentIs, CountersHold DEF Answering, ReaderTypes
<1>5. WalkMissesLittle'
  <2>1. Passed(reader, Current)' = Passed(reader, Current)
    BY <1>2, <1>3 DEF Passed, Rank, Newer, Alone
  <2>2. Cardinality(Current) <= Cardinality(Current) + 0
    BY CurrentIs
  <2> QED BY <1>1, <1>2, <1>3, <2>1, <2>2 DEF Answering, WalkMissesLittle
<1> QED BY <1>2, <1>3, <1>4, <1>5 DEF Answering, StatsAddUp, AnswersMissOnlyWhatMoved

(* An email of a page's places is seen: what the walk passes unseen is what *)
(* it passed before, and what comes after the last page is no more than     *)
(* what joined since the count.                                             *)
LEMMA ListPageStep ==
  ASSUME IsReader(reader), Answering, ListPage
  PROVE  Answering'
<1>1. PICK P \in Page(Current, reader.page) :
        reader' = IF reader.page >= TotalPages(reader.total)
                    THEN [reader EXCEPT !.seen = @ \cup P, !.pc = "walked"]
                    ELSE [reader EXCEPT !.seen = @ \cup P, !.pc = "count", !.page = @ + 1]
  BY DEF ListPage, Current
<1>2. mail' = mail /\ reader.pc = "select"
  BY DEF ListPage
<1>3. /\ reader'.user = reader.user /\ reader'.filter = reader.filter
      /\ reader'.seen = reader.seen \cup P /\ reader'.total = reader.total
      /\ reader'.today = reader.today /\ reader'.sum = reader.sum
      /\ reader'.answer = reader.answer /\ reader'.stayed = reader.stayed
      /\ reader'.left = reader.left /\ reader'.joined = reader.joined
      /\ IF reader.page >= TotalPages(reader.total)
           THEN reader'.pc = "walked" /\ reader'.page = reader.page
           ELSE reader'.pc = "count" /\ reader'.page = reader.page + 1
  BY <1>1 DEF IsReader
<1>4. Current' = Current /\ MovesAreCounted'
  BY <1>2, <1>3, Unmoved
<1>5. P \subseteq Current /\ Current \in SUBSET EmailID
  BY CurrentIs, PageIsOfTheList
<1>6. ReaderTypes'
  BY <1>3, <1>5 DEF Answering, ReaderTypes
<1>7. PICK n \in Nat \ {0}, p \in Nat \ {0} : n = reader.page /\ p = PerPage
  BY InboxAssumption DEF Answering, ReaderTypes
<1>0. n * p \in Nat /\ (n - 1) * p \in Nat
  <2>1. n \in Nat /\ n - 1 \in Nat /\ p \in Nat
    BY <1>7
  <2>2. \A a, b \in Nat : a * b \in Nat
    OBVIOUS
  <2> QED BY <2>1, <2>2
<1>8. /\ reader.stayed \subseteq Current
      /\ Cardinality(Passed(reader, Current)) <= reader.left
      /\ Cardinality(Current) <= reader.total + reader.joined
  BY <1>2 DEF Answering, WalkMissesLittle
<1>9. \A e \in (reader.stayed \cap Alone) \ reader'.seen :
        Rank(e, Current) < n * p => e \in Passed(reader, Current)
  <2> SUFFICES ASSUME NEW e \in (reader.stayed \cap Alone) \ reader'.seen,
                      Rank(e, Current) < n * p, e \notin Passed(reader, Current)
               PROVE  FALSE
    OBVIOUS
  <2>1. Rank(e, Current) \in Nat /\ (n - 1) * p \in Nat
    BY <1>0, <1>5, RankIsSize
  <2>2. ~(Rank(e, Current) < (n - 1) * p)
    BY <1>3, <1>7 DEF Passed
  <2>3. Rank(e, Current) >= (n - 1) * p
    BY <2>1, <2>2
  <2>4. e \in P
    BY <1>5, <1>7, <1>8, <2>3, PageShowsPlaces
  <2> QED BY <1>3, <2>4
<1>10. Passed(reader, Current) \in SUBSET EmailID
  BY DEF Passed, Alone
<1>11. CASE reader.page >= TotalPages(reader.total)
  <2> DEFINE missed == (reader.stayed \cap Alone) \ reader'.seen
             N == {e \in missed : ~(Rank(e, Current) < n * p)}
  <2>1. missed \in SUBSET (Passed(reader, Current) \cup N) /\ missed \in SUBSET EmailID
        /\ N \in SUBSET (Current \cap Alone)
    BY <1>8, <1>9 DEF Alone
  <2>2. PICK t \in Nat, j \in Nat, l \in Nat :
          t = reader.total /\ j = reader.joined /\ l = reader.left
    BY CurrentIs
  <2>3. n * p >= t
    BY <1>7, <1>11, <2>2, LastPageIsFarEnough
  <2>4. \A e \in N : Rank(e, Current) >= t /\ Rank(e, Current) < t + j
    <3> SUFFICES ASSUME NEW e \in N PROVE Rank(e, Current) >= t /\ Rank(e, Current) < t + j
      OBVIOUS
    <3>1. Rank(e, Current) \in Nat /\ n * p \in Nat /\ Cardinality(Current) \in Nat
      BY <1>0, <1>5, RankIsSize, SizeOf
    <3>2. Rank(e, Current) < Cardinality(Current)
      BY <1>5, <2>1, PlaceIsInTheList
    <3> QED BY <1>8, <2>2, <2>3, <3>1, <3>2
  <2> HIDE DEF N
  <2>5. Cardinality(N) <= j
    BY <1>5, <2>1, <2>4, FewInPlaces
  <2>6. Cardinality(missed) <= Cardinality(Passed(reader, Current)) + Cardinality(N)
    <3>1. N \in SUBSET EmailID
      BY <1>5, <2>1
    <3> HIDE DEF missed
    <3> QED BY <1>10, <2>1, <3>1, Covered
  <2>7. Cardinality(missed) \in Nat /\ Cardinality(N) \in Nat
        /\ Cardinality(Passed(reader, Current)) \in Nat
    <3>1. N \in SUBSET EmailID
      BY <1>5, <2>1
    <3> HIDE DEF missed
    <3> QED BY <1>10, <2>1, <3>1, SizeOf
  <2>8. Cardinality(missed) <= l + j
    <3> HIDE DEF missed
    <3> QED BY <1>8, <2>2, <2>5, <2>6, <2>7
  <2>9. reader'.pc = "walked"
    BY <1>3, <1>11
  <2>10. AnswersMissOnlyWhatMoved'
    BY <1>3, <2>2, <2>8, <2>9 DEF AnswersMissOnlyWhatMoved, Alone
  <2> QED BY <1>4, <1>6, <2>9, <2>10 DEF Answering, WalkMissesLittle, StatsAddUp
<1>12. CASE ~(reader.page >= TotalPages(reader.total))
  <2>1. reader'.pc = "count" /\ reader'.page = n + 1
    BY <1>3, <1>7, <1>12
  <2>2. Passed(reader, Current)' \in SUBSET Passed(reader, Current)
    <3>1. (reader'.page - 1) * PerPage = n * p
      BY <1>7, <2>1
    <3>2. Passed(reader, Current)'
            = {e \in (reader.stayed \cap Alone) \ reader'.seen : Rank(e, Current) < n * p}
      BY <1>3, <1>4, <3>1 DEF Passed, Rank, Newer, Alone
    <3> QED BY <1>9, <3>2
  <2>3. Cardinality(Passed(reader, Current)') <= Cardinality(Passed(reader, Current))
    BY <1>10, <2>2, SmallerOf
  <2>4. Cardinality(Passed(reader, Current)') <= reader.left
    <3>1. /\ Cardinality(Passed(reader, Current)') \in Nat /\ reader.left \in Nat
          /\ Cardinality(Passed(reader, Current)) \in Nat
      BY <1>10, <2>2, SizeOf, CurrentIs
    <3> QED BY <1>8, <2>3, <3>1
  <2> QED BY <1>3, <1>4, <1>6, <1>8, <2>1, <2>4
          DEF Answering, WalkMissesLittle, StatsAddUp, AnswersMissOnlyWhatMoved
<1> QED BY <1>11, <1>12

LEMMA StatsStep ==
  ASSUME IsReader(reader), Answering, (\E u \in User : StatsSummary(u)) \/ StatsTime \/ StatsPerAlias
  PROVE  Answering'
<1>1. ASSUME NEW u \in User, StatsSummary(u)
      PROVE  Answering'
  <2>1. /\ mail' = mail /\ reader'.pc = "time" /\ reader'.user = u /\ reader'.filter = "all"
        /\ reader'.stayed = {} /\ reader'.page = 1 /\ reader'.seen = {}
        /\ reader'.total = Cardinality(Own(mail, u))
        /\ reader'.today = 0 /\ reader'.sum = 0 /\ reader'.left = 0 /\ reader'.joined = 0
        /\ reader'.answer = 0
    BY <1>1 DEF StatsSummary, NoReader
  <2>2. /\ Ended(mail, u, "all") \in SUBSET EmailID /\ Began(mail, u, "all") \in SUBSET EmailID
        /\ Own(mail, u) \in SUBSET EmailID
    BY DEF Ended, Began, Own
  <2>3. MovesAreCounted'
    <3>1. /\ Cardinality(Ended(mail, u, "all")) \in Nat
          /\ Cardinality(Began(mail, u, "all")) \in Nat
      BY <2>2, SizeOf
    <3> QED BY <2>1, <3>1 DEF MovesAreCounted
  <2>4. ReaderTypes'
    BY <2>1, <2>2, CountersHold DEF ReaderTypes, Filters
  <2>5. StatsAddUp'
    <3>1. Current' = Own(mail, u)
      BY <2>1, AllIsOwn DEF Current
    <3>2. Cardinality(Own(mail, u)) \in Nat
      BY <2>2, SizeOf
    <3>3. Cardinality(Own(mail, u)) = Cardinality(Own(mail, u)) + 0 - 0
      BY <3>2
    <3> QED BY <2>1, <3>1, <3>3 DEF StatsAddUp
  <2> QED BY <2>1, <2>3, <2>4, <2>5 DEF Answering, WalkMissesLittle, AnswersMissOnlyWhatMoved
<1>2. ASSUME reader.pc \in {"time", "alias"}
      PROVE  /\ Own(mail, reader.user) = Current
             /\ Cardinality(Current) = reader.total + reader.joined - reader.left
  BY <1>2, AllIsOwn DEF Answering, StatsAddUp, Current
<1>3. PICK k \in Nat, t \in Nat, j \in Nat, l \in Nat :
        /\ k = Cardinality(Current) /\ t = reader.total /\ j = reader.joined /\ l = reader.left
  BY CurrentIs
<1>4. CASE StatsTime
  <2>1. PICK n \in 0..k : reader' = [reader EXCEPT !.pc = "alias", !.today = n]
    BY <1>2, <1>3, <1>4 DEF StatsTime
  <2>2. mail' = mail /\ reader.pc = "time"
    BY <1>4 DEF StatsTime
  <2>3. /\ reader'.pc = "alias" /\ reader'.user = reader.user /\ reader'.filter = reader.filter
        /\ reader'.page = reader.page /\ reader'.seen = reader.seen
        /\ reader'.total = reader.total /\ reader'.today = n /\ reader'.sum = reader.sum
        /\ reader'.answer = reader.answer /\ reader'.stayed = reader.stayed
        /\ reader'.left = reader.left /\ reader'.joined = reader.joined
    BY <2>1 DEF IsReader
  <2>4. Current' = Current /\ MovesAreCounted'
    BY <2>2, <2>3, Unmoved
  <2>5. ReaderTypes'
    BY <1>3, <2>3, CurrentIs, CountersHold DEF Answering, ReaderTypes
  <2>6. StatsAddUp'
    <3>1. n <= t + j + l
      BY <1>2, <1>3, <2>2
    <3> QED BY <1>3, <2>2, <2>3, <2>4, <3>1 DEF Answering, StatsAddUp
  <2> QED BY <2>3, <2>4, <2>5, <2>6 DEF Answering, WalkMissesLittle, AnswersMissOnlyWhatMoved
<1>5. CASE StatsPerAlias
  <2>1. reader' = [reader EXCEPT !.pc = "told", !.sum = k]
    BY <1>2, <1>3, <1>5 DEF StatsPerAlias
  <2>2. mail' = mail /\ reader.pc = "alias"
    BY <1>5 DEF StatsPerAlias
  <2>3. /\ reader'.pc = "told" /\ reader'.user = reader.user /\ reader'.filter = reader.filter
        /\ reader'.page = reader.page /\ reader'.seen = reader.seen
        /\ reader'.total = reader.total /\ reader'.today = reader.today /\ reader'.sum = k
        /\ reader'.answer = reader.answer /\ reader'.stayed = reader.stayed
        /\ reader'.left = reader.left /\ reader'.joined = reader.joined
    BY <2>1 DEF IsReader
  <2>4. Current' = Current /\ MovesAreCounted'
    BY <2>2, <2>3, Unmoved
  <2>5. ReaderTypes'
    BY <1>3, <2>3, CurrentIs, CountersHold DEF Answering, ReaderTypes
  <2>6. AnswersMissOnlyWhatMoved'
    <3>1. k = t + j - l
      BY <1>2, <1>3, <2>2
    <3>2. reader.today <= t + j + l /\ reader.today \in Nat
      BY <1>3, <2>2, CurrentIs DEF Answering, StatsAddUp
    <3>3. /\ reader.today <= t + (l + j)
          /\ k <= t + (l + j) /\ t <= k + (l + j)
      BY <3>1, <3>2
    <3> QED BY <1>3, <2>3, <3>3 DEF AnswersMissOnlyWhatMoved
  <2> QED BY <2>3, <2>4, <2>5, <2>6 DEF Answering, WalkMissesLittle, StatsAddUp
<1> QED BY <1>1, <1>4, <1>5
-------------------------------------------------------------------------------
LEMMA NothingMoves ==
  ASSUME Answering, UNCHANGED <<mail, reader>>
  PROVE  Answering'
BY DEF Answering, ReaderTypes, MovesAreCounted, WalkMissesLittle, StatsAddUp, Current, Passed,
       Rank, Newer, AnswersMissOnlyWhatMoved

Statuses == {0, 200, 403, 404, 410}

LEMMA AnswersAreStatuses ==
  /\ \A u, e : GetAttachmentMetadata(u, e) \in {"ok", "not found", "denied"}
  /\ \A found \in {"ok", "not found", "denied", "gone"} : HandleEmailError(found) \in Statuses
<1>1. ASSUME NEW u, NEW e
      PROVE  GetAttachmentMetadata(u, e) \in {"ok", "not found", "denied"}
  BY DEF GetAttachmentMetadata
<1>2. \A found \in {"ok", "not found", "denied", "gone"} : HandleEmailError(found) \in Statuses
  <2>1. HandleEmailError("ok") \in Statuses
    BY DEF HandleEmailError, Statuses
  <2>2. HandleEmailError("not found") \in Statuses
    BY DEF HandleEmailError, Statuses
  <2>3. HandleEmailError("denied") \in Statuses
    BY DEF HandleEmailError, Statuses
  <2>4. HandleEmailError("gone") \in Statuses
    BY DEF HandleEmailError, Statuses
  <2> SUFFICES ASSUME NEW found, found \in {"ok", "not found", "denied", "gone"}
               PROVE  HandleEmailError(found) \in Statuses
    OBVIOUS
  <2>6. found = "ok" \/ found = "not found" \/ found = "denied" \/ found = "gone"
    OBVIOUS
  <2> QED BY <2>1, <2>2, <2>3, <2>4, <2>6
<1> QED BY <1>1, <1>2

(* A download neither walks nor counts.                                     *)
LEMMA DownloadAnswers ==
  ASSUME IsReader(reader), Answering, Download
  PROVE  Answering'
<1>1. mail' = mail
  BY DEF Download, StartDownloads, DownloadAttachment, GetAttachment, GetAttachmentURL, HourPasses
<1>2. CASE HourPasses
  BY <1>2, NobodyReads DEF HourPasses
<1>3. ASSUME NEW u \in User, StartDownloads(u)
      PROVE  Answering'
  <2>1. /\ reader'.pc = "downloads" /\ reader'.user = u /\ reader'.filter = "all"
        /\ reader'.stayed = {} /\ reader'.page = 1 /\ reader'.seen = {} /\ reader'.total = 0
        /\ reader'.today = 0 /\ reader'.sum = 0 /\ reader'.left = 0 /\ reader'.joined = 0
        /\ reader'.answer = 0
    BY <1>3 DEF StartDownloads, NoReader
  <2>2. MovesAreCounted'
    <3>1. Ended(mail, u, "all") \in SUBSET EmailID /\ Began(mail, u, "all") \in SUBSET EmailID
      BY DEF Ended, Began
    <3>2. /\ Cardinality(Ended(mail, u, "all")) \in Nat
          /\ Cardinality(Began(mail, u, "all")) \in Nat
      BY <3>1, SizeOf
    <3> QED BY <1>1, <2>1, <3>2 DEF MovesAreCounted
  <2>3. 0 \in Counter
    BY SizeOf DEF Counter
  <2> QED BY <2>1, <2>2, <2>3
          DEF Answering, ReaderTypes, Filters, WalkMissesLittle, StatsAddUp,
              AnswersMissOnlyWhatMoved
<1>4. ASSUME NEW pc \in {"downloads", "fetch"}, NEW total \in Counter \cup 0..MaxDownloads,
             NEW answer \in Statuses, NEW email, NEW missing,
             reader' = [reader EXCEPT !.pc = pc, !.total = total, !.answer = answer,
                                      !.email = email, !.missing = missing]
      PROVE  Answering'
  <2>1. /\ reader'.pc = pc /\ reader'.user = reader.user /\ reader'.filter = reader.filter
        /\ reader'.page = reader.page /\ reader'.seen = reader.seen
        /\ reader'.total = total /\ reader'.today = reader.today /\ reader'.sum = reader.sum
        /\ reader'.answer = answer /\ reader'.stayed = reader.stayed
        /\ reader'.left = reader.left /\ reader'.joined = reader.joined
    BY <1>4 DEF IsReader
  <2>2. MovesAreCounted'
    BY <1>1, <2>1, Unmoved
  <2>3. ReaderTypes'
    BY <1>4, <2>1 DEF Answering, ReaderTypes, Statuses
  <2> QED BY <1>4, <2>1, <2>2, <2>3
          DEF Answering, WalkMissesLittle, StatsAddUp, AnswersMissOnlyWhatMoved
<1>5. ASSUME NEW e \in EmailID, DownloadAttachment(e)
      PROVE  Answering'
  <2>0. PICK total \in Counter \cup 0..MaxDownloads : total = reader.total + 1
    <3>1. PICK t \in Nat, m \in Nat : t = reader.total /\ m = MaxDownloads
      BY CurrentIs, InboxAssumption
    <3>2. t < m
      BY <1>5, <3>1 DEF DownloadAttachment
    <3>3. t + 1 \in 0..m
      BY <3>1, <3>2
    <3> QED BY <3>1, <3>3
  <2>1. PICK found \in {"ok", "not found", "denied"} :
          found = GetAttachmentMetadata(reader.user, e)
    BY AnswersAreStatuses
  <2>2. PICK answer \in Statuses : answer = HandleEmailError(found)
    BY AnswersAreStatuses
  <2>3. PICK pc \in {"downloads", "fetch"} : pc = IF found = "ok" THEN "fetch" ELSE "downloads"
    OBVIOUS
  <2>5. reader' = [reader EXCEPT !.total = total, !.email = e, !.missing = FALSE, !.pc = pc,
                                 !.answer = answer]
    BY <1>5, <2>0, <2>1, <2>2, <2>3 DEF DownloadAttachment
  <2>6. reader' = [reader EXCEPT !.pc = pc, !.total = total, !.answer = answer, !.email = e,
                                 !.missing = FALSE]
    BY <2>5
  <2> QED BY <1>4, <2>6
<1>6. CASE GetAttachment \/ GetAttachmentURL
  <2>1. PICK found \in {"ok", "not found", "denied", "gone"} :
          \E missing : Answered(found, missing)
    <3>1. GetAttachmentMetadata(reader.user, reader.email) \in {"ok", "not found", "denied"}
      BY AnswersAreStatuses
    <3> QED BY <1>6, <3>1 DEF GetAttachment, GetAttachmentURL
  <2>2. PICK missing : Answered(found, missing)
    BY <2>1
  <2>3. PICK answer \in Statuses : answer = HandleEmailError(found)
    BY AnswersAreStatuses
  <2>4. reader' = [reader EXCEPT !.pc = "downloads", !.answer = answer, !.missing = missing]
    BY <2>2, <2>3 DEF Answered
  <2>5. reader' = [reader EXCEPT !.pc = "downloads", !.total = reader.total, !.answer = answer,
                                 !.email = reader.email, !.missing = missing]
    BY <2>4 DEF IsReader
  <2>6. reader.total \in Counter \cup 0..MaxDownloads
    BY DEF Answering, ReaderTypes
  <2> QED BY <1>4, <2>5, <2>6
<1> QED BY <1>2, <1>3, <1>5, <1>6 DEF Download
-------------------------------------------------------------------------------
(* Every statement on the emails moves them on.                             *)
LEMMA RowsAdvance ==
  ASSUME mail \in [EmailID -> Row], NEW ids
  PROVE  /\ \A v \in {"stored", "deleted"} : Advances(mail, SetAttached(ids, v))
         /\ Advances(mail, MarkAsReadBatch(ids))
         /\ Advances(mail, DeleteBatch(ids))
<1>1. ASSUME NEW v \in {"stored", "deleted"}, NEW e \in EmailID
      PROVE  /\ SetAttached(ids, v)[e].state = mail[e].state
             /\ SetAttached(ids, v)[e].read = mail[e].read
             /\ SetAttached(ids, v)[e].attached \in {mail[e].attached, v}
  BY DEF SetAttached, Row
<1>2. ASSUME NEW e \in EmailID
      PROVE  /\ MarkAsReadBatch(ids)[e].state = mail[e].state
             /\ MarkAsReadBatch(ids)[e].read \in {mail[e].read, TRUE}
             /\ MarkAsReadBatch(ids)[e].attached = mail[e].attached
  BY DEF MarkAsReadBatch, Row
<1>3. ASSUME NEW e \in EmailID
      PROVE  DeleteBatch(ids)[e] = mail[e] \/ DeleteBatch(ids)[e].state = "gone"
  BY DEF DeleteBatch, Coming
<1>4. \A e \in EmailID : mail[e] \in Row
  OBVIOUS
<1>5. \A v \in {"stored", "deleted"} : Advances(mail, SetAttached(ids, v))
  BY <1>1 DEF Advances
<1>6. Advances(mail, MarkAsReadBatch(ids))
  BY <1>2 DEF Advances
<1>7. Advances(mail, DeleteBatch(ids))
  BY <1>3 DEF Advances
<1> QED BY <1>5, <1>6, <1>7

LEMMA AnswerStep ==
  ASSUME Inductive, Answering, [Next]_vars
  PROVE  Answering'
<1>1. IsReader(reader) /\ mail \in [EmailID -> Row]
  BY DEF Inductive, Shape
<1>2. ASSUME NEW ids, NEW m,
             m \in {SetAttached(ids, "stored"), SetAttached(ids, "deleted"), MarkAsReadBatch(ids),
                    DeleteBatch(ids)},
             Becomes(m)
      PROVE  Answering'
  <2>1. Advances(mail, m)
    BY <1>1, <1>2, RowsAdvance
  <2> QED BY <1>1, <1>2, <2>1, TableStep
<1>3. CASE Mail
  <2>1. ASSUME NEW e \in EmailID, Arrive(e)
        PROVE  Answering'
    <3> DEFINE m == [mail EXCEPT ![e].state = "here"]
    <3>1. Becomes(m) /\ mail[e].state = "coming"
      BY <2>1 DEF Arrive
    <3>2. Advances(mail, m)
      BY <1>1, <3>1 DEF Advances, Row
    <3> HIDE DEF m
    <3> QED BY <1>1, <3>1, <3>2, TableStep
  <2>2. ASSUME NEW e \in EmailID, AttachmentsArrive(e)
        PROVE  Answering'
    BY <1>2, <2>2 DEF AttachmentsArrive
  <2>3. ASSUME NEW u \in User, NEW A \in SUBSET Alias, DeleteDomain(u, A)
        PROVE  Answering'
    BY <1>2, <2>3 DEF DeleteDomain
  <2> QED BY <1>3, <2>1, <2>2, <2>3 DEF Mail
<1>4. CASE Read
  BY <1>1, <1>4, StartWalkStep, ListCountStep, ListPageStep, StatsStep DEF Read, Filters
<1>5. CASE Download
  BY <1>1, <1>5, DownloadAnswers
<1>6. ASSUME NEW r \in Request, Serve(r)
      PROVE  Answering'
  <2>1. \/ UNCHANGED <<mail, reader>>
        \/ \E ids : \/ Becomes(SetAttached(ids, "deleted"))
                    \/ Becomes(MarkAsReadBatch(ids))
                    \/ Becomes(DeleteBatch(ids))
    BY <1>6 DEF Serve, GetByID, Delete, BulkMarkAsRead, BulkDelete, DeleteAlias, Start, Mark,
                MarkAsRead, MarkBatch, DeleteObjects, DeleteRows, DeleteAliasRow, Fail
  <2>2. CASE UNCHANGED <<mail, reader>>
    BY <2>2, NothingMoves
  <2>3. ASSUME NEW ids, \/ Becomes(SetAttached(ids, "deleted"))
                        \/ Becomes(MarkAsReadBatch(ids))
                        \/ Becomes(DeleteBatch(ids))
        PROVE  Answering'
    BY <1>2, <2>3
  <2> QED BY <2>1, <2>2, <2>3
<1>7. CASE UNCHANGED vars
  BY <1>7, NothingMoves DEF vars
<1> QED BY <1>3, <1>4, <1>5, <1>6, <1>7 DEF Next

LEMMA AnswerInit == Init => Answering
<1> SUFFICES ASSUME Init PROVE Answering
  OBVIOUS
<1>1. /\ reader.pc = "idle" /\ reader.filter = "all" /\ reader.page = 1 /\ reader.seen = {}
      /\ reader.total = 0 /\ reader.today = 0 /\ reader.sum = 0 /\ reader.stayed = {}
      /\ reader.left = 0 /\ reader.joined = 0 /\ reader.answer = 0
  BY DEF Init, NoReader
<1>2. /\ Cardinality(Ended(mail, reader.user, reader.filter)) \in Nat
      /\ Cardinality(Began(mail, reader.user, reader.filter)) \in Nat
  <2>1. /\ Ended(mail, reader.user, reader.filter) \in SUBSET EmailID
        /\ Began(mail, reader.user, reader.filter) \in SUBSET EmailID
    BY DEF Ended, Began
  <2> QED BY <2>1, SizeOf
<1>3. 0 \in Counter
  BY SizeOf DEF Counter
<1> QED BY <1>1, <1>2, <1>3
        DEF Answering, ReaderTypes, Filters, MovesAreCounted, WalkMissesLittle, StatsAddUp,
            AnswersMissOnlyWhatMoved

(* What a reader is told differs from its mail only by what moved while it  *)
(* was being told (email_repository.go:139-185, 383).                       *)
THEOREM AnswersMissLittle == Spec => []AnswersMissOnlyWhatMoved
<1>1. Inductive /\ Answering /\ [Next]_vars => Answering'
  BY AnswerStep
<1>2. Answering => AnswersMissOnlyWhatMoved
  BY DEF Answering
<1> QED BY <1>1, <1>2, AnswerInit, InboxInvariant, PTL DEF Spec
-------------------------------------------------------------------------------
(* Mail is there only while its alias is, and nobody's count of downloads   *)
(* passes the limit.                                                        *)
Tables ==
  /\ aliases \subseteq Alias /\ condemned \subseteq EmailID
  /\ \A e \in EmailID : mail[e].state = "here" => RcptOf[e] \in aliases
  /\ requests \in [User -> 0..DownloadLimit]

(* No mail is left of aliases that go: the cascade takes all of it.         *)
LEMMA CascadeIsComplete ==
  ASSUME Tables, NEW A, aliases' = aliases \ A,
         mail' = DeleteBatch({e \in EmailID : RcptOf[e] \in A})
  PROVE  \A e \in EmailID : mail'[e].state = "here" => RcptOf[e] \in aliases'
<1> DEFINE ids == {e \in EmailID : RcptOf[e] \in A}
<1> SUFFICES ASSUME NEW e \in EmailID, mail'[e].state = "here"
             PROVE  RcptOf[e] \in aliases'
  OBVIOUS
<1>1. mail'[e] = IF e \in Rows(ids) THEN [Coming EXCEPT !.state = "gone"] ELSE mail[e]
  BY DEF DeleteBatch
<1>2. e \notin Rows(ids) /\ mail[e].state = "here"
  BY <1>1 DEF Coming
<1>3. e \notin ids
  BY <1>2 DEF Rows
<1> QED BY <1>2, <1>3 DEF Tables

LEMMA TablesStep ==
  ASSUME Inductive, Tables, [Next]_vars
  PROVE  Tables'
<1>1. mail \in [EmailID -> Row]
  BY DEF Inductive, Shape
<1>2. ASSUME UNCHANGED <<aliases, requests>>, condemned' \subseteq EmailID,
             \A e \in EmailID : mail'[e].state = "here" => mail[e].state = "here"
      PROVE  Tables'
  BY <1>2 DEF Tables
<1>3. ASSUME NEW ids, NEW e \in EmailID
      PROVE  /\ \A v : SetAttached(ids, v)[e].state = mail[e].state
             /\ MarkAsReadBatch(ids)[e].state = mail[e].state
             /\ DeleteBatch(ids)[e].state = "here" => mail[e].state = "here"
  <2>1. ASSUME NEW v PROVE SetAttached(ids, v)[e].state = mail[e].state
    BY <1>1 DEF SetAttached, Row
  <2>2. MarkAsReadBatch(ids)[e].state = mail[e].state
    BY <1>1 DEF MarkAsReadBatch, Row
  <2>3. DeleteBatch(ids)[e].state = "here" => mail[e].state = "here"
    BY DEF DeleteBatch, Coming
  <2> QED BY <2>1, <2>2, <2>3
<1>4. CASE Mail
  <2>1. ASSUME NEW e \in EmailID, Arrive(e)
        PROVE  Tables'
    <3>1. /\ mail' = [mail EXCEPT ![e].state = "here"] /\ RcptOf[e] \in aliases
          /\ UNCHANGED <<aliases, requests, condemned>>
      BY <2>1 DEF Arrive, Becomes
    <3>2. \A f \in EmailID : f # e => mail'[f] = mail[f]
      BY <1>1, <3>1
    <3> QED BY <3>1, <3>2 DEF Tables
  <2>2. ASSUME NEW e \in EmailID, AttachmentsArrive(e)
        PROVE  Tables'
    <3>1. mail' = SetAttached({e}, "stored") /\ UNCHANGED <<aliases, requests, condemned>>
      BY <2>2 DEF AttachmentsArrive, Becomes
    <3>2. \A f \in EmailID : mail'[f].state = "here" => mail[f].state = "here"
      BY <1>3, <3>1
    <3> QED BY <1>2, <3>1, <3>2 DEF Tables
  <2>3. ASSUME NEW u \in User, NEW A \in SUBSET Alias, DeleteDomain(u, A)
        PROVE  Tables'
    <3> DEFINE ids == {e \in EmailID : RcptOf[e] \in A}
    <3>1. /\ mail' = DeleteBatch(ids) /\ aliases' = aliases \ A
          /\ UNCHANGED <<requests, condemned>>
      BY <2>3 DEF DeleteDomain, Becomes
    <3> QED BY <3>1, CascadeIsComplete DEF Tables
  <2> QED BY <1>4, <2>1, <2>2, <2>3 DEF Mail
<1>5. CASE Read
  BY <1>2, <1>5 DEF Read, StartWalk, ListCount, ListPage, StatsSummary, StatsTime, StatsPerAlias,
                    Tables
<1>6. CASE Download
  <2>1. requests' \in [User -> 0..DownloadLimit]
    <3>1. CASE UNCHANGED requests
      BY <3>1 DEF Tables
    <3>2. CASE HourPasses
      BY <3>2, InboxAssumption DEF HourPasses
    <3>3. ASSUME NEW key, Allow(key)
          PROVE  requests' \in [User -> 0..DownloadLimit]
      <4>1. key \in User => requests[key] + 1 \in 0..DownloadLimit
        BY <3>3, InboxAssumption DEF Allow, Tables
      <4> QED BY <3>3, <4>1 DEF Allow, Tables
    <3>4. ASSUME NEW e \in EmailID, DownloadAttachment(e)
          PROVE  UNCHANGED requests \/ \E key : Allow(key)
      BY <3>4 DEF DownloadAttachment, RateLimitDownload
    <3> QED BY <1>6, <3>1, <3>2, <3>3, <3>4
            DEF Download, StartDownloads, GetAttachment, GetAttachmentURL
  <2>2. UNCHANGED <<aliases, mail, condemned>>
    BY <1>6 DEF Download, StartDownloads, DownloadAttachment, GetAttachment, GetAttachmentURL,
                HourPasses
  <2> QED BY <2>1, <2>2 DEF Tables
<1>7. ASSUME NEW r \in Request, Serve(r)
      PROVE  Tables'
  <2>1. UNCHANGED requests
    BY <1>7 DEF Serve, GetByID, Delete, BulkMarkAsRead, BulkDelete, DeleteAlias, Start, Mark,
                MarkBatch, DeleteObjects, DeleteRows, DeleteAliasRow, Fail
  <2>2. condemned' \subseteq EmailID
    <3>1. UNCHANGED condemned \/ \E ids : condemned' = condemned \cup GetStorageKeys(ids)
                                           /\ ids \in SUBSET EmailID
      BY <1>7 DEF Serve, GetByID, Delete, BulkMarkAsRead, BulkDelete, DeleteAlias, Mark,
                  MarkBatch, DeleteObjects, DeleteRows, DeleteAliasRow, Fail,
                  GetEmailIDsOwnedByUser
    <3> QED BY <3>1 DEF GetStorageKeys, Rows, Tables
  <2>3. CASE DeleteAliasRow(r)
    <3> DEFINE A == {call[r].alias}
    <3>1. {e \in EmailID : RcptOf[e] = call[r].alias} = {e \in EmailID : RcptOf[e] \in A}
      OBVIOUS
    <3>2. /\ mail' = DeleteBatch({e \in EmailID : RcptOf[e] \in A})
          /\ aliases' = aliases \ A
      BY <2>3, <3>1 DEF DeleteAliasRow, Becomes
    <3> QED BY <2>1, <2>2, <3>2, CascadeIsComplete DEF Tables
  <2>4. CASE ~DeleteAliasRow(r)
    <3>1. UNCHANGED aliases
      BY <1>7, <2>4 DEF Serve, GetByID, Delete, BulkMarkAsRead, BulkDelete, DeleteAlias, Start,
                        Mark, MarkBatch, DeleteObjects, DeleteRows, Fail
    <3>2. \/ mail' = mail
          \/ \E ids : mail' \in {SetAttached(ids, "deleted"), MarkAsReadBatch(ids),
                                 DeleteBatch(ids)}
      BY <1>7, <2>4 DEF Serve, GetByID, Delete, BulkMarkAsRead, BulkDelete, DeleteAlias, Start,
                        Mark, MarkAsRead, MarkBatch, DeleteObjects, DeleteRows, Fail, Becomes
    <3>3. \A e \in EmailID : mail'[e].state = "here" => mail[e].state = "here"
      BY <1>3, <3>2
    <3> QED BY <1>2, <2>1, <2>2, <3>1, <3>3
  <2> QED BY <2>3, <2>4
<1>8. CASE UNCHANGED vars
  BY <1>8 DEF vars, Tables
<1> QED BY <1>4, <1>5, <1>6, <1>7, <1>8 DEF Next

(* The shapes of the tables and the requests, and that what a request is    *)
(* about to change by ID alone is its user's own mail or alias.             *)
THEOREM InboxTypes == Spec => []TypeOK
<1>1. Init => Tables
  BY InboxAssumption DEF Init, Tables, Coming
<1>2. Inductive /\ Tables /\ [Next]_vars => Tables'
  BY TablesStep
<1>3. Inductive /\ Answering /\ [Next]_vars => Answering'
  BY AnswerStep
<1>4. Inductive /\ Answering /\ Tables /\ OwnMailOnly => TypeOK
  <2> SUFFICES ASSUME Inductive, Answering, Tables, OwnMailOnly PROVE TypeOK
    OBVIOUS
  <2>1. reader.left \in Counter /\ reader.joined \in Counter
    BY CurrentIs DEF Counter
  <2> QED BY <2>1 DEF TypeOK, Inductive, Shape, Row, Activity, Tables, OwnMailOnly, Owns, Answering,
                      ReaderTypes
<1> QED BY <1>1, <1>2, <1>3, <1>4, AnswerInit, InboxInvariant, OwnMailIsChanged, PTL DEF Spec
===============================================================================
