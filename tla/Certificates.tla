------------------------------ MODULE Certificates ------------------------------
(* Certificates of custom domains: internal/ssl (certmagic_service.go,      *)
(* repository.go, encrypted_store.go, scheduler.go, handler.go) and the     *)
(* columns of the domains table they fill.                                  *)
(*                                                                          *)
(* A process is a request of the HTTP API or of a TLS handshake, the        *)
(* scheduler's goroutine for one domain (named by the domain), or the       *)
(* start-up that fills the cache.  A step is one critical section, one SQL  *)
(* statement or one load of files.  Nothing in the program writes the       *)
(* certificate files yet (performProvisioning is a placeholder for the ACME *)
(* client), so that whether EncryptedStore.Load finds a pair is open.       *)
EXTENDS Naturals, FiniteSets

CONSTANTS
  Domain,         \* domains, by ID; each has a name of its own
  Request,        \* requests, each used once
  Loader,         \* the process of LoadAllCertificates
  MaxConcurrent,  \* provisioning semaphore (10)
  MaxRenewals,    \* the scheduler's own semaphore (5)
  Validity,       \* life of a certificate (90 days)
  RenewalDays,    \* how long before expiry it is renewed (30 days)
  RetryInterval,  \* time between two attempts of the scheduler (24 hours)
  MayFail,        \* whether calls of the database and file system may fail
  MaxTime,        \* bound on the clock
  MaxCrashes      \* bound on crashes

ASSUME CertificatesAssumption ==
  /\ IsFiniteSet(Domain) /\ IsFiniteSet(Request)
  /\ Domain \cap Request = {} /\ Loader \notin Domain \cup Request
  /\ MaxConcurrent \in Nat \ {0} /\ MaxRenewals \in Nat \ {0}
  /\ Validity \in Nat /\ RenewalDays \in Nat /\ RetryInterval \in Nat
  /\ MayFail \in BOOLEAN
  /\ MaxTime \in Nat /\ MaxCrashes \in Nat

Process == Request \cup Domain \cup {Loader}

VARIABLES
  domains,     \* rows of the domains table: do they exist, ssl_enabled, ssl_expires_at
  certs,       \* rows of ssl_certificates, one per domain_id at most
  certCache,   \* the domains whose certificate is in memory
  inProgress,  \* domains with a provisioning in progress
  provisionSem,\* slots of the provisioning semaphore in use
  renewalSem,  \* slots of the scheduler's semaphore in use
  check,       \* the scheduler: "idle" or "running", and the domains it has still to look at
  boot,        \* domains LoadAllCertificates has still to load
  call,        \* call[p]: what process p is doing
  now,         \* the clock
  crashes      \* crashes so far

memory == <<inProgress, provisionSem, renewalSem, check, boot>>
vars   == <<domains, certs, certCache, call, memory, now, crashes>>

NoCert  == [id |-> "none", status |-> "none", expires |-> 0, attempt |-> 0]
Idle    == [pc |-> "idle", op |-> "none", domain |-> Loader, expires |-> 0,
            made |-> FALSE]

Init ==
  /\ domains = [d \in Domain |-> [there |-> TRUE, ssl |-> FALSE, expires |-> 0]]
  /\ certs = [d \in Domain |-> NoCert]
  /\ certCache = {}
  /\ inProgress = {} /\ provisionSem = 0 /\ renewalSem = 0
  /\ check = [pc |-> "idle", todo |-> {}]
  /\ boot = {}
  /\ call = [p \in Process |-> Idle]
  /\ now = 1 /\ crashes = 0

(* How a call of the database can end: "lost" is a statement that was       *)
(* executed and whose answer did not arrive.                                *)
Outcome == IF MayFail THEN {"done", "failed", "lost"} ELSE {"done"}

(* A process that is done forgets what it knew.                             *)
At(p, pc) == call[p].pc = pc
End(p)    == [Idle EXCEPT !.pc = IF p = Loader THEN "idle" ELSE "done"]
Goto(p, pc) ==
  call' = [call EXCEPT ![p] = IF pc = "done" THEN End(p) ELSE [@ EXCEPT !.pc = pc]]
Running   == boot = {} /\ At(Loader, "idle")

-------------------------------------------------------------------------------
(* The repository.  UpdateStatus, IncrementFailures and ResetFailures select *)
(* the row by its own id: id is what the caller passes, "domain" for the     *)
(* UUID of the domain, "row" for the id Create has drawn.                    *)
Found(d)     == certs[d] # NoCert
HasId(d, id) == Found(d) /\ certs[d].id = id

Expiring(d) ==
  /\ certs[d].status = "active"
  /\ certs[d].expires <= now + RenewalDays

RecentlyTried(d) == certs[d].attempt # 0 /\ now - certs[d].attempt < RetryInterval

(* INSERT INTO ssl_certificates: the foreign key wants the domain, the      *)
(* unique index at most one row for it.                                     *)
CanCreate(d) == domains[d].there /\ ~Found(d)

(* certs after an UPDATE of the whole row.                                  *)
Updated(d, row) == IF Found(d) THEN [certs EXCEPT ![d] = row] ELSE certs

(* certs after UPDATE ... SET status WHERE id = ...; the CHECK constraints  *)
(* of migration 008 refuse a status that contradicts expires_at.            *)
WithStatus(d, id, status) ==
  IF HasId(d, id) /\ certs[d].expires = 0
  THEN [certs EXCEPT ![d].status = status] ELSE certs
-------------------------------------------------------------------------------
(* ProvisionCertificate.  The handler of POST .../ssl/provision starts it   *)
(* in a goroutine with a context of its own, for a verified domain.         *)
ProvisionSSL(r, d) ==
  /\ Running /\ At(r, "idle") /\ domains[d].there
  /\ call' = [call EXCEPT ![r] = [Idle EXCEPT !.pc = "claim", !.op = "provision", !.domain = d]]
  /\ UNCHANGED <<domains, certs, certCache, memory, now, crashes>>

(* Mutation: a refused call gives back the claim of the one in progress.    *)
ClaimAndAlwaysRelease(p) ==
  LET d == call[p].domain
  IN  /\ At(p, "claim")
      /\ Goto(p, IF d \in inProgress THEN "done" ELSE "queue")
      /\ inProgress' = IF d \in inProgress THEN inProgress \ {d} ELSE inProgress \cup {d}
      /\ UNCHANGED <<domains, certs, certCache, provisionSem, renewalSem, check, boot,
                     now, crashes>>

Claim(p) ==
  LET d == call[p].domain
  IN  /\ At(p, "claim")
      /\ Goto(p, IF d \in inProgress THEN "done" ELSE "queue")
      /\ inProgress' = inProgress \cup {d}
      /\ UNCHANGED <<domains, certs, certCache, provisionSem, renewalSem, check, boot,
                     now, crashes>>

AcquireSlot(p) ==
  /\ At(p, "queue") /\ provisionSem < MaxConcurrent
  /\ provisionSem' = provisionSem + 1
  /\ Goto(p, "mark")
  /\ UNCHANGED <<domains, certs, certCache, inProgress, renewalSem, check, boot,
                 now, crashes>>

(* Mutation: the deferred functions run although no slot was taken.         *)
CancelWaitAndFreeSlot(p) ==
  /\ At(p, "queue") /\ call[p].op = "renew" /\ p \in Request
  /\ inProgress' = inProgress \ {call[p].domain}
  /\ provisionSem' = provisionSem - 1
  /\ Goto(p, "done")
  /\ UNCHANGED <<domains, certs, certCache, renewalSem, check, boot, now, crashes>>

(* RenewSSL runs with the request's context: the client may give up.        *)
CancelWait(p) ==
  /\ At(p, "queue") /\ call[p].op = "renew" /\ p \in Request
  /\ inProgress' = inProgress \ {call[p].domain}
  /\ Goto(p, "done")
  /\ UNCHANGED <<domains, certs, certCache, provisionSem, renewalSem, check, boot,
                 now, crashes>>

(* UpdateStatus(domainUUID, provisioning): only a row that is not found is  *)
(* created.                                                                 *)
MarkProvisioning(p) ==
  LET d == call[p].domain
  IN  /\ At(p, "mark")
      /\ \E o \in Outcome :
           /\ certs' = IF o = "failed" THEN certs ELSE WithStatus(d, "domain", "provisioning")
           /\ Goto(p, IF o # "done" THEN "release"
                      ELSE IF ~HasId(d, "domain") THEN "create"
                      ELSE IF certs[d].expires = 0 THEN "issue" ELSE "release")
      /\ UNCHANGED <<domains, certCache, memory, now, crashes>>

(* Mutation: a row that is already there is good enough.                    *)
CreateRowOrReuse(p) ==
  LET d  == call[p].domain
      ok == CanCreate(d)
  IN  /\ At(p, "create")
      /\ certs' = IF ok THEN [certs EXCEPT ![d] = [NoCert EXCEPT !.id = "row", !.status = "provisioning"]]
                  ELSE certs
      /\ call' = [call EXCEPT ![p].pc = IF domains[d].there THEN "issue" ELSE "release",
                              ![p].made = ok]
      /\ UNCHANGED <<domains, certCache, memory, now, crashes>>

(* Create, called with no id: the repository draws a random one.            *)
CreateRow(p) ==
  LET d == call[p].domain
  IN  /\ At(p, "create")
      /\ \E o \in Outcome :
           LET ok == CanCreate(d) /\ o # "failed"
           IN  /\ certs' = IF ok
                           THEN [certs EXCEPT ![d] = [NoCert EXCEPT !.id = "row", !.status = "provisioning"]]
                           ELSE certs
               /\ call' = [call EXCEPT ![p].pc = IF ok /\ o = "done" THEN "issue" ELSE "release",
                                       ![p].made = ok]
      /\ UNCHANGED <<domains, certCache, memory, now, crashes>>

(* performProvisioning: the time-out, and GetByDomainID.                    *)
Issue(p) ==
  LET d == call[p].domain
  IN  /\ At(p, "issue")
      /\ \E o \in Outcome :
           call' = [call EXCEPT
             ![p].pc = IF o # "done" THEN "fail"
                       ELSE IF Found(d) THEN "update" ELSE "insert",
             ![p].expires = now + Validity]
      /\ UNCHANGED <<domains, certs, certCache, memory, now, crashes>>

Active(p, id) ==
  [id |-> id, status |-> "active", expires |-> call[p].expires, attempt |-> 0]

(* The row GetByDomainID returned is written, ...                           *)
UpdateActive(p) ==
  LET d == call[p].domain
  IN  /\ At(p, "update")
      /\ \E o \in Outcome :
           /\ certs' = IF o = "failed" THEN certs ELSE Updated(d, Active(p, certs[d].id))
           /\ Goto(p, IF Found(d) /\ o = "done" THEN "reset" ELSE "fail")
      /\ UNCHANGED <<domains, certCache, memory, now, crashes>>

(* ... or one with the domain's UUID as id; that there is one meanwhile is  *)
(* no failure.                                                              *)
CreateActive(p) ==
  LET d == call[p].domain
  IN  /\ At(p, "insert")
      /\ \E o \in Outcome :
           /\ certs' = IF CanCreate(d) /\ o # "failed"
                       THEN [certs EXCEPT ![d] = Active(p, "domain")] ELSE certs
           /\ Goto(p, IF domains[d].there /\ o = "done" THEN "reset" ELSE "fail")
      /\ UNCHANGED <<domains, certCache, memory, now, crashes>>

(* ResetFailures; an error is only logged.                                  *)
ResetFailures(p) ==
  LET d == call[p].domain
  IN  /\ At(p, "reset")
      /\ \E o \in Outcome :
           certs' = IF o = "failed" \/ ~Found(d) THEN certs
                    ELSE [certs EXCEPT ![d].attempt = now]
      /\ Goto(p, "release")
      /\ UNCHANGED <<domains, certCache, memory, now, crashes>>

(* The error path: UpdateStatus(domainUUID, failed), ...                    *)
ProvisioningFails(p) ==
  /\ At(p, "fail")
  /\ \E o \in Outcome :
       certs' = IF o = "failed" THEN certs ELSE WithStatus(call[p].domain, "domain", "failed")
  /\ Goto(p, "count")
  /\ UNCHANGED <<domains, certCache, memory, now, crashes>>

(* ... then IncrementFailures(domainUUID); errors of both are only logged.  *)
IncrementFailures(p) ==
  LET d == call[p].domain
  IN  /\ At(p, "count")
      /\ \E o \in Outcome :
           certs' = IF o = "failed" \/ ~HasId(d, "domain") THEN certs
                    ELSE [certs EXCEPT ![d].attempt = now]
      /\ call' = [call EXCEPT ![p].pc = "release", ![p].expires = 0]
      /\ UNCHANGED <<domains, certCache, memory, now, crashes>>

(* Mutation: the result of the provisioning is not looked at.               *)
ReleaseAndPublish(p) ==
  /\ At(p, "release")
  /\ provisionSem' = provisionSem - 1
  /\ inProgress' = inProgress \ {call[p].domain}
  /\ Goto(p, IF call[p].op = "provision" THEN "publish" ELSE "done")
  /\ UNCHANGED <<domains, certs, certCache, renewalSem, check, boot, now, crashes>>

(* The two deferred functions: the slot, then the claim.                    *)
Release(p) ==
  /\ At(p, "release")
  /\ provisionSem' = provisionSem - 1
  /\ inProgress' = inProgress \ {call[p].domain}
  /\ Goto(p, IF call[p].op = "provision" /\ call[p].expires # 0 THEN "publish" ELSE "done")
  /\ UNCHANGED <<domains, certs, certCache, renewalSem, check, boot, now, crashes>>

(* The handler's goroutine: UpdateSSLStatus of the domain; an error is only *)
(* logged.                                                                  *)
UpdateSSLStatus(p) ==
  LET d == call[p].domain
  IN  /\ At(p, "publish")
      /\ \E o \in Outcome :
           domains' = IF o = "failed" \/ ~domains[d].there THEN domains
                      ELSE [domains EXCEPT ![d].ssl = TRUE, ![d].expires = call[p].expires]
      /\ Goto(p, "done")
      /\ UNCHANGED <<certs, certCache, memory, now, crashes>>

-------------------------------------------------------------------------------
(* RenewCertificate: a request, or the scheduler's goroutine of a domain.   *)
(* What follows a successful renewal (RotateCertificate) is not modelled:   *)
(* no renewal succeeds, because Create finds the row that UpdateStatus did  *)
(* not find.                                                                *)
RenewSSL(r, d) ==
  /\ Running /\ At(r, "idle") /\ domains[d].there
  /\ call' = [call EXCEPT ![r] = [Idle EXCEPT !.pc = "find", !.op = "renew", !.domain = d]]
  /\ UNCHANGED <<domains, certs, certCache, memory, now, crashes>>

FindCertificate(p) ==
  /\ At(p, "find")
  /\ \E o \in Outcome :
       Goto(p, IF o = "done" /\ Found(call[p].domain) THEN "claim" ELSE "done")
  /\ UNCHANGED <<domains, certs, certCache, memory, now, crashes>>

(* runRenewalCheck: list, then one goroutine per certificate that was not   *)
(* tried recently, then wait for all of them.                               *)
StartCheck ==
  /\ Running /\ check.pc = "idle"
  /\ check' = [pc |-> "running", todo |-> {d \in Domain : Expiring(d)}]
  /\ UNCHANGED <<domains, certs, certCache, call, inProgress, provisionSem, renewalSem,
                 boot, now, crashes>>

StartRenewal(d) ==
  /\ check.pc = "running" /\ d \in check.todo
  /\ check' = [check EXCEPT !.todo = @ \ {d}]
  /\ call' = IF RecentlyTried(d) THEN call
             ELSE [call EXCEPT ![d] = [Idle EXCEPT !.pc = "slot", !.op = "renew", !.domain = d]]
  /\ UNCHANGED <<domains, certs, certCache, inProgress, provisionSem, renewalSem,
                 boot, now, crashes>>

AcquireRenewal(d) ==
  /\ At(d, "slot") /\ renewalSem < MaxRenewals
  /\ renewalSem' = renewalSem + 1
  /\ Goto(d, "find")
  /\ UNCHANGED <<domains, certs, certCache, inProgress, provisionSem, check, boot,
                 now, crashes>>

EndRenewal(d) ==
  /\ At(d, "done")
  /\ renewalSem' = renewalSem - 1
  /\ call' = [call EXCEPT ![d] = Idle]
  /\ UNCHANGED <<domains, certs, certCache, inProgress, provisionSem, check, boot,
                 now, crashes>>

EndCheck ==
  /\ check.pc = "running" /\ check.todo = {}
  /\ \A d \in Domain : At(d, "idle")
  /\ check' = [pc |-> "idle", todo |-> {}]
  /\ UNCHANGED <<domains, certs, certCache, call, inProgress, provisionSem, renewalSem,
                 boot, now, crashes>>

-------------------------------------------------------------------------------
(* GetCertificate, from getCertificateForSNI.  The cache holds the name and *)
(* its mail. subdomain together, and a handshake for the subdomain falls    *)
(* back to the name, so that one entry stands for both.                     *)
Handshake(r, d) ==
  /\ Running /\ At(r, "idle")
  /\ call' = [call EXCEPT ![r] = IF d \in certCache THEN End(r)
                                 ELSE [Idle EXCEPT !.pc = "row", !.op = "get", !.domain = d]]
  /\ UNCHANGED <<domains, certs, certCache, memory, now, crashes>>

(* Mutation: the row's status is not looked at.                             *)
FindAny(p) ==
  /\ At(p, "row")
  /\ Goto(p, IF Found(call[p].domain) THEN "load" ELSE "done")
  /\ UNCHANGED <<domains, certs, certCache, memory, now, crashes>>

FindActive(p) ==
  /\ At(p, "row")
  /\ \E o \in Outcome :
       Goto(p, IF o = "done" /\ certs[call[p].domain].status = "active" THEN "load" ELSE "done")
  /\ UNCHANGED <<domains, certs, certCache, memory, now, crashes>>

(* EncryptedStore.Load, which fails when a file is missing, cannot be       *)
(* decrypted or is not the other one's.                                     *)
LoadFiles(p) ==
  /\ At(p, "load")
  /\ \E next \in {"fill", "done"} : Goto(p, next)
  /\ UNCHANGED <<domains, certs, certCache, memory, now, crashes>>

FillCache(p) ==
  /\ At(p, "fill")
  /\ certCache' = certCache \cup {call[p].domain}
  /\ Goto(p, "done")
  /\ UNCHANGED <<domains, certs, memory, now, crashes>>

(* LoadAllCertificates, before anything else runs.                          *)
LoadNext(d) ==
  /\ d \in boot /\ At(Loader, "idle")
  /\ boot' = boot \ {d}
  /\ call' = [call EXCEPT ![Loader] = [Idle EXCEPT !.pc = "load", !.op = "get", !.domain = d]]
  /\ UNCHANGED <<domains, certs, certCache, inProgress, provisionSem, renewalSem, check,
                 now, crashes>>

-------------------------------------------------------------------------------
(* The domain service deletes the row; its certificate's row goes with it,  *)
(* files and cache stay: its SSL service (domain/ssl_service.go) is another *)
(* one, which does nothing.                                                 *)
DeleteDomain(d) ==
  /\ domains[d].there
  /\ domains' = [domains EXCEPT ![d] = [there |-> FALSE, ssl |-> FALSE, expires |-> 0]]
  /\ certs' = [certs EXCEPT ![d] = NoCert]
  /\ UNCHANGED <<certCache, call, memory, now, crashes>>

Tick ==
  /\ now < MaxTime
  /\ now' = now + 1
  /\ UNCHANGED <<domains, certs, certCache, call, memory, crashes>>

(* The process dies and starts again: LoadAllCertificates lists the active  *)
(* certificates.                                                            *)
Crash ==
  /\ crashes < MaxCrashes
  /\ crashes' = crashes + 1
  /\ certCache' = {}
  /\ inProgress' = {} /\ provisionSem' = 0 /\ renewalSem' = 0
  /\ check' = [pc |-> "idle", todo |-> {}]
  /\ call' = [p \in Process |-> IF p \in Request /\ ~At(p, "idle") THEN End(p) ELSE Idle]
  /\ \E o \in Outcome :
       boot' = IF o = "done" THEN {d \in Domain : certs[d].status = "active"} ELSE {}
  /\ UNCHANGED <<domains, certs, now>>

Provision(p) ==
  \/ Claim(p) \/ AcquireSlot(p) \/ MarkProvisioning(p) \/ CreateRow(p) \/ Issue(p)
  \/ UpdateActive(p) \/ CreateActive(p) \/ ResetFailures(p) \/ ProvisioningFails(p)
  \/ IncrementFailures(p)
  \/ Release(p) \/ UpdateSSLStatus(p)

Get(p) == FindActive(p) \/ LoadFiles(p) \/ FillCache(p)

Step(p) == Provision(p) \/ FindCertificate(p) \/ Get(p)

Scheduler ==
  \/ StartCheck \/ EndCheck
  \/ \E d \in Domain : StartRenewal(d) \/ AcquireRenewal(d) \/ EndRenewal(d)

Next ==
  \/ \E p \in Process : Step(p) \/ CancelWait(p)
  \/ \E r \in Request, d \in Domain : ProvisionSSL(r, d) \/ RenewSSL(r, d) \/ Handshake(r, d)
  \/ Scheduler
  \/ \E d \in Domain : LoadNext(d) \/ DeleteDomain(d)
  \/ Tick
  \/ Crash

Spec == Init /\ [][Next]_vars

(* A goroutine that can go on does, one that waits for a slot gets it in    *)
(* turn (senders on a Go channel queue), the ticker of the scheduler keeps  *)
(* firing, and time passes.                                                 *)
Fairness ==
  /\ \A p \in Process : WF_vars(Step(p)) /\ SF_vars(AcquireSlot(p))
  /\ \A d \in Domain : WF_vars(StartRenewal(d) \/ EndRenewal(d)) /\ SF_vars(AcquireRenewal(d))
                       /\ WF_vars(LoadNext(d))
  /\ WF_vars(StartCheck) /\ WF_vars(EndCheck) /\ WF_vars(Tick)

FairSpec == Spec /\ Fairness

-------------------------------------------------------------------------------
Stage == {"idle", "claim", "queue", "mark", "create", "issue", "update", "insert", "reset",
          "fail", "count", "release", "publish", "find", "slot", "row", "load", "fill",
          "done"}

DomainRow == [there : BOOLEAN, ssl : BOOLEAN, expires : Nat]
Row == [id : {"none", "row", "domain"}, status : {"none", "provisioning", "active", "failed"},
        expires : Nat, attempt : Nat]
Call == [pc : Stage, op : {"none", "provision", "renew", "get"}, domain : Domain \cup {Loader},
         expires : Nat, made : BOOLEAN]

(* Every variable keeps its shape.                                          *)
TypeOK ==
  /\ domains \in [Domain -> DomainRow] /\ certs \in [Domain -> Row]
  /\ certCache \in SUBSET Domain
  /\ inProgress \in SUBSET Domain /\ provisionSem \in Nat /\ renewalSem \in Nat
  /\ check \in [pc : {"idle", "running"}, todo : SUBSET Domain]
  /\ boot \in SUBSET Domain
  /\ call \in [Process -> Call]
  /\ now \in Nat /\ crashes \in Nat

Working == {"mark", "create", "issue", "update", "insert", "reset", "fail", "count", "release"}
Claiming == Working \cup {"queue"}

Holders == {p \in Process : call[p].pc \in Claiming}

(* At most one provisioning or renewal of a domain is in progress and at    *)
(* most MaxConcurrent in all, whoever asked for them; inProgress and the    *)
(* semaphore are those of the calls that hold them, so that none is lost on *)
(* any of the early returns of ProvisionCertificate and of the scheduler.   *)
ClaimsAreExact ==
  /\ inProgress = {call[p].domain : p \in Holders}
  /\ \A p, q \in Holders : call[p].domain = call[q].domain => p = q
  /\ provisionSem = Cardinality({p \in Process : call[p].pc \in Working})
  /\ provisionSem <= MaxConcurrent
  /\ renewalSem = Cardinality({d \in Domain : call[d].pc \notin {"idle", "slot"}})

(* A domain that the API shows as having SSL until some date has an active  *)
(* certificate with that date: the two tables are written by two calls of   *)
(* which each may fail, while the domain may go.                            *)
EnabledDomainIsCovered ==
  \A d \in Domain : domains[d].ssl =>
    certs[d].status = "active" /\ certs[d].expires = domains[d].expires

(* The cache is filled some time after the row was read and is never looked *)
(* through again: still a certificate that is served was issued, and its    *)
(* row says so, as long as the domain is there.                             *)
ServedCertificatesAreActive ==
  \A d \in certCache : domains[d].there => certs[d].status = "active"

(* A row is only changed by the call that created it: neither a second      *)
(* request, nor the scheduler, nor the error path of another call touches   *)
(* it.  This is how UpdateStatus by the domain's UUID behaves, and why a    *)
(* certificate is never renewed.                                            *)
OnlyItsCreatorChangesARow ==
  [][\A d \in Domain :
       certs[d] # NoCert /\ certs'[d] \notin {certs[d], NoCert} =>
         \E p \in Process : call[p].made /\ call[p].domain = d /\ call'[p] # call[p]]_vars

(* scheduler.go:190 "Initiate renewal 30 days before expiration": a         *)
(* certificate that comes up for renewal does not stay so.                  *)
ExpiringIsRenewed == \A d \in Domain : Expiring(d) ~> ~Expiring(d)
=============================================================================
