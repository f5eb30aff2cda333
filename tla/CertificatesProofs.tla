--------------------------- MODULE CertificatesProofs --------------------------
(* Proofs about Certificates, for any number of domains, requests and       *)
(* slots: claims and slots are those of the calls that hold them, a domain  *)
(* that is shown as having SSL and a certificate that is served have an     *)
(* active row, and only the call that created a row changes it.             *)
EXTENDS Certificates, FiniteSetTheorems, TLAPS

(* What is known of a call, k, at each of its stages.  A call that has      *)
(* created a row is the only one for its domain, until it has told the      *)
(* domain: as long as the domain is there the row is too.                   *)
Making == {"issue", "update", "insert", "reset", "fail", "count", "publish"}

Knows(k) ==
  LET d == k.domain
  IN  /\ k.pc \notin {"idle", "done"} => d \in Domain
      /\ k.pc \in Making => k.made
      /\ k.made => /\ d \in Domain /\ k.pc \in Making \cup {"release"}
                   /\ domains[d].there => Found(d)
                   /\ ~domains[d].ssl
      /\ k.pc \in {"find", "slot", "claim", "queue", "mark", "create", "issue"} => k.expires = 0
      /\ k.pc = "release" /\ k.expires # 0 => k.made
      /\ k.pc = "insert" => ~domains[d].there

(* Who is past writing an active row, or has read one, finds it so.         *)
Issued(k) ==
  LET d == k.domain
  IN  /\ k.pc \in {"reset", "publish"} \/ (k.pc = "release" /\ k.expires # 0) =>
           (domains[d].there => certs[d].status = "active" /\ certs[d].expires = k.expires)
      /\ k.pc \in {"load", "fill"} => (domains[d].there => certs[d].status = "active")

OneMaker ==
  \A p, q \in Process :
    call[p].made /\ call[q].made /\ call[p].domain = call[q].domain => p = q

Rows ==
  /\ \A d \in Domain : Found(d) => certs[d].id = "row"
  /\ \A p \in Process : Knows(call[p]) /\ Issued(call[p])
  /\ OneMaker
  /\ EnabledDomainIsCovered
  /\ \A d \in certCache \cup boot : domains[d].there => certs[d].status = "active"

(* The scheduler's goroutine of a domain that is still to be looked at has  *)
(* not started.                                                             *)
Checking ==
  /\ check.pc = "running" => \A d \in check.todo : At(d, "idle")
  /\ check.pc = "idle" => \A d \in Domain : At(d, "idle")

Workers   == {p \in Process : call[p].pc \in Working}
Renewing  == {d \in Domain : call[d].pc \notin {"idle", "slot"}}
Claims    == ClaimsAreExact /\ Checking

Inductive == TypeOK /\ Claims /\ Rows
-------------------------------------------------------------------------------
(* The call of p becomes k and no other one changes.                        *)
LEMMA OneCall ==
  ASSUME TypeOK, NEW p \in Process, NEW k \in Call, call' = [call EXCEPT ![p] = k]
  PROVE  /\ call' \in [Process -> Call] /\ call'[p] = k
         /\ \A q \in Process \ {p} : call'[q] = call[q]
BY DEF TypeOK

LEMMA EndOf ==
  ASSUME NEW p
  PROVE  /\ End(p) \in Call /\ End(p).pc = (IF p = Loader THEN "idle" ELSE "done")
         /\ End(p).made = FALSE /\ End(p).domain = Loader /\ End(p).expires = 0
BY DEF End, Idle, Call, Stage

LEMMA GotoOf ==
  ASSUME TypeOK, NEW p \in Process, NEW pc \in Stage, pc # "done", Goto(p, pc)
  PROVE  /\ call' \in [Process -> Call]
         /\ call'[p].pc = pc /\ call'[p].op = call[p].op /\ call'[p].domain = call[p].domain
         /\ call'[p].expires = call[p].expires /\ call'[p].made = call[p].made
         /\ \A q \in Process \ {p} : call'[q] = call[q]
BY DEF TypeOK, Goto, Call

LEMMA GotoDone ==
  ASSUME TypeOK, NEW p \in Process, Goto(p, "done")
  PROVE  /\ call' \in [Process -> Call] /\ call'[p] = End(p)
         /\ \A q \in Process \ {p} : call'[q] = call[q]
BY EndOf, OneCall DEF Goto
(* A call that is changed in two fields.                                    *)
LEMMA IssueOf ==
  ASSUME TypeOK, NEW p \in Process, NEW pc \in Stage, NEW n \in Nat,
         call' = [call EXCEPT ![p].pc = pc, ![p].expires = n]
  PROVE  /\ call' \in [Process -> Call]
         /\ call'[p].pc = pc /\ call'[p].op = call[p].op /\ call'[p].domain = call[p].domain
         /\ call'[p].expires = n /\ call'[p].made = call[p].made
         /\ \A q \in Process \ {p} : call'[q] = call[q]
<1> DEFINE mid == [call EXCEPT ![p].pc = pc]
           k   == [mid[p] EXCEPT !.expires = n]
<1>1. /\ mid \in [Process -> Call] /\ mid[p].pc = pc /\ mid[p].op = call[p].op
      /\ mid[p].domain = call[p].domain /\ mid[p].made = call[p].made
      /\ \A q \in Process \ {p} : mid[q] = call[q]
  BY DEF TypeOK, Call
<1>2. call' = [mid EXCEPT ![p] = k]
  OBVIOUS
<1> HIDE DEF mid
<1>3. /\ k \in Call /\ k.pc = pc /\ k.op = call[p].op /\ k.domain = call[p].domain
      /\ k.expires = n /\ k.made = call[p].made
  BY <1>1 DEF Call
<1> HIDE DEF k
<1> QED BY <1>1, <1>2, <1>3

LEMMA MadeOf ==
  ASSUME TypeOK, NEW p \in Process, NEW pc \in Stage, NEW ok \in BOOLEAN,
         call' = [call EXCEPT ![p].pc = pc, ![p].made = ok]
  PROVE  /\ call' \in [Process -> Call]
         /\ call'[p].pc = pc /\ call'[p].op = call[p].op /\ call'[p].domain = call[p].domain
         /\ call'[p].expires = call[p].expires /\ call'[p].made = ok
         /\ \A q \in Process \ {p} : call'[q] = call[q]
<1> DEFINE mid == [call EXCEPT ![p].pc = pc]
           k   == [mid[p] EXCEPT !.made = ok]
<1>1. /\ mid \in [Process -> Call] /\ mid[p].pc = pc /\ mid[p].op = call[p].op
      /\ mid[p].domain = call[p].domain /\ mid[p].expires = call[p].expires
      /\ \A q \in Process \ {p} : mid[q] = call[q]
  BY DEF TypeOK, Call
<1>2. call' = [mid EXCEPT ![p] = k]
  OBVIOUS
<1> HIDE DEF mid
<1>3. /\ k \in Call /\ k.pc = pc /\ k.op = call[p].op /\ k.domain = call[p].domain
      /\ k.expires = call[p].expires /\ k.made = ok
  BY <1>1 DEF Call
<1> HIDE DEF k
<1> QED BY <1>1, <1>2, <1>3
-------------------------------------------------------------------------------
(* A step that takes or gives back no claim and no slot.                    *)
LEMMA ClaimsKept ==
  ASSUME TypeOK, Claims, NEW p \in Process, \A q \in Process \ {p} : call'[q] = call[q],
         call'[p].pc \in Working <=> call[p].pc \in Working,
         call'[p].pc \in Claiming <=> call[p].pc \in Claiming,
         call[p].pc \in Claiming => call'[p].domain = call[p].domain,
         p \in Domain => call[p].pc \notin {"idle", "slot"} /\ call'[p].pc \notin {"idle", "slot"},
         UNCHANGED <<inProgress, provisionSem, renewalSem, check>>
  PROVE  Claims'
<1>1. Holders' = Holders /\ Workers' = Workers /\ \A q \in Holders : call'[q].domain = call[q].domain
  BY DEF Holders, Workers
<1>2. Renewing' = Renewing
  BY DEF Renewing, Process
<1>3. ClaimsAreExact'
  <2>1. inProgress' = {call'[q].domain : q \in Holders'}
    BY <1>1 DEF Claims, ClaimsAreExact
  <2>2. \A q, r \in Holders' : call'[q].domain = call'[r].domain => q = r
    BY <1>1 DEF Claims, ClaimsAreExact
  <2>3. provisionSem' = Cardinality(Workers') /\ provisionSem' <= MaxConcurrent
        /\ renewalSem' = Cardinality(Renewing')
    BY <1>1, <1>2 DEF Claims, ClaimsAreExact, Workers, Renewing
  <2> QED BY <2>1, <2>2, <2>3 DEF ClaimsAreExact, Workers, Renewing
<1>4. Checking'
  <2>1. \A d \in Domain : At(d, "idle") => At(d, "idle")'
    BY DEF At, Process
  <2>2. check' = check /\ check.todo \subseteq Domain
    BY DEF TypeOK
  <2> QED BY <2>1, <2>2 DEF Claims, Checking
<1> QED BY <1>3, <1>4 DEF Claims

(* A step that changes no row.                                              *)
LEMMA RowsKept ==
  ASSUME Rows, NEW p \in Process, \A q \in Process \ {p} : call'[q] = call[q],
         UNCHANGED <<domains, certs>>, certCache' \cup boot' \subseteq certCache \cup boot,
         (Knows(call[p]) /\ Issued(call[p]))',
         call'[p].made => call[p].made /\ call'[p].domain = call[p].domain
  PROVE  Rows'
<1>1. \A q \in Process : (Knows(call[q]) /\ Issued(call[q]))'
  <2> SUFFICES ASSUME NEW q \in Process, q # p
               PROVE  (Knows(call[q]) /\ Issued(call[q]))'
    OBVIOUS
  <2>1. Knows(call[q]) /\ Issued(call[q]) /\ call'[q] = call[q]
    BY DEF Rows
  <2> QED BY <2>1 DEF Knows, Issued, Found
<1>2. OneMaker'
  BY DEF Rows, OneMaker
<1>3. EnabledDomainIsCovered'
  BY DEF Rows, EnabledDomainIsCovered
<1>4. \A d \in Domain : Found(d)' => certs'[d].id = "row"
  BY DEF Rows, Found
<1> QED BY <1>1, <1>2, <1>3, <1>4 DEF Rows
-------------------------------------------------------------------------------
(* The steps that move a call and change nothing else.                      *)
Still == UNCHANGED <<domains, certs, certCache, inProgress, provisionSem, renewalSem, check, boot,
                     now, crashes>>

LEMMA CallStep ==
  ASSUME Inductive, NEW p \in Process, call' \in [Process -> Call],
         \A q \in Process \ {p} : call'[q] = call[q], Still,
         call'[p].pc \in Working <=> call[p].pc \in Working,
         call'[p].pc \in Claiming <=> call[p].pc \in Claiming,
         call[p].pc \in Claiming => call'[p].domain = call[p].domain,
         p \in Domain => call[p].pc \notin {"idle", "slot"} /\ call'[p].pc \notin {"idle", "slot"},
         (Knows(call[p]) /\ Issued(call[p]))',
         call'[p].made => call[p].made /\ call'[p].domain = call[p].domain
  PROVE  Inductive'
<1>1. TypeOK'
  BY DEF Inductive, TypeOK, Still
<1>2. Claims'
  BY ClaimsKept DEF Inductive, Still
<1>3. Rows'
  BY RowsKept DEF Inductive, Still
<1> QED BY <1>1, <1>2, <1>3 DEF Inductive

(* A request starts.                                                        *)
LEMMA RequestStep ==
  ASSUME Inductive, NEW r \in Request, NEW d \in Domain,
         ProvisionSSL(r, d) \/ RenewSSL(r, d) \/ Handshake(r, d)
  PROVE  Inductive'
<1>1. /\ Still /\ r \in Process /\ r \notin Domain /\ r # Loader /\ call[r].pc = "idle" /\ TypeOK
  BY CertificatesAssumption
     DEF Still, memory, ProvisionSSL, RenewSSL, Handshake, At, Process, Inductive
<1>2. ASSUME NEW pc \in {"claim", "find", "row"}, NEW op \in {"provision", "renew", "get"},
             call' = [call EXCEPT ![r] = [Idle EXCEPT !.pc = pc, !.op = op, !.domain = d]]
      PROVE  Inductive'
  <2> DEFINE k == [Idle EXCEPT !.pc = pc, !.op = op, !.domain = d]
  <2>1. k \in Call /\ k.pc = pc /\ k.domain = d /\ k.expires = 0 /\ k.made = FALSE
    BY DEF Idle, Call, Stage
  <2>2. call' = [call EXCEPT ![r] = k]
    BY <1>2
  <2> HIDE DEF k
  <2>3. /\ call' \in [Process -> Call]
        /\ call'[r].pc = pc /\ call'[r].domain = d /\ call'[r].expires = 0
        /\ call'[r].made = FALSE
        /\ \A q \in Process \ {r} : call'[q] = call[q]
    BY <1>1, <2>1, <2>2, OneCall
  <2>4. (Knows(call[r]) /\ Issued(call[r]))'
    BY <2>3 DEF Knows, Issued, Making
  <2> QED BY <1>1, <2>3, <2>4, CallStep DEF Working, Claiming
<1>3. CASE call' = [call EXCEPT ![r] = End(r)]
  <2>1. /\ call' \in [Process -> Call] /\ call'[r] = End(r)
        /\ \A q \in Process \ {r} : call'[q] = call[q]
    BY <1>1, <1>3, EndOf, OneCall
  <2>2. (Knows(call[r]) /\ Issued(call[r]))'
    BY <2>1, EndOf DEF Knows, Issued, Making
  <2> QED BY <1>1, <2>1, <2>2, EndOf, CallStep DEF Working, Claiming
<1>4. CASE ProvisionSSL(r, d)
  BY <1>2, <1>4 DEF ProvisionSSL
<1>5. CASE RenewSSL(r, d)
  BY <1>2, <1>5 DEF RenewSSL
<1>6. CASE Handshake(r, d)
  BY <1>2, <1>3, <1>6 DEF Handshake
<1> QED BY <1>4, <1>5, <1>6

(* A call ends that holds nothing.                                          *)
LEMMA DoneStep ==
  ASSUME Inductive, NEW p \in Process, Goto(p, "done"), Still,
         call[p].pc \notin Claiming \cup {"idle", "slot"}
  PROVE  Inductive'
<1>1. /\ call' \in [Process -> Call] /\ call'[p] = End(p)
      /\ \A q \in Process \ {p} : call'[q] = call[q]
  BY GotoDone DEF Inductive
<1>2. (Knows(call[p]) /\ Issued(call[p]))'
  BY <1>1, EndOf DEF Knows, Issued, Making
<1>3. p \in Domain => End(p).pc = "done"
  BY EndOf, CertificatesAssumption
<1> QED BY <1>1, <1>2, <1>3, EndOf, CallStep DEF Working, Claiming

LEMMA FindCertificateStep ==
  ASSUME Inductive, NEW p \in Process, FindCertificate(p)
  PROVE  Inductive'
<1>1. call[p].pc = "find" /\ Still /\ (Goto(p, "claim") \/ Goto(p, "done"))
  BY DEF FindCertificate, At, Still, memory
<1>2. CASE Goto(p, "done")
  BY <1>1, <1>2, DoneStep DEF Claiming, Working
<1>3. CASE Goto(p, "claim")
  <2>1. /\ call' \in [Process -> Call]
        /\ call'[p].pc = "claim" /\ call'[p].domain = call[p].domain
        /\ call'[p].expires = call[p].expires /\ call'[p].made = call[p].made
        /\ \A q \in Process \ {p} : call'[q] = call[q]
    BY <1>3, GotoOf DEF Inductive, Stage
  <2>2. Knows(call[p])
    BY DEF Inductive, Rows
  <2>3. (Knows(call[p]) /\ Issued(call[p]))'
    BY <1>1, <2>1, <2>2 DEF Knows, Issued, Making
  <2> QED BY <1>1, <2>1, <2>3, CallStep DEF Working, Claiming
<1> QED BY <1>1, <1>2, <1>3

(* The certificate of a handshake.                                          *)
LEMMA GetStep ==
  ASSUME Inductive, NEW p \in Process, FindActive(p) \/ LoadFiles(p)
  PROVE  Inductive'
<1>1. /\ call[p].pc \in {"row", "load"} /\ Still
      /\ \/ Goto(p, "done")
         \/ Goto(p, "load") /\ certs[call[p].domain].status = "active"
         \/ Goto(p, "fill") /\ call[p].pc = "load"
  BY DEF FindActive, LoadFiles, At, Still, memory
<1>2. CASE Goto(p, "done")
  BY <1>1, <1>2, DoneStep DEF Claiming, Working
<1>3. ASSUME NEW pc \in {"load", "fill"}, Goto(p, pc),
             call[p].pc = "load" \/ certs[call[p].domain].status = "active"
      PROVE  Inductive'
  <2>1. /\ call' \in [Process -> Call]
        /\ call'[p].pc = pc /\ call'[p].domain = call[p].domain
        /\ call'[p].expires = call[p].expires /\ call'[p].made = call[p].made
        /\ \A q \in Process \ {p} : call'[q] = call[q]
    BY <1>3, GotoOf DEF Inductive, Stage
  <2>2. Knows(call[p]) /\ Issued(call[p])
    BY DEF Inductive, Rows
  <2>3. (Knows(call[p]) /\ Issued(call[p]))'
    BY <1>1, <1>3, <2>1, <2>2 DEF Knows, Issued, Making, Still
  <2> QED BY <1>1, <2>1, <2>3, CallStep DEF Working, Claiming
<1> QED BY <1>1, <1>2, <1>3

(* No row has the domain's UUID: UpdateStatus finds none.                   *)
LEMMA NothingFound ==
  ASSUME Inductive, NEW p \in Process, call[p].pc \in Working,
         NEW status
  PROVE  /\ ~HasId(call[p].domain, "domain")
         /\ WithStatus(call[p].domain, "domain", status) = certs
<1>1. call[p].domain \in Domain /\ \A d \in Domain : certs[d].id # "domain"
  BY DEF Inductive, Rows, Knows, Working, Found, NoCert
<1> QED BY <1>1 DEF HasId, WithStatus

LEMMA MarkProvisioningStep ==
  ASSUME Inductive, NEW p \in Process, MarkProvisioning(p)
  PROVE  Inductive'
<1>1. call[p].pc = "mark"
  BY DEF MarkProvisioning, At
<1>2. Still /\ (Goto(p, "create") \/ Goto(p, "release"))
  BY <1>1, NothingFound DEF MarkProvisioning, Working, Still, memory
<1>3. ASSUME NEW pc \in {"create", "release"}, Goto(p, pc)
      PROVE  Inductive'
  <2>1. /\ call' \in [Process -> Call]
        /\ call'[p].pc = pc /\ call'[p].domain = call[p].domain
        /\ call'[p].expires = call[p].expires /\ call'[p].made = call[p].made
        /\ \A q \in Process \ {p} : call'[q] = call[q]
    BY <1>3, GotoOf DEF Inductive, Stage
  <2>2. Knows(call[p])
    BY DEF Inductive, Rows
  <2>3. (Knows(call[p]) /\ Issued(call[p]))'
    BY <1>1, <2>1, <2>2 DEF Knows, Issued, Making
  <2> QED BY <1>1, <1>2, <2>1, <2>3, CallStep DEF Working, Claiming
<1> QED BY <1>2, <1>3

LEMMA IssueStep ==
  ASSUME Inductive, NEW p \in Process, Issue(p)
  PROVE  Inductive'
<1> DEFINE d == call[p].domain
<1>1. call[p].pc = "issue" /\ Still
  BY DEF Issue, At, Still, memory
<1>2. PICK pc \in {"fail", "update", "insert"} :
        /\ call' = [call EXCEPT ![p].pc = pc, ![p].expires = now + Validity]
        /\ pc = "insert" => ~Found(d)
  BY DEF Issue
<1>3. now + Validity \in Nat
  BY CertificatesAssumption DEF Inductive, TypeOK
<1>4. /\ call' \in [Process -> Call]
      /\ call'[p].pc = pc /\ call'[p].domain = call[p].domain /\ call'[p].made = call[p].made
      /\ \A q \in Process \ {p} : call'[q] = call[q]
  BY <1>2, <1>3, IssueOf DEF Inductive, Stage
<1>5. Knows(call[p])
  BY DEF Inductive, Rows
<1>6. (Knows(call[p]) /\ Issued(call[p]))'
  BY <1>1, <1>2, <1>4, <1>5 DEF Knows, Issued, Making, Still, Found
<1> QED BY <1>1, <1>4, <1>6, CallStep DEF Working, Claiming

(* The domain has gone, or its row would have been found: nothing is made.  *)
LEMMA CreateActiveStep ==
  ASSUME Inductive, NEW p \in Process, CreateActive(p)
  PROVE  Inductive'
<1>1. call[p].pc = "insert" /\ Knows(call[p])
  BY DEF CreateActive, At, Inductive, Rows
<1>2. Still /\ Goto(p, "fail")
  BY <1>1 DEF CreateActive, CanCreate, Knows, Still, memory
<1>3. /\ call' \in [Process -> Call]
      /\ call'[p].pc = "fail" /\ call'[p].domain = call[p].domain
      /\ call'[p].made = call[p].made
      /\ \A q \in Process \ {p} : call'[q] = call[q]
  BY <1>2, GotoOf DEF Inductive, Stage
<1>4. (Knows(call[p]) /\ Issued(call[p]))'
  BY <1>1, <1>2, <1>3 DEF Knows, Issued, Making, Still, Found
<1> QED BY <1>1, <1>2, <1>3, <1>4, CallStep DEF Working, Claiming

LEMMA ProvisioningFailsStep ==
  ASSUME Inductive, NEW p \in Process, ProvisioningFails(p)
  PROVE  Inductive'
<1>1. call[p].pc = "fail" /\ Knows(call[p])
  BY DEF ProvisioningFails, At, Inductive, Rows
<1>2. Still /\ Goto(p, "count")
  BY <1>1, NothingFound DEF ProvisioningFails, Working, Still, memory
<1>3. /\ call' \in [Process -> Call]
      /\ call'[p].pc = "count" /\ call'[p].domain = call[p].domain
      /\ call'[p].made = call[p].made
      /\ \A q \in Process \ {p} : call'[q] = call[q]
  BY <1>2, GotoOf DEF Inductive, Stage
<1>4. (Knows(call[p]) /\ Issued(call[p]))'
  BY <1>1, <1>2, <1>3 DEF Knows, Issued, Making, Still, Found
<1> QED BY <1>1, <1>2, <1>3, <1>4, CallStep DEF Working, Claiming

LEMMA IncrementFailuresStep ==
  ASSUME Inductive, NEW p \in Process, IncrementFailures(p)
  PROVE  Inductive'
<1>1. call[p].pc = "count" /\ Knows(call[p])
  BY DEF IncrementFailures, At, Inductive, Rows
<1>2. Still
  BY <1>1, NothingFound DEF IncrementFailures, Working, Still, memory
<1>3. call' = [call EXCEPT ![p].pc = "release", ![p].expires = 0]
  BY DEF IncrementFailures
<1>4. /\ call' \in [Process -> Call]
      /\ call'[p].pc = "release" /\ call'[p].domain = call[p].domain /\ call'[p].expires = 0
      /\ call'[p].made = call[p].made
      /\ \A q \in Process \ {p} : call'[q] = call[q]
  BY <1>3, IssueOf DEF Inductive, Stage
<1>5. (Knows(call[p]) /\ Issued(call[p]))'
  BY <1>1, <1>2, <1>4 DEF Knows, Issued, Making, Still, Found
<1> QED BY <1>1, <1>2, <1>4, <1>5, CallStep DEF Working, Claiming
-------------------------------------------------------------------------------
(* A call writes the row it has made: nobody else is about to, and nobody   *)
(* relies on what it was but for being active.                              *)
LEMMA WriteStep ==
  ASSUME Inductive, NEW p \in Process, NEW row \in Row, call[p].made,
         Found(call[p].domain), certs' = [certs EXCEPT ![call[p].domain] = row],
         row.id = certs[call[p].domain].id,
         row.status = "active" \/ row.status = certs[call[p].domain].status,
         call' \in [Process -> Call],
         \A q \in Process \ {p} : call'[q] = call[q],
         UNCHANGED <<domains, certCache, inProgress, provisionSem, renewalSem, check, boot,
                     now, crashes>>,
         call[p].pc \in Working, call'[p].pc \in Working,
         call'[p].domain = call[p].domain,
         (Knows(call[p]) /\ Issued(call[p]))'
  PROVE  Inductive'
<1> DEFINE d == call[p].domain
<1>1. d \in Domain /\ ~domains[d].ssl /\ TypeOK /\ call[p].pc \notin {"idle", "slot"}
  BY DEF Inductive, Rows, Knows, Working
<1>2. /\ certs' \in [Domain -> Row] /\ certs'[d] = row
      /\ \A e \in Domain \ {d} : certs'[e] = certs[e]
  BY <1>1 DEF TypeOK
<1>3. \A q \in Process \ {p} : call[q].domain = d => ~call[q].made
  BY DEF Inductive, Rows, OneMaker
<1>4. TypeOK'
  BY <1>1, <1>2 DEF TypeOK
<1>5. Claims'
  BY <1>1, ClaimsKept DEF Inductive, Working, Claiming
<1>6. certs[d].id = "row"
  BY <1>1 DEF Inductive, Rows
<1> HIDE DEF d
<1>7. \A q \in Process : (Knows(call[q]) /\ Issued(call[q]))'
  <2> SUFFICES ASSUME NEW q \in Process, q # p
               PROVE  (Knows(call[q]) /\ Issued(call[q]))'
    OBVIOUS
  <2>1. Knows(call[q]) /\ Issued(call[q]) /\ call'[q] = call[q]
    BY DEF Inductive, Rows
  <2>2. CASE call[q].domain # d
    <3>1. call[q].domain \in Domain => certs'[call[q].domain] = certs[call[q].domain]
      BY <1>2, <2>2
    <3>2. Knows(call[q])'
      BY <2>1, <3>1 DEF Knows, Found
    <3>3. Issued(call[q])'
      BY <2>1, <3>1 DEF Knows, Issued
    <3> QED BY <3>2, <3>3
  <2>3. CASE call[q].domain = d
    <3>1. ~call[q].made
      BY <1>3, <2>3
    <3>2. Knows(call[q])'
      BY <2>1, <3>1 DEF Knows
    <3>3. Issued(call[q])'
      BY <1>1, <1>2, <2>1, <2>3, <3>1 DEF Knows, Issued, Making, d
    <3> QED BY <3>2, <3>3
  <2> QED BY <2>2, <2>3
<1>8. OneMaker'
  <2>1. \A q \in Process : call'[q].made => call[q].made /\ call'[q].domain = call[q].domain
    OBVIOUS
  <2> QED BY <2>1 DEF Inductive, Rows, OneMaker
<1>9. EnabledDomainIsCovered'
  BY <1>1, <1>2 DEF Inductive, Rows, EnabledDomainIsCovered
<1>10. /\ \A e \in Domain : Found(e)' => certs'[e].id = "row"
       /\ \A e \in certCache' \cup boot' : domains'[e].there => certs'[e].status = "active"
  BY <1>1, <1>2, <1>6 DEF Inductive, Rows, TypeOK, Found, d
<1> QED BY <1>4, <1>5, <1>7, <1>8, <1>9, <1>10 DEF Inductive, Rows

LEMMA UpdateActiveStep ==
  ASSUME Inductive, NEW p \in Process, UpdateActive(p)
  PROVE  Inductive'
<1>0. PICK d \in Domain : d = call[p].domain
  BY DEF UpdateActive, At, Inductive, Rows, Knows
<1> DEFINE row == Active(p, certs[d].id)
<1>1. /\ call[p].pc = "update" /\ Knows(call[p]) /\ call[p].made /\ TypeOK
      /\ UNCHANGED <<domains, certCache, inProgress, provisionSem, renewalSem, check, boot,
                     now, crashes>>
  BY DEF UpdateActive, At, memory, Inductive, Rows, Knows, Making
<1>2. /\ certs' = certs \/ (Found(d) /\ certs' = [certs EXCEPT ![d] = row])
      /\ \/ Goto(p, "fail")
         \/ Goto(p, "reset") /\ Found(d) /\ certs' = [certs EXCEPT ![d] = row]
  BY <1>0 DEF UpdateActive, Updated
<1>3. /\ row \in Row /\ row.id = certs[d].id /\ row.status = "active"
      /\ row.expires = call[p].expires
  BY <1>0, <1>1 DEF Active, Row, TypeOK, Call
<1>4. PICK pc \in {"fail", "reset"} :
        /\ Goto(p, pc)
        /\ pc = "reset" => Found(d) /\ certs' = [certs EXCEPT ![d] = row]
  BY <1>2
<1>5. /\ call' \in [Process -> Call]
      /\ call'[p].pc = pc /\ call'[p].domain = d /\ call'[p].expires = call[p].expires
      /\ call'[p].made = call[p].made
      /\ \A q \in Process \ {p} : call'[q] = call[q]
  BY <1>0, <1>1, <1>4, GotoOf DEF Stage
<1>6. certs' \in [Domain -> Row] /\ (Found(d) => Found(d)')
  <2>1. row # NoCert
    BY <1>3 DEF NoCert
  <2> HIDE DEF row
  <2> QED BY <1>0, <1>1, <1>2, <1>3, <2>1 DEF TypeOK, Found
<1>7. pc = "reset" => certs'[d] = row
  BY <1>0, <1>1, <1>4 DEF TypeOK
<1> HIDE DEF row
<1>8. (Knows(call[p]) /\ Issued(call[p]))'
  <2>1. /\ call'[p].made /\ d \in Domain /\ (domains[d].there => Found(d)) /\ ~domains[d].ssl
    BY <1>0, <1>1, <1>5 DEF Knows
  <2>2. Knows(call[p])'
    BY <1>0, <1>1, <1>5, <1>6, <2>1 DEF Knows, Making
  <2>3. Issued(call[p])'
    BY <1>0, <1>1, <1>3, <1>5, <1>7 DEF Issued
  <2> QED BY <2>2, <2>3
<1>9. CASE certs' = certs
  BY <1>0, <1>1, <1>5, <1>8, <1>9, CallStep DEF Still, Working, Claiming
<1>10. CASE Found(d) /\ certs' = [certs EXCEPT ![d] = row]
  BY <1>0, <1>1, <1>3, <1>5, <1>8, <1>10, WriteStep DEF Working
<1> QED BY <1>2, <1>9, <1>10

LEMMA ResetFailuresStep ==
  ASSUME Inductive, NEW p \in Process, ResetFailures(p)
  PROVE  Inductive'
<1>0. PICK d \in Domain : d = call[p].domain
  BY DEF ResetFailures, At, Inductive, Rows, Knows
<1> DEFINE row == [certs[d] EXCEPT !.attempt = now]
<1>1. /\ call[p].pc = "reset" /\ Knows(call[p]) /\ Issued(call[p]) /\ call[p].made /\ TypeOK
      /\ Goto(p, "release")
      /\ UNCHANGED <<domains, certCache, inProgress, provisionSem, renewalSem, check, boot,
                     now, crashes>>
  BY DEF ResetFailures, At, memory, Inductive, Rows, Knows, Making
<1>2. certs' = certs \/ (Found(d) /\ certs' = [certs EXCEPT ![d] = row])
  BY <1>0 DEF ResetFailures
<1>3. /\ row \in Row /\ row.id = certs[d].id /\ row.status = certs[d].status
      /\ row.expires = certs[d].expires
  BY <1>0, <1>1 DEF Row, TypeOK
<1>4. /\ call' \in [Process -> Call]
      /\ call'[p].pc = "release" /\ call'[p].domain = d /\ call'[p].expires = call[p].expires
      /\ call'[p].made = call[p].made
      /\ \A q \in Process \ {p} : call'[q] = call[q]
  BY <1>0, <1>1, GotoOf DEF Stage
<1>5. Found(d) => certs[d].id = "row"
  BY <1>0, <1>1 DEF Inductive, Rows
<1> HIDE DEF row
<1>6. /\ Found(d) => Found(d)'
      /\ certs'[d].status = certs[d].status /\ certs'[d].expires = certs[d].expires
  BY <1>0, <1>1, <1>2, <1>3, <1>5 DEF TypeOK, Found, NoCert
<1>7. (Knows(call[p]) /\ Issued(call[p]))'
  <2>1. /\ call'[p].made /\ d \in Domain /\ (domains[d].there => Found(d)) /\ ~domains[d].ssl
    BY <1>0, <1>1, <1>4 DEF Knows
  <2>2. Knows(call[p])'
    BY <1>0, <1>1, <1>4, <1>6, <2>1 DEF Knows, Making
  <2>3. Issued(call[p])'
    BY <1>0, <1>1, <1>4, <1>6 DEF Issued
  <2> QED BY <2>2, <2>3
<1>8. CASE certs' = certs
  BY <1>0, <1>1, <1>4, <1>7, <1>8, CallStep DEF Still, Working, Claiming
<1>9. CASE Found(d) /\ certs' = [certs EXCEPT ![d] = row]
  BY <1>0, <1>1, <1>3, <1>4, <1>7, <1>9, WriteStep DEF Working
<1> QED BY <1>2, <1>8, <1>9

(* The row of a domain that has none: nobody has made one.                  *)
LEMMA CreateRowStep ==
  ASSUME Inductive, NEW p \in Process, CreateRow(p)
  PROVE  Inductive'
<1>0. PICK d \in Domain : d = call[p].domain
  BY DEF CreateRow, At, Inductive, Rows, Knows
<1>1. /\ call[p].pc = "create" /\ Knows(call[p]) /\ ~call[p].made /\ TypeOK
      /\ UNCHANGED <<domains, certCache, inProgress, provisionSem, renewalSem, check, boot,
                     now, crashes>>
  BY DEF CreateRow, At, memory, Inductive, Rows, Knows, Making, TypeOK, Call
<1> DEFINE row == [NoCert EXCEPT !.id = "row", !.status = "provisioning"]
<1>2. PICK ok \in BOOLEAN, pc \in {"issue", "release"} :
        /\ ok => CanCreate(d)
        /\ certs' = IF ok THEN [certs EXCEPT ![d] = row] ELSE certs
        /\ pc = "issue" => ok
        /\ call' = [call EXCEPT ![p].pc = pc, ![p].made = ok]
  <2>1. PICK o \in Outcome :
          LET ok == CanCreate(d) /\ o # "failed"
          IN  /\ certs' = IF ok THEN [certs EXCEPT ![d] = row] ELSE certs
              /\ call' = [call EXCEPT ![p].pc = IF ok /\ o = "done" THEN "issue" ELSE "release",
                                      ![p].made = ok]
    BY <1>0 DEF CreateRow
  <2> DEFINE ok == CanCreate(d) /\ o # "failed"
             pc == IF ok /\ o = "done" THEN "issue" ELSE "release"
  <2>2. /\ certs' = IF ok THEN [certs EXCEPT ![d] = row] ELSE certs
        /\ call' = [call EXCEPT ![p].pc = pc, ![p].made = ok]
    BY <2>1
  <2>3. ok \in BOOLEAN /\ pc \in {"issue", "release"} /\ (ok => CanCreate(d))
        /\ (pc = "issue" => ok)
    BY DEF CanCreate
  <2> HIDE DEF ok, pc, row
  <2> QED BY <2>2, <2>3
<1>3. row \in Row /\ row.id = "row" /\ row # NoCert
  BY DEF NoCert, Row
<1> HIDE DEF row
<1>4. /\ call' \in [Process -> Call]
      /\ call'[p].pc = pc /\ call'[p].domain = d /\ call'[p].expires = 0
      /\ call'[p].made = ok
      /\ \A q \in Process \ {p} : call'[q] = call[q]
  BY <1>0, <1>1, <1>2, MadeOf DEF Stage, Knows
<1>5. CASE ~ok
  <2>1. (Knows(call[p]) /\ Issued(call[p]))'
    BY <1>2, <1>4, <1>5 DEF Knows, Issued, Making
  <2> QED BY <1>0, <1>1, <1>2, <1>4, <1>5, <2>1, CallStep DEF Still, Working, Claiming
<1>6. CASE ok
  <2>1. /\ domains[d].there /\ certs[d] = NoCert
        /\ certs' \in [Domain -> Row] /\ certs'[d] = row
        /\ \A e \in Domain \ {d} : certs'[e] = certs[e]
    BY <1>1, <1>2, <1>3, <1>6 DEF CanCreate, Found, TypeOK
  <2>2. ~domains[d].ssl /\ certs[d].status # "active"
    BY <2>1 DEF Inductive, Rows, EnabledDomainIsCovered, NoCert
  <2>3. \A q \in Process : call[q].domain = d => ~call[q].made
    BY <2>1 DEF Inductive, Rows, Knows, Found
  <2>4. \A q \in Process : (Knows(call[q]) /\ Issued(call[q]))'
    <3>1. (Knows(call[p]) /\ Issued(call[p]))'
      BY <1>1, <1>3, <1>4, <1>6, <2>1, <2>2 DEF Knows, Issued, Making, Found
    <3> SUFFICES ASSUME NEW q \in Process, q # p
                 PROVE  (Knows(call[q]) /\ Issued(call[q]))'
      BY <3>1
    <3>2. Knows(call[q]) /\ Issued(call[q]) /\ call'[q] = call[q]
      BY <1>4 DEF Inductive, Rows
    <3>3. CASE call[q].domain # d
      <4>1. call[q].domain \in Domain => certs'[call[q].domain] = certs[call[q].domain]
        BY <2>1, <3>3
      <4>2. Knows(call[q])'
        BY <1>1, <3>2, <4>1 DEF Knows, Found
      <4>3. Issued(call[q])'
        BY <1>1, <3>2, <4>1 DEF Knows, Issued
      <4> QED BY <4>2, <4>3
    <3>4. CASE call[q].domain = d
      <4>1. ~call[q].made
        BY <2>3, <3>4
      <4>2. Knows(call[q])'
        BY <1>1, <3>2, <4>1 DEF Knows
      <4>3. Issued(call[q])'
        BY <1>1, <2>1, <2>2, <3>2, <3>4, <4>1 DEF Knows, Issued, Making
      <4> QED BY <4>2, <4>3
    <3> QED BY <3>3, <3>4
  <2>5. OneMaker'
    <3>1. \A q \in Process \ {p} : call'[q].made => call'[q].domain # d
      BY <1>4, <2>3
    <3>2. OneMaker
      BY DEF Inductive, Rows
    <3> QED BY <1>4, <3>1, <3>2 DEF OneMaker
  <2>6. EnabledDomainIsCovered'
    BY <1>1, <2>1, <2>2 DEF Inductive, Rows, EnabledDomainIsCovered
  <2>7. /\ \A e \in Domain : Found(e)' => certs'[e].id = "row"
        /\ \A e \in certCache' \cup boot' : domains'[e].there => certs'[e].status = "active"
    BY <1>1, <1>3, <2>1, <2>2 DEF Inductive, Rows, TypeOK, Found
  <2>8. TypeOK'
    BY <1>1, <1>4, <2>1 DEF TypeOK
  <2>9. Claims'
    BY <1>0, <1>1, <1>4, ClaimsKept DEF Inductive, Working, Claiming
  <2> QED BY <2>4, <2>5, <2>6, <2>7, <2>8, <2>9 DEF Inductive, Rows
<1> QED BY <1>5, <1>6

(* The domain is told of a certificate that is still the one of its row:    *)
(* the call that made the row is the only one that could have replaced it.  *)
LEMMA UpdateSSLStatusStep ==
  ASSUME Inductive, NEW p \in Process, UpdateSSLStatus(p)
  PROVE  Inductive'
<1>0. PICK d \in Domain : d = call[p].domain
  BY DEF UpdateSSLStatus, At, Inductive, Rows, Knows
<1>1. /\ call[p].pc = "publish" /\ Knows(call[p]) /\ Issued(call[p]) /\ call[p].made /\ TypeOK
      /\ Goto(p, "done")
      /\ UNCHANGED <<certs, certCache, inProgress, provisionSem, renewalSem, check, boot,
                     now, crashes>>
  BY DEF UpdateSSLStatus, At, memory, Inductive, Rows, Knows, Making
<1>2. \/ domains' = domains
      \/ /\ domains[d].there
         /\ domains' = [domains EXCEPT ![d].ssl = TRUE, ![d].expires = call[p].expires]
  BY <1>0 DEF UpdateSSLStatus
<1>3. CASE domains' = domains
  BY <1>1, <1>3, DoneStep DEF Still, Claiming, Working
<1>4. CASE /\ domains[d].there
           /\ domains' = [domains EXCEPT ![d].ssl = TRUE, ![d].expires = call[p].expires]
  <2>1. /\ domains' \in [Domain -> DomainRow] /\ domains'[d].ssl
        /\ domains'[d].expires = call[p].expires /\ domains'[d].there = domains[d].there
        /\ \A e \in Domain \ {d} : domains'[e] = domains[e]
    <3> DEFINE mid == [domains EXCEPT ![d].ssl = TRUE]
               k   == [mid[d] EXCEPT !.expires = call[p].expires]
    <3>1. /\ mid \in [Domain -> DomainRow] /\ mid[d].ssl /\ mid[d].there = domains[d].there
          /\ \A e \in Domain \ {d} : mid[e] = domains[e]
      BY <1>1 DEF TypeOK, DomainRow
    <3>2. domains' = [mid EXCEPT ![d] = k]
      BY <1>4
    <3> HIDE DEF mid
    <3>3. k \in DomainRow /\ k.ssl /\ k.there = domains[d].there /\ k.expires = call[p].expires
      BY <1>1, <3>1 DEF TypeOK, DomainRow, Call
    <3> HIDE DEF k
    <3> QED BY <3>1, <3>2, <3>3
  <2>2. /\ call' \in [Process -> Call] /\ call'[p] = End(p)
        /\ \A q \in Process \ {p} : call'[q] = call[q]
    BY <1>1, GotoDone
  <2>3. \A q \in Process : (Knows(call[q]) /\ Issued(call[q]))'
    <3>1. (Knows(call[p]) /\ Issued(call[p]))'
      BY <2>2, EndOf DEF Knows, Issued, Making
    <3> SUFFICES ASSUME NEW q \in Process, q # p
                 PROVE  (Knows(call[q]) /\ Issued(call[q]))'
      BY <3>1
    <3>2. Knows(call[q]) /\ Issued(call[q]) /\ call'[q] = call[q]
      BY <2>2 DEF Inductive, Rows
    <3>3. call[q].made => call[q].domain # d
      BY <1>0, <1>1 DEF Inductive, Rows, OneMaker
    <3>4. \A e \in Domain : domains'[e].there = domains[e].there
      BY <2>1
    <3>5. Knows(call[q])'
      BY <1>1, <2>1, <3>2, <3>3, <3>4 DEF Knows, Found, Making
    <3>6. Issued(call[q])'
      BY <1>1, <3>2, <3>4 DEF Issued, Knows
    <3> QED BY <3>5, <3>6
  <2>4. OneMaker'
    <3>1. ~call'[p].made
      BY <2>2, EndOf
    <3> QED BY <2>2, <3>1 DEF Inductive, Rows, OneMaker
  <2>5. EnabledDomainIsCovered'
    BY <1>0, <1>1, <1>4, <2>1 DEF Inductive, Rows, EnabledDomainIsCovered, Issued
  <2>6. /\ \A e \in Domain : Found(e)' => certs'[e].id = "row"
        /\ \A e \in certCache' \cup boot' : domains'[e].there => certs'[e].status = "active"
    BY <1>1, <2>1 DEF Inductive, Rows, TypeOK, Found
  <2>7. TypeOK'
    BY <1>1, <2>1, <2>2 DEF TypeOK
  <2>8. Claims'
    <3>1. End(p).pc \notin Claiming \cup Working /\ (p \in Domain => End(p).pc = "done")
      BY EndOf, CertificatesAssumption DEF Working, Claiming
    <3> QED BY <1>1, <2>2, <3>1, ClaimsKept DEF Inductive, Working, Claiming
  <2> QED BY <2>3, <2>4, <2>5, <2>6, <2>7, <2>8 DEF Inductive, Rows
<1> QED BY <1>2, <1>3, <1>4

LEMMA FillCacheStep ==
  ASSUME Inductive, NEW p \in Process, FillCache(p)
  PROVE  Inductive'
<1>1. /\ call[p].pc = "fill" /\ Knows(call[p]) /\ Issued(call[p]) /\ TypeOK /\ Goto(p, "done")
      /\ certCache' = certCache \cup {call[p].domain}
      /\ UNCHANGED <<domains, certs, inProgress, provisionSem, renewalSem, check, boot,
                     now, crashes>>
  BY DEF FillCache, At, memory, Inductive, Rows
<1>2. /\ call' \in [Process -> Call] /\ call'[p] = End(p)
      /\ \A q \in Process \ {p} : call'[q] = call[q]
  BY <1>1, GotoDone
<1>3. TypeOK'
  BY <1>1, <1>2 DEF TypeOK, Knows
<1>4. Claims'
  <2>1. End(p).pc \notin Claiming \cup Working /\ (p \in Domain => End(p).pc = "done")
    BY EndOf, CertificatesAssumption DEF Working, Claiming
  <2> QED BY <1>1, <1>2, <2>1, ClaimsKept DEF Inductive, Working, Claiming
<1>5. \A q \in Process : (Knows(call[q]) /\ Issued(call[q]))'
  <2>1. (Knows(call[p]) /\ Issued(call[p]))'
    BY <1>2, EndOf DEF Knows, Issued, Making
  <2> SUFFICES ASSUME NEW q \in Process, q # p
               PROVE  (Knows(call[q]) /\ Issued(call[q]))'
    BY <2>1
  <2>2. Knows(call[q]) /\ Issued(call[q]) /\ call'[q] = call[q]
    BY <1>2 DEF Inductive, Rows
  <2> QED BY <1>1, <2>2 DEF Knows, Issued, Found
<1>6. OneMaker'
  <2>1. ~call'[p].made
    BY <1>2, EndOf
  <2> QED BY <1>2, <2>1 DEF Inductive, Rows, OneMaker
<1>7. EnabledDomainIsCovered' /\ \A e \in Domain : Found(e)' => certs'[e].id = "row"
  BY <1>1 DEF Inductive, Rows, EnabledDomainIsCovered, Found
<1>8. \A e \in certCache' \cup boot' : domains'[e].there => certs'[e].status = "active"
  BY <1>1 DEF Inductive, Rows, Issued
<1> QED BY <1>3, <1>4, <1>5, <1>6, <1>7, <1>8 DEF Inductive, Rows

LEMMA LoadNextStep ==
  ASSUME Inductive, NEW d \in Domain, LoadNext(d)
  PROVE  Inductive'
<1> DEFINE k == [Idle EXCEPT !.pc = "load", !.op = "get", !.domain = d]
<1>1. /\ d \in boot /\ boot' = boot \ {d} /\ call[Loader].pc = "idle" /\ TypeOK
      /\ call' = [call EXCEPT ![Loader] = k]
      /\ Loader \in Process /\ Loader \notin Domain
      /\ UNCHANGED <<domains, certs, certCache, inProgress, provisionSem, renewalSem, check,
                     now, crashes>>
  BY CertificatesAssumption DEF LoadNext, At, Process, Inductive
<1>2. k \in Call /\ k.pc = "load" /\ k.domain = d /\ k.made = FALSE
  BY DEF Idle, Call, Stage
<1> HIDE DEF k
<1>3. /\ call' \in [Process -> Call] /\ call'[Loader] = k
      /\ \A q \in Process \ {Loader} : call'[q] = call[q]
  BY <1>1, <1>2, OneCall
<1>4. TypeOK'
  BY <1>1, <1>3 DEF TypeOK
<1>5. Claims'
  BY <1>1, <1>2, <1>3, ClaimsKept DEF Inductive, Working, Claiming
<1>6. domains[d].there => certs[d].status = "active"
  BY <1>1 DEF Inductive, Rows
<1>7. (Knows(call[Loader]) /\ Issued(call[Loader]))'
  BY <1>1, <1>2, <1>3, <1>6 DEF Knows, Issued, Making
<1>8. Rows'
  BY <1>1, <1>2, <1>3, <1>7, RowsKept DEF Inductive
<1> QED BY <1>4, <1>5, <1>8 DEF Inductive
-------------------------------------------------------------------------------
(* The steps that take or give back a claim or a slot.                      *)
LEMMA SetsAreFinite ==
  IsFiniteSet(Process) /\ IsFiniteSet(Workers) /\ IsFiniteSet(Renewing)
<1>1. IsFiniteSet(Request \cup Domain) /\ IsFiniteSet({Loader})
  BY FS_Union, FS_Singleton, CertificatesAssumption
<1>2. IsFiniteSet(Process)
  BY <1>1, FS_Union DEF Process
<1> QED BY <1>2, FS_Subset, CertificatesAssumption DEF Workers, Renewing

(* A call with a claim moves to a stage without one, and gives it back.     *)
LEMMA ClaimGivenBack ==
  ASSUME ClaimsAreExact, NEW p \in Process, \A q \in Process \ {p} : call'[q] = call[q],
         call[p].pc \in Claiming, call'[p].pc \notin Claiming,
         inProgress' = inProgress \ {call[p].domain}
  PROVE  /\ inProgress' = {call'[q].domain : q \in Holders'}
         /\ \A q, r \in Holders' : call'[q].domain = call'[r].domain => q = r
<1>1. p \in Holders /\ Holders' = Holders \ {p} /\ \A q \in Holders' : call'[q] = call[q]
  BY DEF Holders
<1>2. \A q \in Holders' : call[q].domain # call[p].domain
  BY <1>1 DEF ClaimsAreExact
<1> QED BY <1>1, <1>2 DEF ClaimsAreExact

LEMMA RenewingKept ==
  ASSUME TypeOK, Claims, NEW p \in Process, \A q \in Process \ {p} : call'[q] = call[q],
         p \in Domain => call[p].pc \notin {"idle", "slot"} /\ call'[p].pc \notin {"idle", "slot"},
         UNCHANGED <<renewalSem, check>>
  PROVE  renewalSem' = Cardinality(Renewing') /\ Checking'
<1>1. Renewing' = Renewing
  BY DEF Renewing, Process
<1>2. \A d \in Domain : At(d, "idle") => At(d, "idle")'
  BY DEF At, Process
<1>3. check' = check /\ check.todo \subseteq Domain
  BY DEF TypeOK
<1> QED BY <1>1, <1>2, <1>3 DEF Claims, ClaimsAreExact, Checking, Renewing

LEMMA ClaimStep ==
  ASSUME Inductive, NEW p \in Process, Claim(p)
  PROVE  Inductive'
<1>0. PICK d \in Domain : d = call[p].domain
  BY DEF Claim, At, Inductive, Rows, Knows
<1>1. /\ call[p].pc = "claim" /\ Knows(call[p]) /\ TypeOK
      /\ Goto(p, IF d \in inProgress THEN "done" ELSE "queue") /\ inProgress' = inProgress \cup {d}
      /\ UNCHANGED <<domains, certs, certCache, provisionSem, renewalSem, check, boot,
                     now, crashes>>
  BY <1>0 DEF Claim, At, Inductive, Rows
<1>2. CASE d \in inProgress
  <2>1. inProgress' = inProgress
    BY <1>1, <1>2
  <2> QED BY <1>1, <1>2, <2>1, DoneStep DEF Still, Claiming, Working
<1>3. CASE d \notin inProgress
  <2>1. /\ call' \in [Process -> Call]
        /\ call'[p].pc = "queue" /\ call'[p].domain = d
        /\ call'[p].expires = call[p].expires /\ call'[p].made = call[p].made
        /\ \A q \in Process \ {p} : call'[q] = call[q]
    BY <1>0, <1>1, <1>3, GotoOf DEF Stage
  <2>2. TypeOK'
    BY <1>1, <2>1 DEF TypeOK
  <2>3. p \notin Holders /\ Holders' = Holders \cup {p} /\ Workers' = Workers
    BY <1>1, <2>1 DEF Holders, Workers, Working, Claiming
  <2>4. \A q \in Holders : call'[q] = call[q] /\ call[q].domain # d
    BY <1>3, <2>1, <2>3 DEF Inductive, Claims, ClaimsAreExact, Holders
  <2>5. /\ inProgress' = {call'[q].domain : q \in Holders'}
        /\ \A q, r \in Holders' : call'[q].domain = call'[r].domain => q = r
    BY <1>1, <2>1, <2>3, <2>4 DEF Inductive, Claims, ClaimsAreExact
  <2>6. provisionSem' = Cardinality(Workers') /\ provisionSem' <= MaxConcurrent
    BY <1>1, <2>3 DEF Inductive, Claims, ClaimsAreExact, Workers
  <2>7. renewalSem' = Cardinality(Renewing') /\ Checking'
    BY <1>1, <2>1, RenewingKept DEF Inductive
  <2>8. (Knows(call[p]) /\ Issued(call[p]))'
    BY <1>1, <2>1 DEF Knows, Issued, Making
  <2>9. Rows'
    BY <1>0, <1>1, <2>1, <2>8, RowsKept DEF Inductive
  <2> QED BY <2>2, <2>5, <2>6, <2>7, <2>9 DEF Inductive, Claims, ClaimsAreExact, Workers, Renewing
<1> QED BY <1>2, <1>3

LEMMA AcquireSlotStep ==
  ASSUME Inductive, NEW p \in Process, AcquireSlot(p)
  PROVE  Inductive'
<1>1. /\ call[p].pc = "queue" /\ Knows(call[p]) /\ TypeOK /\ Goto(p, "mark")
      /\ provisionSem < MaxConcurrent /\ provisionSem' = provisionSem + 1
      /\ UNCHANGED <<domains, certs, certCache, inProgress, renewalSem, check, boot,
                     now, crashes>>
  BY DEF AcquireSlot, At, Inductive, Rows
<1>2. /\ call' \in [Process -> Call]
      /\ call'[p].pc = "mark" /\ call'[p].domain = call[p].domain
      /\ call'[p].expires = call[p].expires /\ call'[p].made = call[p].made
      /\ \A q \in Process \ {p} : call'[q] = call[q]
  BY <1>1, GotoOf DEF Stage
<1>3. TypeOK'
  BY <1>1, <1>2 DEF TypeOK
<1>4. Holders' = Holders /\ p \notin Workers /\ Workers' = Workers \cup {p}
      /\ \A q \in Holders : call'[q].domain = call[q].domain
  BY <1>1, <1>2 DEF Holders, Workers, Working, Claiming
<1>5. /\ inProgress' = {call'[q].domain : q \in Holders'}
      /\ \A q, r \in Holders' : call'[q].domain = call'[r].domain => q = r
  BY <1>1, <1>4 DEF Inductive, Claims, ClaimsAreExact
<1>6. provisionSem' = Cardinality(Workers') /\ provisionSem' <= MaxConcurrent
  <2>1. Cardinality(Workers \cup {p}) = Cardinality(Workers) + 1
    BY <1>4, SetsAreFinite, FS_AddElement
  <2>2. provisionSem = Cardinality(Workers) /\ provisionSem \in Nat
    BY <1>1 DEF Inductive, Claims, ClaimsAreExact, Workers, TypeOK
  <2> QED BY <1>1, <1>4, <2>1, <2>2, CertificatesAssumption
<1>7. renewalSem' = Cardinality(Renewing') /\ Checking'
  BY <1>1, <1>2, RenewingKept DEF Inductive
<1>8. (Knows(call[p]) /\ Issued(call[p]))'
  BY <1>1, <1>2 DEF Knows, Issued, Making
<1>9. Rows'
  BY <1>1, <1>2, <1>8, RowsKept DEF Inductive
<1> QED BY <1>3, <1>5, <1>6, <1>7, <1>9 DEF Inductive, Claims, ClaimsAreExact, Workers, Renewing

LEMMA CancelWaitStep ==
  ASSUME Inductive, NEW p \in Process, CancelWait(p)
  PROVE  Inductive'
<1>1. /\ call[p].pc = "queue" /\ TypeOK /\ Goto(p, "done") /\ p \notin Domain
      /\ inProgress' = inProgress \ {call[p].domain}
      /\ UNCHANGED <<domains, certs, certCache, provisionSem, renewalSem, check, boot,
                     now, crashes>>
  BY CertificatesAssumption DEF CancelWait, At, Inductive
<1>2. /\ call' \in [Process -> Call] /\ call'[p] = End(p)
      /\ End(p).pc \notin Claiming /\ End(p).pc \notin Working
      /\ \A q \in Process \ {p} : call'[q] = call[q]
  BY <1>1, GotoDone, EndOf DEF Working, Claiming
<1>3. TypeOK'
  BY <1>1, <1>2 DEF TypeOK
<1>4. Workers' = Workers
  BY <1>1, <1>2 DEF Workers, Working
<1>5. /\ inProgress' = {call'[q].domain : q \in Holders'}
      /\ \A q, r \in Holders' : call'[q].domain = call'[r].domain => q = r
  BY <1>1, <1>2, ClaimGivenBack DEF Inductive, Claims, Claiming
<1>6. provisionSem' = Cardinality(Workers') /\ provisionSem' <= MaxConcurrent
  BY <1>1, <1>4 DEF Inductive, Claims, ClaimsAreExact, Workers
<1>7. renewalSem' = Cardinality(Renewing') /\ Checking'
  BY <1>1, <1>2, RenewingKept DEF Inductive
<1>8. (Knows(call[p]) /\ Issued(call[p]))'
  BY <1>2, EndOf DEF Knows, Issued, Making
<1>9. Rows'
  BY <1>1, <1>2, <1>8, EndOf, RowsKept DEF Inductive
<1> QED BY <1>3, <1>5, <1>6, <1>7, <1>9 DEF Inductive, Claims, ClaimsAreExact, Workers, Renewing

LEMMA ReleaseStep ==
  ASSUME Inductive, NEW p \in Process, Release(p)
  PROVE  Inductive'
<1>1. /\ call[p].pc = "release" /\ Knows(call[p]) /\ Issued(call[p]) /\ TypeOK
      /\ Goto(p, "done") \/ (Goto(p, "publish") /\ call[p].op = "provision" /\ call[p].expires # 0)
      /\ provisionSem' = provisionSem - 1 /\ inProgress' = inProgress \ {call[p].domain}
      /\ UNCHANGED <<domains, certs, certCache, renewalSem, check, boot, now, crashes>>
  BY DEF Release, At, Inductive, Rows
<1>2. /\ call' \in [Process -> Call] /\ \A q \in Process \ {p} : call'[q] = call[q]
      /\ \/ call'[p] = End(p)
         \/ /\ call'[p].pc = "publish" /\ call[p].expires # 0 /\ call'[p].domain = call[p].domain
            /\ call'[p].expires = call[p].expires /\ call'[p].made = call[p].made
  <2>1. CASE Goto(p, "done")
    BY <1>1, <2>1, GotoDone
  <2>2. CASE Goto(p, "publish") /\ call[p].expires # 0
    BY <1>1, <2>2, GotoOf DEF Stage
  <2> QED BY <1>1, <2>1, <2>2
<1>3. /\ call'[p].pc \notin Claiming /\ call'[p].pc \notin Working
      /\ p \in Domain => call'[p].pc \notin {"idle", "slot"}
  BY <1>2, EndOf, CertificatesAssumption DEF Working, Claiming
<1>4. p \in Workers /\ Workers' = Workers \ {p}
  BY <1>1, <1>2, <1>3 DEF Workers, Working
<1>5. /\ inProgress' = {call'[q].domain : q \in Holders'}
      /\ \A q, r \in Holders' : call'[q].domain = call'[r].domain => q = r
  BY <1>1, <1>2, <1>3, ClaimGivenBack DEF Inductive, Claims, Claiming, Working
<1>6. /\ provisionSem' = Cardinality(Workers') /\ provisionSem' <= MaxConcurrent
      /\ provisionSem' \in Nat
  <2>1. Cardinality(Workers \ {p}) = Cardinality(Workers) - 1
        /\ Cardinality(Workers \ {p}) \in Nat
    BY <1>4, SetsAreFinite, FS_RemoveElement, FS_CardinalityType
  <2>2. provisionSem = Cardinality(Workers) /\ provisionSem \in Nat
        /\ provisionSem <= MaxConcurrent
    BY <1>1 DEF Inductive, Claims, ClaimsAreExact, Workers, TypeOK
  <2> QED BY <1>1, <1>4, <2>1, <2>2, CertificatesAssumption
<1>7. renewalSem' = Cardinality(Renewing') /\ Checking'
  BY <1>1, <1>2, <1>3, RenewingKept DEF Inductive
<1>8. TypeOK'
  BY <1>1, <1>2, <1>6 DEF TypeOK
<1>9. (Knows(call[p]) /\ Issued(call[p]))'
  <2>1. CASE call'[p] = End(p)
    BY <2>1, EndOf DEF Knows, Issued, Making
  <2>2. CASE call'[p].pc = "publish"
    BY <1>1, <1>2, <2>2, EndOf DEF Knows, Issued, Making, Found
  <2> QED BY <1>2, <2>1, <2>2
<1>10. Rows'
  BY <1>1, <1>2, <1>9, EndOf, RowsKept, ZenonT(40) DEF Inductive
<1> QED BY <1>5, <1>6, <1>7, <1>8, <1>10 DEF Inductive, Claims, ClaimsAreExact, Workers, Renewing
-------------------------------------------------------------------------------
(* The scheduler.  Its goroutine of a domain starts and ends without a      *)
(* claim.                                                                   *)
LEMMA HoldersKept ==
  ASSUME Claims, NEW p \in Process, \A q \in Process \ {p} : call'[q] = call[q],
         call[p].pc \notin Claiming, call'[p].pc \notin Claiming,
         UNCHANGED <<inProgress, provisionSem>>
  PROVE  /\ inProgress' = {call'[q].domain : q \in Holders'}
         /\ \A q, r \in Holders' : call'[q].domain = call'[r].domain => q = r
         /\ provisionSem' = Cardinality(Workers') /\ provisionSem' <= MaxConcurrent
<1>1. Holders' = Holders /\ \A q \in Holders : call'[q] = call[q]
  BY DEF Holders
<1>2. Workers' = Workers
  BY DEF Workers, Claiming
<1>3. inProgress' = {call'[q].domain : q \in Holders'}
  BY <1>1 DEF Claims, ClaimsAreExact
<1>4. \A q, r \in Holders' : call'[q].domain = call'[r].domain => q = r
  BY <1>1 DEF Claims, ClaimsAreExact
<1>5. provisionSem' = Cardinality(Workers') /\ provisionSem' <= MaxConcurrent
  BY <1>2 DEF Claims, ClaimsAreExact, Workers
<1> QED BY <1>3, <1>4, <1>5

LEMMA StartCheckStep ==
  ASSUME Inductive, StartCheck
  PROVE  Inductive'
<1>1. /\ check.pc = "idle" /\ check' = [pc |-> "running", todo |-> {d \in Domain : Expiring(d)}]
      /\ UNCHANGED <<domains, certs, certCache, call, inProgress, provisionSem, renewalSem,
                     boot, now, crashes>>
  BY DEF StartCheck
<1>2. TypeOK'
  BY <1>1 DEF Inductive, TypeOK
<1>3. Claims'
  BY <1>1 DEF Inductive, Claims, ClaimsAreExact, Checking, Holders, At
<1>4. Rows'
  BY <1>1 DEF Inductive, Rows, Knows, Issued, OneMaker, EnabledDomainIsCovered, Found
<1> QED BY <1>2, <1>3, <1>4 DEF Inductive

LEMMA EndCheckStep ==
  ASSUME Inductive, EndCheck
  PROVE  Inductive'
<1>1. /\ \A d \in Domain : At(d, "idle")
      /\ check' = [pc |-> "idle", todo |-> {}]
      /\ UNCHANGED <<domains, certs, certCache, call, inProgress, provisionSem, renewalSem,
                     boot, now, crashes>>
  BY DEF EndCheck
<1>2. TypeOK'
  BY <1>1 DEF Inductive, TypeOK
<1>3. Claims'
  BY <1>1 DEF Inductive, Claims, ClaimsAreExact, Checking, Holders, At
<1>4. Rows'
  BY <1>1 DEF Inductive, Rows, Knows, Issued, OneMaker, EnabledDomainIsCovered, Found
<1> QED BY <1>2, <1>3, <1>4 DEF Inductive

LEMMA StartRenewalStep ==
  ASSUME Inductive, NEW d \in Domain, StartRenewal(d)
  PROVE  Inductive'
<1> DEFINE k == [Idle EXCEPT !.pc = "slot", !.op = "renew", !.domain = d]
<1>1. /\ check.pc = "running" /\ d \in check.todo /\ TypeOK /\ Claims /\ Rows /\ d \in Process
      /\ check' = [check EXCEPT !.todo = @ \ {d}]
      /\ call' = call \/ call' = [call EXCEPT ![d] = k]
      /\ UNCHANGED <<domains, certs, certCache, inProgress, provisionSem, renewalSem, boot,
                     now, crashes>>
  BY DEF StartRenewal, Inductive, Process
<1>2. /\ k \in Call /\ k.pc = "slot" /\ k.domain = d /\ k.made = FALSE /\ k.expires = 0
  BY DEF Idle, Call, Stage
<1> HIDE DEF k
<1>3. /\ check' \in [pc : {"idle", "running"}, todo : SUBSET Domain]
      /\ check'.pc = "running" /\ check'.todo = check.todo \ {d}
  BY <1>1 DEF TypeOK
<1>4. call[d].pc = "idle"
  BY <1>1 DEF Claims, Checking, At
<1>5. CASE call' = call
  <2>1. TypeOK'
    BY <1>1, <1>3, <1>5 DEF TypeOK
  <2>2. Claims'
    BY <1>1, <1>3, <1>5 DEF Claims, ClaimsAreExact, Checking, Holders, At
  <2>3. Rows'
    BY <1>1, <1>5 DEF Rows, Knows, Issued, OneMaker, EnabledDomainIsCovered, Found
  <2> QED BY <2>1, <2>2, <2>3 DEF Inductive
<1>6. CASE call' = [call EXCEPT ![d] = k]
  <2>1. /\ call' \in [Process -> Call] /\ call'[d] = k
        /\ \A q \in Process \ {d} : call'[q] = call[q]
    BY <1>1, <1>2, <1>6, OneCall
  <2>2. TypeOK'
    BY <1>1, <1>3, <2>1 DEF TypeOK
  <2>3. /\ inProgress' = {call'[q].domain : q \in Holders'}
        /\ \A q, r \in Holders' : call'[q].domain = call'[r].domain => q = r
        /\ provisionSem' = Cardinality(Workers') /\ provisionSem' <= MaxConcurrent
    BY <1>1, <1>2, <1>4, <2>1, HoldersKept DEF Claiming, Working
  <2>4. Renewing' = Renewing
    BY <1>2, <1>4, <2>1 DEF Renewing, Process
  <2>5. Claims'
    <3>1. Checking'
      BY <1>1, <1>3, <2>1 DEF Claims, Checking, At, Process, TypeOK
    <3> QED BY <1>1, <2>3, <2>4, <3>1 DEF Claims, ClaimsAreExact, Workers, Renewing
  <2>6. (Knows(call[d]) /\ Issued(call[d]))'
    BY <1>2, <2>1 DEF Knows, Issued, Making
  <2>7. Rows'
    BY <1>1, <1>2, <2>1, <2>6, RowsKept
  <2> QED BY <2>2, <2>5, <2>7 DEF Inductive
<1> QED BY <1>1, <1>5, <1>6

LEMMA AcquireRenewalStep ==
  ASSUME Inductive, NEW d \in Domain, AcquireRenewal(d)
  PROVE  Inductive'
<1>1. /\ call[d].pc = "slot" /\ TypeOK /\ Claims /\ Rows /\ d \in Process /\ Goto(d, "find")
      /\ Knows(call[d]) /\ renewalSem' = renewalSem + 1
      /\ UNCHANGED <<domains, certs, certCache, inProgress, provisionSem, check, boot,
                     now, crashes>>
  BY DEF AcquireRenewal, At, Inductive, Rows, Process
<1>2. /\ call' \in [Process -> Call]
      /\ call'[d].pc = "find" /\ call'[d].domain = call[d].domain
      /\ call'[d].expires = call[d].expires /\ call'[d].made = call[d].made
      /\ \A q \in Process \ {d} : call'[q] = call[q]
  BY <1>1, GotoOf DEF Stage
<1>3. TypeOK'
  BY <1>1, <1>2 DEF TypeOK
<1>4. /\ inProgress' = {call'[q].domain : q \in Holders'}
      /\ \A q, r \in Holders' : call'[q].domain = call'[r].domain => q = r
      /\ provisionSem' = Cardinality(Workers') /\ provisionSem' <= MaxConcurrent
  BY <1>1, <1>2, HoldersKept DEF Claiming, Working
<1>5. renewalSem' = Cardinality(Renewing')
  <2>1. d \notin Renewing /\ Renewing' = Renewing \cup {d}
    BY <1>1, <1>2 DEF Renewing, Process
  <2>2. renewalSem = Cardinality(Renewing)
    BY <1>1 DEF Claims, ClaimsAreExact, Renewing
  <2> QED BY <1>1, <2>1, <2>2, SetsAreFinite, FS_AddElement
<1>6. Checking'
  <2>1. ~At(d, "idle")
    BY <1>1 DEF At
  <2>2. \A e \in Domain : At(e, "idle") => At(e, "idle")'
    BY <1>2, <2>1 DEF At, Process
  <2> QED BY <1>1, <2>2 DEF Claims, Checking, TypeOK
<1>7. (Knows(call[d]) /\ Issued(call[d]))'
  BY <1>1, <1>2 DEF Knows, Issued, Making
<1>8. Rows'
  BY <1>1, <1>2, <1>7, RowsKept
<1> QED BY <1>3, <1>4, <1>5, <1>6, <1>8 DEF Inductive, Claims, ClaimsAreExact, Workers, Renewing

LEMMA EndRenewalStep ==
  ASSUME Inductive, NEW d \in Domain, EndRenewal(d)
  PROVE  Inductive'
<1>1. /\ call[d].pc = "done" /\ TypeOK /\ Claims /\ Rows /\ d \in Process
      /\ call' = [call EXCEPT ![d] = Idle] /\ renewalSem' = renewalSem - 1
      /\ UNCHANGED <<domains, certs, certCache, inProgress, provisionSem, check, boot,
                     now, crashes>>
  BY DEF EndRenewal, At, Inductive, Process
<1>2. Idle \in Call /\ Idle.pc = "idle" /\ Idle.made = FALSE /\ Idle.expires = 0
  BY DEF Idle, Call, Stage
<1>3. /\ call' \in [Process -> Call] /\ call'[d] = Idle
      /\ \A q \in Process \ {d} : call'[q] = call[q]
  BY <1>1, <1>2, OneCall
<1>4. /\ inProgress' = {call'[q].domain : q \in Holders'}
      /\ \A q, r \in Holders' : call'[q].domain = call'[r].domain => q = r
      /\ provisionSem' = Cardinality(Workers') /\ provisionSem' <= MaxConcurrent
  BY <1>1, <1>2, <1>3, HoldersKept DEF Claiming, Working
<1>5. renewalSem' = Cardinality(Renewing') /\ renewalSem' \in Nat
  <2>1. d \in Renewing /\ Renewing' = Renewing \ {d}
    BY <1>1, <1>2, <1>3 DEF Renewing, Process
  <2>2. renewalSem = Cardinality(Renewing)
    BY <1>1 DEF Claims, ClaimsAreExact, Renewing
  <2>3. Cardinality(Renewing \ {d}) = Cardinality(Renewing) - 1
        /\ Cardinality(Renewing \ {d}) \in Nat
    <3>1. IsFiniteSet(Renewing \ {d})
      BY SetsAreFinite, FS_Subset
    <3> QED BY <2>1, <3>1, SetsAreFinite, FS_RemoveElement, FS_CardinalityType
  <2> QED BY <1>1, <2>1, <2>2, <2>3
<1>6. TypeOK'
  BY <1>1, <1>3, <1>5 DEF TypeOK
<1>7. Checking'
  <2>1. \A e \in Domain : At(e, "idle") => At(e, "idle")'
    BY <1>2, <1>3 DEF At, Process
  <2> QED BY <1>1, <2>1 DEF Claims, Checking, TypeOK
<1>8. (Knows(call[d]) /\ Issued(call[d]))'
  BY <1>2, <1>3 DEF Knows, Issued, Making
<1>9. Rows'
  BY <1>1, <1>2, <1>3, <1>8, RowsKept
<1> QED BY <1>4, <1>5, <1>6, <1>7, <1>9 DEF Inductive, Claims, ClaimsAreExact, Workers, Renewing
-------------------------------------------------------------------------------
(* The rest of the world.                                                   *)
LEMMA DeleteDomainStep ==
  ASSUME Inductive, NEW d \in Domain, DeleteDomain(d)
  PROVE  Inductive'
<1> DEFINE gone == [there |-> FALSE, ssl |-> FALSE, expires |-> 0]
<1>1. /\ TypeOK /\ Claims /\ Rows
      /\ domains' = [domains EXCEPT ![d] = gone] /\ certs' = [certs EXCEPT ![d] = NoCert]
      /\ UNCHANGED <<certCache, call, inProgress, provisionSem, renewalSem, check, boot,
                     now, crashes>>
  BY DEF DeleteDomain, Inductive, memory
<1>2. gone \in DomainRow /\ gone.there = FALSE /\ gone.ssl = FALSE /\ NoCert \in Row
  BY DEF DomainRow, Row, NoCert
<1> HIDE DEF gone
<1>3. /\ domains' \in [Domain -> DomainRow] /\ domains'[d] = gone
      /\ certs' \in [Domain -> Row] /\ certs'[d] = NoCert
      /\ \A e \in Domain \ {d} : domains'[e] = domains[e] /\ certs'[e] = certs[e]
  BY <1>1, <1>2 DEF TypeOK
<1>4. TypeOK'
  BY <1>1, <1>3 DEF TypeOK
<1>5. Claims'
  BY <1>1 DEF Claims, ClaimsAreExact, Checking, Holders, At
<1>6. \A q \in Process : (Knows(call[q]) /\ Issued(call[q]))'
  <2> SUFFICES ASSUME NEW q \in Process
               PROVE  (Knows(call[q]) /\ Issued(call[q]))'
    OBVIOUS
  <2>1. Knows(call[q]) /\ Issued(call[q]) /\ call'[q] = call[q]
    BY <1>1 DEF Rows
  <2>2. CASE call[q].domain = d
    BY <1>2, <1>3, <2>1, <2>2 DEF Knows, Issued
  <2>3. CASE call[q].domain \in Domain \ {d}
    BY <1>3, <2>1, <2>3 DEF Knows, Issued, Found
  <2>4. CASE call[q].domain \notin Domain
    BY <2>1, <2>4 DEF Knows, Issued, Making
  <2> QED BY <2>2, <2>3, <2>4
<1>7. OneMaker'
  BY <1>1 DEF Rows, OneMaker
<1>8. EnabledDomainIsCovered'
  BY <1>1, <1>2, <1>3 DEF Rows, EnabledDomainIsCovered
<1>9. /\ \A e \in Domain : Found(e)' => certs'[e].id = "row"
      /\ \A e \in certCache' \cup boot' : domains'[e].there => certs'[e].status = "active"
  BY <1>1, <1>2, <1>3 DEF Rows, Found, TypeOK
<1> QED BY <1>4, <1>5, <1>6, <1>7, <1>8, <1>9 DEF Inductive, Rows

LEMMA TickStep ==
  ASSUME Inductive, Tick
  PROVE  Inductive'
<1>1. /\ TypeOK /\ Claims /\ Rows /\ now' = now + 1
      /\ UNCHANGED <<domains, certs, certCache, call, inProgress, provisionSem, renewalSem,
                     check, boot, crashes>>
  BY DEF Tick, Inductive, memory
<1>2. TypeOK'
  BY <1>1 DEF TypeOK
<1>3. Claims'
  BY <1>1 DEF Claims, ClaimsAreExact, Checking, Holders, At
<1>4. Rows'
  BY <1>1 DEF Rows, Knows, Issued, OneMaker, EnabledDomainIsCovered, Found
<1> QED BY <1>2, <1>3, <1>4 DEF Inductive

LEMMA StutterStep ==
  ASSUME Inductive, UNCHANGED vars
  PROVE  Inductive'
<1>1. /\ TypeOK /\ Claims /\ Rows
      /\ UNCHANGED <<domains, certs, certCache, call, inProgress, provisionSem, renewalSem,
                     check, boot, now, crashes>>
  BY DEF vars, Inductive, memory
<1>2. TypeOK'
  BY <1>1 DEF TypeOK
<1>3. Claims'
  BY <1>1 DEF Claims, ClaimsAreExact, Checking, Holders, At
<1>4. Rows'
  BY <1>1 DEF Rows, Knows, Issued, OneMaker, EnabledDomainIsCovered, Found
<1> QED BY <1>2, <1>3, <1>4 DEF Inductive

(* No call is left that holds or knows anything.                            *)
AtRest ==
  /\ \A p \in Process : /\ call[p].pc \in {"idle", "done"} /\ call[p].made = FALSE
                        /\ call[p].expires = 0
                        /\ p \in Domain => call[p].pc = "idle"
  /\ inProgress = {} /\ provisionSem = 0 /\ renewalSem = 0 /\ check.pc = "idle"

Quiet == Claims /\ OneMaker /\ \A p \in Process : Knows(call[p]) /\ Issued(call[p])

LEMMA NothingHeld == AtRest => Quiet
<1> SUFFICES ASSUME AtRest PROVE Quiet
  OBVIOUS
<1> USE DEF AtRest
<1>1. Holders = {} /\ Workers = {}
  BY DEF Holders, Workers, Claiming, Working
<1>2. Renewing = {}
  BY DEF Renewing, Process
<1>3. Cardinality({}) = 0 /\ MaxConcurrent \in Nat
  BY FS_EmptySet, CertificatesAssumption
<1>4. ClaimsAreExact
  BY <1>1, <1>2, <1>3 DEF ClaimsAreExact, Workers, Renewing
<1>5. Checking
  BY DEF Checking, At, Process
<1>6. OneMaker /\ \A p \in Process : Knows(call[p]) /\ Issued(call[p])
  BY DEF OneMaker, Knows, Issued, Making
<1> QED BY <1>4, <1>5, <1>6 DEF Claims, Quiet

LEMMA CrashStep ==
  ASSUME Inductive, Crash
  PROVE  Inductive'
<1>1. /\ TypeOK /\ Rows /\ crashes' = crashes + 1 /\ certCache' = {}
      /\ inProgress' = {} /\ provisionSem' = 0 /\ renewalSem' = 0
      /\ check' = [pc |-> "idle", todo |-> {}]
      /\ call' = [p \in Process |-> IF p \in Request /\ ~At(p, "idle") THEN End(p) ELSE Idle]
      /\ boot' \in SUBSET {d \in Domain : certs[d].status = "active"}
      /\ UNCHANGED <<domains, certs, now>>
  BY DEF Crash, Inductive
<1>2. Idle \in Call /\ Idle.pc = "idle" /\ Idle.made = FALSE /\ Idle.expires = 0
  BY DEF Idle, Call, Stage
<1>3. \A p \in Process : /\ call'[p] \in Call /\ call'[p].pc \in {"idle", "done"}
                         /\ call'[p].made = FALSE /\ call'[p].expires = 0
                         /\ p \in Domain => call'[p].pc = "idle"
  BY <1>1, <1>2, EndOf, CertificatesAssumption
<1>4. call' \in [Process -> Call]
  BY <1>1, <1>3
<1>5. TypeOK'
  BY <1>1, <1>4 DEF TypeOK
<1>6. Claims' /\ OneMaker' /\ \A p \in Process : (Knows(call[p]) /\ Issued(call[p]))'
  <2>1. AtRest'
    BY <1>1, <1>3 DEF AtRest
  <2>2. (AtRest => Quiet)'
    BY NothingHeld, PTL
  <2> QED BY <2>1, <2>2 DEF Quiet
<1>7. EnabledDomainIsCovered' /\ \A d \in Domain : Found(d)' => certs'[d].id = "row"
  BY <1>1 DEF Rows, EnabledDomainIsCovered, Found
<1>8. \A d \in certCache' \cup boot' : domains'[d].there => certs'[d].status = "active"
  BY <1>1
<1> QED BY <1>5, <1>6, <1>7, <1>8 DEF Inductive, Rows

LEMMA InductiveInit == Init => Inductive
<1> SUFFICES ASSUME Init PROVE Inductive
  OBVIOUS
<1>1. /\ \A p \in Process : call[p] = Idle
      /\ inProgress = {} /\ provisionSem = 0 /\ renewalSem = 0 /\ check.pc = "idle"
  BY DEF Init
<1>2. /\ Idle.pc = "idle" /\ Idle.made = FALSE /\ Idle.expires = 0
  BY DEF Idle
<1>3. Claims /\ OneMaker /\ \A p \in Process : Knows(call[p]) /\ Issued(call[p])
  BY <1>1, <1>2, NothingHeld DEF AtRest, Quiet
<1>4. TypeOK
  <2>1. domains \in [Domain -> DomainRow] /\ certs \in [Domain -> Row]
    BY DEF Init, NoCert, DomainRow, Row
  <2>2. call \in [Process -> Call]
    BY DEF Init, Idle, Call, Stage
  <2> QED BY <2>1, <2>2 DEF Init, TypeOK
<1>5. /\ \A d \in Domain : ~Found(d) /\ ~domains[d].ssl
      /\ certCache \cup boot = {}
  BY DEF Init, Found
<1> QED BY <1>3, <1>4, <1>5 DEF Inductive, Rows, EnabledDomainIsCovered

LEMMA InductiveNext == Inductive /\ [Next]_vars => Inductive'
<1> SUFFICES ASSUME Inductive, [Next]_vars
             PROVE  Inductive'
  OBVIOUS
<1>1. ASSUME NEW p \in Process, Step(p) \/ CancelWait(p)
      PROVE  Inductive'
  <2>1. CASE Provision(p)
    BY <2>1, ClaimStep, AcquireSlotStep, MarkProvisioningStep, CreateRowStep, IssueStep,
       UpdateActiveStep, CreateActiveStep, ResetFailuresStep, ProvisioningFailsStep,
       IncrementFailuresStep,
       ReleaseStep, UpdateSSLStatusStep DEF Provision
  <2>2. CASE FindCertificate(p)
    BY <2>2, FindCertificateStep
  <2>3. CASE Get(p)
    BY <2>3, GetStep, FillCacheStep DEF Get
  <2>4. CASE CancelWait(p)
    BY <2>4, CancelWaitStep
  <2> QED BY <1>1, <2>1, <2>2, <2>3, <2>4 DEF Step
<1>2. ASSUME NEW r \in Request, NEW d \in Domain,
             ProvisionSSL(r, d) \/ RenewSSL(r, d) \/ Handshake(r, d)
      PROVE  Inductive'
  BY <1>2, RequestStep
<1>3. CASE Scheduler
  BY <1>3, StartCheckStep, EndCheckStep, StartRenewalStep, AcquireRenewalStep, EndRenewalStep
     DEF Scheduler
<1>4. ASSUME NEW d \in Domain, LoadNext(d) \/ DeleteDomain(d)
      PROVE  Inductive'
  BY <1>4, LoadNextStep, DeleteDomainStep
<1> QED BY <1>1, <1>2, <1>3, <1>4, TickStep, CrashStep, StutterStep DEF Next
-------------------------------------------------------------------------------
(* Whatever requests, handshakes, renewals, failures, deletions and crashes *)
(* occur, in any order: the inductive invariant holds.                      *)
THEOREM CertificatesInvariant == Spec => []Inductive
BY InductiveInit, InductiveNext, PTL DEF Spec

(* Every variable of the service keeps its shape.                           *)
THEOREM CertificatesTyped == Spec => []TypeOK
BY CertificatesInvariant, PTL DEF Inductive

(* No claim and no slot of ProvisionCertificate and of the scheduler is     *)
(* lost or given back twice, and no domain is provisioned twice at a time.  *)
THEOREM NoClaimIsLost == Spec => []ClaimsAreExact
<1>1. Inductive => ClaimsAreExact
  BY DEF Inductive, Claims
<1> QED BY <1>1, CertificatesInvariant, PTL

(* A domain that is shown as having SSL has an active certificate that      *)
(* expires when the domain's row says.                                      *)
THEOREM ShownIsCovered == Spec => []EnabledDomainIsCovered
<1>1. Inductive => EnabledDomainIsCovered
  BY DEF Inductive, Rows
<1> QED BY <1>1, CertificatesInvariant, PTL

(* A certificate in the cache is one whose row is active, unless its domain *)
(* has been deleted.                                                        *)
THEOREM ServedIsActive == Spec => []ServedCertificatesAreActive
<1>1. Inductive => ServedCertificatesAreActive
  BY DEF Inductive, Rows, ServedCertificatesAreActive
<1> QED BY <1>1, CertificatesInvariant, PTL

(* Nobody but the call that created a row changes it.                       *)
LEMMA ChangesAreItsCreators ==
  ASSUME Inductive, Next, NEW d \in Domain, certs[d] # NoCert, certs'[d] \notin {certs[d], NoCert}
  PROVE  \E p \in Process : call[p].made /\ call[p].domain = d /\ call'[p] # call[p]
<1>1. /\ Found(d) /\ certs[d].id = "row" /\ TypeOK
      /\ \A p \in Process : Knows(call[p])
  BY DEF Found, Inductive, Rows
<1>2. \A e, st : st \in {"provisioning", "failed"} /\ e \in Domain => WithStatus(e, "domain", st) = certs
  BY DEF WithStatus, HasId, Inductive, Rows
<1>3. ASSUME NEW p \in Process, CreateRow(p) \/ CreateActive(p)
      PROVE  FALSE
  <2>1. call[p].domain \in Domain
    BY <1>1, <1>3 DEF CreateRow, CreateActive, At, Knows
  <2>2. certs' = certs \/ (~Found(call[p].domain) /\ \E k : certs' = [certs EXCEPT ![call[p].domain] = k])
    BY <1>3 DEF CreateRow, CreateActive, CanCreate
  <2> QED BY <1>1, <2>1, <2>2 DEF TypeOK
<1>4. ASSUME NEW p \in Process, UpdateActive(p) \/ ResetFailures(p)
      PROVE  call[p].made /\ call[p].domain = d /\ call'[p] # call[p]
  <2>1. call[p].domain \in Domain /\ call[p].made /\ call[p].pc \in {"update", "reset"}
    BY <1>1, <1>4 DEF UpdateActive, ResetFailures, At, Knows, Making
  <2>2. certs' = certs \/ \E k : certs' = [certs EXCEPT ![call[p].domain] = k]
    BY <1>4 DEF UpdateActive, ResetFailures, Updated
  <2>3. call[p].domain = d
    BY <1>1, <2>1, <2>2 DEF TypeOK
  <2>4. \E pc \in {"reset", "fail", "release"} : Goto(p, pc) /\ pc # call[p].pc
    BY <1>4, <2>1 DEF UpdateActive, ResetFailures, At
  <2>5. call'[p].pc # call[p].pc
    BY <1>1, <2>4, GotoOf DEF Stage
  <2> QED BY <2>1, <2>3, <2>5
<1>5. ASSUME NEW p \in Process,
             MarkProvisioning(p) \/ ProvisioningFails(p) \/ IncrementFailures(p)
      PROVE  FALSE
  <2>1. call[p].domain \in Domain
    BY <1>1, <1>5 DEF MarkProvisioning, ProvisioningFails, IncrementFailures, At, Knows, Making
  <2>2. ~HasId(call[p].domain, "domain")
    BY <2>1 DEF HasId, Inductive, Rows
  <2>3. certs' = certs
    BY <1>2, <1>5, <2>1, <2>2 DEF MarkProvisioning, ProvisioningFails, IncrementFailures
  <2> QED BY <2>3
<1>6. ASSUME NEW e \in Domain, DeleteDomain(e)
      PROVE  FALSE
  BY <1>1, <1>6 DEF DeleteDomain, TypeOK
<1>7. CASE UNCHANGED certs
  BY <1>7
<1>8. ASSUME NEW p \in Process, Step(p) \/ CancelWait(p)
      PROVE  UNCHANGED certs \/ \E q \in Process : call[q].made /\ call[q].domain = d /\ call'[q] # call[q]
  <2>1. CASE Provision(p)
    BY <1>3, <1>4, <1>5, <2>1
       DEF Provision, Claim, AcquireSlot, Issue, Release, UpdateSSLStatus
  <2>2. CASE FindCertificate(p) \/ Get(p) \/ CancelWait(p)
    BY <2>2 DEF FindCertificate, Get, FindActive, LoadFiles, FillCache, CancelWait
  <2> QED BY <1>8, <2>1, <2>2 DEF Step
<1>9. ASSUME NEW r \in Request, NEW e \in Domain,
             ProvisionSSL(r, e) \/ RenewSSL(r, e) \/ Handshake(r, e)
      PROVE  UNCHANGED certs
  BY <1>9 DEF ProvisionSSL, RenewSSL, Handshake
<1>10. CASE Scheduler \/ Tick \/ Crash \/ \E e \in Domain : LoadNext(e)
  BY <1>7, <1>10
     DEF Scheduler, StartCheck, EndCheck, StartRenewal, AcquireRenewal, EndRenewal, Tick, Crash,
         LoadNext
<1> QED BY <1>6, <1>7, <1>8, <1>9, <1>10 DEF Next

(* Neither another request, nor the scheduler, nor the error path of        *)
(* another call touches a row that a call has created.                      *)
THEOREM RowsBelongToTheirCreator == Spec => OnlyItsCreatorChangesARow
<1>1. Inductive /\ [Next]_vars =>
        [\A d \in Domain :
           certs[d] # NoCert /\ certs'[d] \notin {certs[d], NoCert} =>
             \E p \in Process : call[p].made /\ call[p].domain = d /\ call'[p] # call[p]]_vars
  BY ChangesAreItsCreators
<1> QED BY <1>1, CertificatesInvariant, PTL DEF Spec, OnlyItsCreatorChangesARow
===============================================================================
