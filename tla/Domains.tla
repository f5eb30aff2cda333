-------------------------------- MODULE Domains ---------------------------------
(* Domains and aliases: internal/domain (service.go, dns_service.go),       *)
(* internal/alias (alias_service.go) and their handlers, over the tables    *)
(* domains and aliases (repository/domain_repo.go, alias_repository.go).    *)
(*                                                                          *)
(* A step is one SQL statement or one DNS check.  The reads before the      *)
(* first write of a request are one step with its start where what they     *)
(* find cannot change but by a deletion, which the write notices: by the    *)
(* rows it affects, the foreign key or the unique index.                    *)
(* IDs are UUIDs: a row never gets the ID of an older one.  A domain's      *)
(* verification token is random and drawn with its row: the ID names it.    *)
(* The requests publish no events: both services would at their end, where  *)
(* they have an event bus (domain/service.go:178, alias_service.go:561),    *)
(* and are built without one (cmd/server/main.go:203-219).                  *)
EXTENDS Naturals, FiniteSets

CONSTANTS
  User,         \* accounts
  Name,         \* domain names
  Local,        \* local parts of addresses
  DomainID,     \* IDs of rows of domains
  AliasID,      \* IDs of rows of aliases
  Request,      \* requests that run at the same time
  DomainLimit,  \* domains per user (5)
  AliasLimit,   \* aliases per user (50)
  MayFail,      \* whether a request may end with an error at any step
  None          \* no user, no row, no token

ASSUME DomainsAssumption ==
  /\ IsFiniteSet(DomainID) /\ IsFiniteSet(AliasID)
  /\ IsFiniteSet(Request) /\ Request # {}
  /\ DomainID \cap AliasID = {} /\ None \notin User \cup Name \cup DomainID \cup AliasID
  /\ DomainLimit \in Nat \ {0} /\ AliasLimit \in Nat \ {0}
  /\ MayFail \in BOOLEAN

VARIABLES
  users,      \* rows of users
  domains,    \* domains[d]: the row with ID d
  aliases,    \* aliases[a]: the row with ID a
  born,       \* the IDs that were ever given to a row
  txt,        \* txt[n]: whose token the zone of n publishes (with an MX record)
  proved,     \* domains whose token their zone has published
  resets,     \* how often an update of the row with ID d took back ssl_enabled
  call        \* call[r]: what request r is doing

vars == <<users, domains, aliases, born, txt, proved, resets, call>>

NoDomain == [user |-> None, name |-> None, verified |-> FALSE, ssl |-> FALSE]
NoAlias  == [user |-> None, domain |-> None, address |-> << >>, active |-> FALSE]
Idle     == [pc |-> "idle", user |-> None, id |-> None, name |-> None, flag |-> FALSE]

Init ==
  /\ users = User
  /\ domains = [d \in DomainID |-> NoDomain]
  /\ aliases = [a \in AliasID |-> NoAlias]
  /\ born = {}
  /\ txt = [n \in Name |-> None] /\ proved = {}
  /\ resets = [d \in DomainID |-> 0]
  /\ call = [r \in Request |-> Idle]

At(r, pc) == call[r].pc = pc
Start(r, pc, u, id, name, flag) ==
  /\ At(r, "idle")
  /\ call' = [call EXCEPT ![r] =
       [pc |-> pc, user |-> u, id |-> id, name |-> name, flag |-> flag]]
Goto(r, pc) == call' = [call EXCEPT ![r].pc = pc]
End(r)      == call' = [call EXCEPT ![r] = Idle]

(* Rows of domains.  The whole row is written back by an update.            *)
Here(d)            == domains[d] # NoDomain
DomainsOf(u)       == {d \in DomainID : domains[d].user = u}
GetByDomainName(n) == {d \in DomainID : domains[d].name = n}

AddDomain(d, u, n) ==
  /\ d \notin born /\ u \in users /\ GetByDomainName(n) = {}
  /\ domains' = [domains EXCEPT ![d] =
       [user |-> u, name |-> n, verified |-> FALSE, ssl |-> FALSE]]
  /\ born' = born \cup {d}

Update(d, verified, ssl) ==
  domains' = IF Here(d) THEN [domains EXCEPT ![d].verified = verified, ![d].ssl = ssl]
                        ELSE domains

(* Rows of aliases, and those left by ON DELETE CASCADE.                    *)
AliasHere(a)                 == aliases[a] # NoAlias
AliasesOf(u)                 == {a \in AliasID : aliases[a].user = u}
ExistsByFullAddress(address) == \E a \in AliasID : aliases[a].address = address
FullAddress(l, d)            == <<l, domains[d].name>>

AddAlias(a, u, d, address) ==
  /\ a \notin born /\ u \in users /\ Here(d) /\ ~ExistsByFullAddress(address)
  /\ aliases' = [aliases EXCEPT ![a] =
       [user |-> u, domain |-> d, address |-> address, active |-> TRUE]]
  /\ born' = born \cup {a}

AliasesWithout(gone) ==
  [a \in AliasID |-> IF aliases[a].domain \in gone THEN NoAlias ELSE aliases[a]]
-------------------------------------------------------------------------------
(* POST /domains: the count and the name are looked up, then the insert is  *)
(* under the unique index on the name and the foreign key to the user.      *)
CreateDomain(r, u, n) ==
  /\ Cardinality(DomainsOf(u)) < DomainLimit
  /\ GetByDomainName(n) = {}
  /\ Start(r, "insertDomain", u, None, n, FALSE)
  /\ UNCHANGED <<users, domains, aliases, born, txt, proved, resets>>

InsertDomain(r) ==
  LET u == call[r].user
      n == call[r].name
  IN  /\ At(r, "insertDomain")
      /\ IF u \in users /\ GetByDomainName(n) = {}
           THEN \E d \in DomainID : AddDomain(d, u, n)
           ELSE UNCHANGED <<domains, born>>
      /\ End(r)
      /\ UNCHANGED <<users, aliases, txt, proved, resets>>

(* Mutation: a verified domain is verified again.                           *)
VerifyDomainAgain(r, u, d) ==
  /\ domains[d].user = u
  /\ Start(r, "checkDNS", u, d, domains[d].name, domains[d].ssl)
  /\ UNCHANGED <<users, domains, aliases, born, txt, proved, resets>>

(* POST /domains/{id}/verify: the whole row is read; flag is its            *)
(* ssl_enabled.  A verified domain is answered at once.                     *)
VerifyDomain(r, u, d) ==
  /\ domains[d].user = u /\ ~domains[d].verified
  /\ Start(r, "checkDNS", u, d, domains[d].name, domains[d].ssl)
  /\ UNCHANGED <<users, domains, aliases, born, txt, proved, resets>>

(* Mutation: any verification token will do.                                *)
CheckSomeToken(r) ==
  /\ At(r, "checkDNS")
  /\ IF txt[call[r].name] # None THEN Goto(r, "verified") ELSE End(r)
  /\ UNCHANGED <<users, domains, aliases, born, txt, proved, resets>>

(* CheckDNS with the name and token of the row that was read, which may be  *)
(* gone by now.                                                             *)
CheckDNS(r) ==
  /\ At(r, "checkDNS")
  /\ IF txt[call[r].name] = call[r].id THEN Goto(r, "verified") ELSE End(r)
  /\ UNCHANGED <<users, domains, aliases, born, txt, proved, resets>>

(* Mutation: a row that is gone is written again.                           *)
UpdateOrInsertDomain(r) ==
  LET d == call[r].id
  IN  /\ At(r, "verified")
      /\ domains' = [domains EXCEPT ![d].verified = TRUE, ![d].ssl = call[r].flag]
      /\ End(r)
      /\ UNCHANGED <<users, aliases, born, txt, proved, resets>>

(* ssl_enabled is written as it was read, over what has been written since. *)
(* ProvisionCertificate of domain.SSLService is a placeholder that changes  *)
(* nothing.                                                                 *)
UpdateDomain(r) ==
  LET d == call[r].id
  IN  /\ At(r, "verified")
      /\ Update(d, TRUE, call[r].flag)
      /\ resets' = IF domains[d].ssl /\ ~call[r].flag
                     THEN [resets EXCEPT ![d] = @ + 1] ELSE resets
      /\ End(r)
      /\ UNCHANGED <<users, aliases, born, txt, proved>>

(* DELETE /domains/{id}.                                                    *)
DeleteDomain(r, u, d) ==
  /\ domains[d].user = u
  /\ Start(r, "removeDomain", u, d, None, FALSE)
  /\ UNCHANGED <<users, domains, aliases, born, txt, proved, resets>>

RemoveDomain(r) ==
  LET d == call[r].id
  IN  /\ At(r, "removeDomain")
      /\ domains' = [domains EXCEPT ![d] = NoDomain]
      /\ aliases' = AliasesWithout({d})
      /\ End(r)
      /\ UNCHANGED <<users, born, txt, proved, resets>>
-------------------------------------------------------------------------------
(* Mutation: an unverified domain is accepted.                              *)
CreateAliasUnverified(r, u, d, l) ==
  /\ domains[d].user = u
  /\ ~ExistsByFullAddress(FullAddress(l, d))
  /\ Cardinality(AliasesOf(u)) < AliasLimit
  /\ Start(r, "insertAlias", u, d, l, FALSE)
  /\ UNCHANGED <<users, domains, aliases, born, txt, proved, resets>>

(* Mutation: one alias too many.                                            *)
CreateAliasAtLimit(r, u, d, l) ==
  /\ domains[d].user = u /\ domains[d].verified
  /\ ~ExistsByFullAddress(FullAddress(l, d))
  /\ Cardinality(AliasesOf(u)) <= AliasLimit
  /\ Start(r, "insertAlias", u, d, l, FALSE)
  /\ UNCHANGED <<users, domains, aliases, born, txt, proved, resets>>

(* POST /aliases, and /aliases/generate with a random local part: the       *)
(* domain, the address, the limit, then the insert.                         *)
CreateAlias(r, u, d, l) ==
  /\ domains[d].user = u /\ domains[d].verified
  /\ ~ExistsByFullAddress(FullAddress(l, d))
  /\ Cardinality(AliasesOf(u)) < AliasLimit
  /\ Start(r, "insertAlias", u, d, l, FALSE)
  /\ UNCHANGED <<users, domains, aliases, born, txt, proved, resets>>

InsertAlias(r) ==
  LET u == call[r].user
      d == call[r].id
      address == FullAddress(call[r].name, d)
  IN  /\ At(r, "insertAlias")
      /\ IF u \in users /\ Here(d) /\ ~ExistsByFullAddress(address)
           THEN \E a \in AliasID : AddAlias(a, u, d, address)
           ELSE UNCHANGED <<aliases, born>>
      /\ End(r)
      /\ UNCHANGED <<users, domains, txt, proved, resets>>

(* PUT /aliases/{id}: the row is read; the flag to write is the one asked   *)
(* for or, when only the description is, the one that was read.             *)
UpdateAlias(r, u, a, active) ==
  /\ aliases[a].user = u
  /\ Start(r, "writeAlias", u, a, None, active)
  /\ UNCHANGED <<users, domains, aliases, born, txt, proved, resets>>

WriteAlias(r) ==
  LET a == call[r].id
  IN  /\ At(r, "writeAlias")
      /\ aliases' = IF AliasHere(a)
                      THEN [aliases EXCEPT ![a].active = call[r].flag] ELSE aliases
      /\ End(r)
      /\ UNCHANGED <<users, domains, born, txt, proved, resets>>

(* DELETE /aliases/{id}.  (MailStore and Inbox have its e-mails and         *)
(* objects.)                                                                *)
DeleteAlias(r, u, a) ==
  /\ aliases[a].user = u
  /\ Start(r, "removeAlias", u, a, None, FALSE)
  /\ UNCHANGED <<users, domains, aliases, born, txt, proved, resets>>

RemoveAlias(r) ==
  /\ At(r, "removeAlias")
  /\ aliases' = [aliases EXCEPT ![call[r].id] = NoAlias]
  /\ End(r)
  /\ UNCHANGED <<users, domains, born, txt, proved, resets>>
-------------------------------------------------------------------------------
(* DeleteUser of module Sessions, seen from these tables.                   *)
DeleteUser(u) ==
  /\ users' = users \ {u}
  /\ domains' = [d \in DomainID |-> IF domains[d].user = u THEN NoDomain ELSE domains[d]]
  /\ aliases' = AliasesWithout(DomainsOf(u))
  /\ UNCHANGED <<born, txt, proved, resets, call>>

(* UpdateSSLStatus of module Certificates.                                  *)
EnableSSL(d) ==
  /\ domains[d].verified
  /\ domains' = [domains EXCEPT ![d].ssl = TRUE]
  /\ UNCHANGED <<users, aliases, born, txt, proved, resets, call>>

(* The owner of zone n publishes the token of a domain of that name, and    *)
(* may leave it there when the domain is deleted.                           *)
PublishToken(n, d) ==
  /\ domains[d].name = n
  /\ txt' = [txt EXCEPT ![n] = d]
  /\ proved' = proved \cup {d}
  /\ UNCHANGED <<users, domains, aliases, born, resets, call>>

(* A step fails, its answer is lost, or the process is killed.              *)
Abort(r) ==
  /\ MayFail /\ ~At(r, "idle")
  /\ End(r)
  /\ UNCHANGED <<users, domains, aliases, born, txt, proved, resets>>

Step(r) ==
  \/ InsertDomain(r) \/ CheckDNS(r) \/ UpdateDomain(r) \/ RemoveDomain(r)
  \/ InsertAlias(r) \/ WriteAlias(r) \/ RemoveAlias(r) \/ Abort(r)

DomainRoutes(r, u) ==
  \/ \E n \in Name : CreateDomain(r, u, n)
  \/ \E d \in DomainID : VerifyDomain(r, u, d) \/ DeleteDomain(r, u, d)

AliasRoutes(r, u) ==
  \/ \E d \in DomainID, l \in Local : CreateAlias(r, u, d, l)
  \/ \E a \in AliasID :
       \/ \E active \in BOOLEAN : UpdateAlias(r, u, a, active)
       \/ DeleteAlias(r, u, a)

Next ==
  \/ \E r \in Request, u \in User : DomainRoutes(r, u) \/ AliasRoutes(r, u)
  \/ \E r \in Request : Step(r)
  \/ \E u \in User : DeleteUser(u)
  \/ \E d \in DomainID : EnableSSL(d) \/ \E n \in Name : PublishToken(n, d)

Spec == Init /\ [][Next]_vars
-------------------------------------------------------------------------------
PCs == {"idle", "insertDomain", "checkDNS", "verified", "removeDomain", "insertAlias",
        "writeAlias", "removeAlias"}

DomainRow == [user : User, name : Name, verified : BOOLEAN, ssl : BOOLEAN]
AliasRow  == [user : User, domain : DomainID, address : Local \X Name, active : BOOLEAN]
Call      == [pc : PCs, user : User \cup {None}, id : DomainID \cup AliasID \cup {None},
              name : Name \cup Local \cup {None}, flag : BOOLEAN]

(* The shapes of tables, zones and requests.  The rows, and what requests   *)
(* work on, have IDs that were given to a row at some time.                 *)
TypeOK ==
  /\ users \subseteq User
  /\ domains \in [DomainID -> DomainRow \cup {NoDomain}]
  /\ aliases \in [AliasID -> AliasRow \cup {NoAlias}]
  /\ born \subseteq DomainID \cup AliasID
  /\ \A d \in DomainID : Here(d) => d \in born
  /\ \A a \in AliasID : AliasHere(a) => a \in born
  /\ txt \in [Name -> DomainID \cup {None}] /\ proved \subseteq DomainID
  /\ resets \in [DomainID -> Nat]
  /\ call \in [Request -> Call]
  /\ \A r \in Request : call[r].id \in born \cup {None}

(* A verified domain belongs to the one whose own token its zone has        *)
(* published.  The token of a row that is gone, still in the zone when      *)
(* another user registers the name, does not verify the new row, nor does a *)
(* check that was started for the old one.                                  *)
VerifiedOwnersControlTheZone == \A d \in DomainID : domains[d].verified => d \in proved

(* An alias belongs to the owner of a verified domain that is still there,  *)
(* and its address is in that domain: mail is never accepted for a domain   *)
(* nobody has verified, whatever was deleted while the alias was made.      *)
AliasesFollowTheirDomain ==
  \A a \in AliasID : AliasHere(a) =>
    LET d == domains[aliases[a].domain]
    IN  d.verified /\ d.user = aliases[a].user /\ d.name = aliases[a].address[2]

(* The limits are checked before the insert and not with it: they are       *)
(* exceeded at most by the other requests that run at the same time, those  *)
(* included that have still to insert.                                      *)
LimitsHoldUpToRaces ==
  LET Inserting(pc, u) == {r \in Request : At(r, pc) /\ call[r].user = u}
  IN  \A u \in User :
        /\ Cardinality(DomainsOf(u)) + Cardinality(Inserting("insertDomain", u))
             <= DomainLimit - 1 + Cardinality(Request)
        /\ Cardinality(AliasesOf(u)) + Cardinality(Inserting("insertAlias", u))
             <= AliasLimit - 1 + Cardinality(Request)

(* A verification writes back the whole row that it read before its DNS     *)
(* check, and may take back the ssl_enabled that was set in between         *)
(* (domain/service.go:226).  Only a verification that was started before    *)
(* the domain was verified can, and the first one that verifies it finds    *)
(* nothing to take back: no domain loses its flag as often as there are     *)
(* requests at the same time.                                               *)
SSLIsResetOnlyByRaces == \A d \in DomainID : resets[d] < Cardinality(Request)
===============================================================================
