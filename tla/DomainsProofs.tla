----------------------------- MODULE DomainsProofs ------------------------------
(* Proofs about Domains, for any number of users, names, rows and requests: *)
(* verified domains and their aliases belong to those who control the zone, *)
(* the limits are exceeded by no more than the requests that run at the     *)
(* same time, and so often only is ssl_enabled taken back.                  *)
EXTENDS Domains, FiniteSetTheorems, TLAPS

(* What a request holds at each of its stages.  Where it has read a row, it *)
(* is a row that is the same now, or gone.                                  *)
KnowsName(r) ==
  LET c == call[r]
  IN  /\ c.pc = "insertDomain" => c.user \in User /\ c.name \in Name
      /\ c.pc \in {"checkDNS", "verified"} => c.id \in DomainID /\ c.name \in Name

KnowsRow(r) ==
  LET c == call[r]
  IN  /\ c.pc = "removeDomain" => c.id \in DomainID
      /\ c.pc \in {"writeAlias", "removeAlias"} => c.id \in AliasID

KnowsDomain(r) ==
  LET c == call[r]
  IN  c.pc = "insertAlias" =>
        /\ c.user \in User /\ c.id \in DomainID /\ c.name \in Local
        /\ Here(c.id) => domains[c.id].user = c.user /\ domains[c.id].verified

Knows(r) == KnowsName(r) /\ KnowsRow(r) /\ KnowsDomain(r)
Typed    == TypeOK /\ \A r \in Request : Knows(r)

(* A zone publishes the token of a domain only after its owner put it there.*)
ZonesProve == \A n \in Name : txt[n] # None => txt[n] \in proved
CheckedIsProved == \A r \in Request : At(r, "verified") => call[r].id \in proved

Verified == VerifiedOwnersControlTheZone /\ ZonesProve /\ CheckedIsProved

(* The verifications that may still write the row of d, and how many resets *)
(* that makes at most.                                                      *)
Verifying(d) == {r \in Request : call[r].pc \in {"checkDNS", "verified"} /\ call[r].id = d}
FewResets(d) == resets[d] + Cardinality(Verifying(d)) < Cardinality(Request)

Race(d) ==
  /\ domains[d].ssl => domains[d].verified
  /\ Here(d) /\ ~domains[d].verified => resets[d] = 0
  /\ d \notin born => resets[d] = 0
  /\ domains[d].verified \/ resets[d] # 0 => FewResets(d)
Races == \A d \in DomainID : Race(d)
-------------------------------------------------------------------------------
(* A row is its owner's, or there is none.                                  *)
LEMMA RowFacts ==
  ASSUME TypeOK
  PROVE  /\ \A d \in DomainID : Here(d) => domains[d] \in DomainRow
         /\ \A a \in AliasID : AliasHere(a) => aliases[a] \in AliasRow
         /\ \A d \in DomainID : ~Here(d) =>
              ~domains[d].verified /\ domains[d].user \notin User /\ domains[d].name \notin Name
         /\ \A a \in AliasID : ~AliasHere(a) =>
              aliases[a].user \notin User /\ aliases[a].domain \notin DomainID
         /\ \A u \in User : u # None
         /\ \A d \in DomainID : d # None /\ d \notin AliasID
         /\ \A a \in AliasID : a # None /\ a \notin DomainID
BY DomainsAssumption DEF TypeOK, Here, AliasHere, NoDomain, NoAlias

(* What happens to the row of a domain: it is made, under an ID of its own, *)
(* it is removed, or it keeps its owner and stays verified.                 *)
DomainsKept ==
  \A d \in DomainID : Here(d)' =>
    \/ d \notin born
    \/ /\ Here(d) /\ domains'[d].user = domains[d].user
       /\ domains'[d].name = domains[d].name
       /\ domains[d].verified => domains'[d].verified

(* Then what the other requests know stays true.                            *)
LEMMA Frame ==
  ASSUME Typed, TypeOK', DomainsKept,
         \A r \in Request : call'[r] = call[r] \/ Knows(r)'
  PROVE  Typed'
<1> SUFFICES ASSUME NEW r \in Request, call'[r] = call[r] PROVE Knows(r)'
  BY DEF Typed
<1>1. Knows(r)
  BY DEF Typed
<1>2. call[r].id \in DomainID => call[r].id \in born
  BY RowFacts DEF Typed, TypeOK
<1>3. KnowsDomain(r)'
  BY <1>1, <1>2 DEF Knows, KnowsDomain, DomainsKept
<1> QED BY <1>1, <1>3 DEF Knows, KnowsName, KnowsRow

(* A request that starts, goes on or ends.                                  *)
LEMMA OneCall ==
  ASSUME TypeOK, NEW r \in Request, NEW c \in Call,
         call' = [call EXCEPT ![r] = c]
  PROVE  /\ call' \in [Request -> Call] /\ call'[r] = c
         /\ \A s \in Request \ {r} : call'[s] = call[s]
BY DEF TypeOK

LEMMA EndOf ==
  ASSUME TypeOK, NEW r \in Request, End(r)
  PROVE  /\ call' \in [Request -> Call] /\ call'[r] = Idle /\ Knows(r)'
         /\ \A s \in Request \ {r} : call'[s] = call[s]
         /\ call'[r].id = None
<1>1. Idle \in Call
  BY DEF Idle, Call, PCs
<1>2. call' \in [Request -> Call] /\ call'[r] = Idle
      /\ \A s \in Request \ {r} : call'[s] = call[s]
  BY <1>1, OneCall DEF End
<1> QED BY <1>2 DEF Idle, Knows, KnowsName, KnowsRow, KnowsDomain

LEMMA GotoOf ==
  ASSUME TypeOK, NEW r \in Request, NEW pc \in PCs, Goto(r, pc)
  PROVE  /\ call' \in [Request -> Call]
         /\ call'[r].pc = pc /\ call'[r].user = call[r].user
         /\ call'[r].id = call[r].id /\ call'[r].name = call[r].name
         /\ \A s \in Request \ {r} : call'[s] = call[s]
BY DEF TypeOK, Goto, Call

LEMMA StartOf ==
  ASSUME TypeOK, NEW r \in Request, NEW pc, NEW u, NEW id, NEW name, NEW flag,
         [pc |-> pc, user |-> u, id |-> id, name |-> name, flag |-> flag] \in Call,
         Start(r, pc, u, id, name, flag)
  PROVE  /\ call' \in [Request -> Call]
         /\ call'[r].pc = pc /\ call'[r].user = u /\ call'[r].id = id
         /\ call'[r].name = name /\ call[r].pc = "idle"
         /\ \A s \in Request \ {r} : call'[s] = call[s]
BY OneCall DEF Start, At
-------------------------------------------------------------------------------
LEMMA TypedInit == Init => Typed
<1> SUFFICES ASSUME Init PROVE Typed
  OBVIOUS
<1>1. Idle \in Call
  BY DEF Idle, Call, PCs
<1>2. TypeOK
  BY <1>1 DEF Init, TypeOK, Here, AliasHere, Idle
<1> QED BY <1>2 DEF Init, Typed, Knows, KnowsName, KnowsRow, KnowsDomain, Idle

(* The steps that change nothing but the request itself.                    *)
LEMMA CallStep ==
  ASSUME Typed, NEW r \in Request, call' \in [Request -> Call],
         \A s \in Request \ {r} : call'[s] = call[s],
         call'[r].id \in born \cup {None}, Knows(r)',
         UNCHANGED <<users, domains, aliases, born, txt, proved, resets>>
  PROVE  Typed'
<1>1. TypeOK'
  BY DEF Typed, TypeOK, Here, AliasHere
<1>2. DomainsKept
  BY DEF DomainsKept, Here
<1> QED BY <1>1, <1>2, Frame

LEMMA TypedCreateDomain ==
  ASSUME Typed, NEW r \in Request, NEW u \in User, NEW n \in Name, CreateDomain(r, u, n)
  PROVE  Typed'
<1>1. [pc |-> "insertDomain", user |-> u, id |-> None, name |-> n, flag |-> FALSE] \in Call
  BY DEF Call, PCs
<1>2. TypeOK /\ Start(r, "insertDomain", u, None, n, FALSE)
      /\ UNCHANGED <<users, domains, aliases, born, txt, proved, resets>>
  BY DEF CreateDomain, Typed
<1>3. call'[r].pc = "insertDomain" /\ call'[r].user = u /\ call'[r].name = n
      /\ call'[r].id = None
  BY <1>1, <1>2, StartOf, ZenonT(40)
<1>4. Knows(r)'
  BY <1>3 DEF Knows, KnowsName, KnowsRow, KnowsDomain
<1> QED BY <1>1, <1>2, <1>3, <1>4, StartOf, CallStep

LEMMA TypedVerifyDomain ==
  ASSUME Typed, NEW r \in Request, NEW u \in User, NEW d \in DomainID, VerifyDomain(r, u, d)
  PROVE  Typed'
<1> DEFINE c == [pc |-> "checkDNS", user |-> u, id |-> d, name |-> domains[d].name,
                 flag |-> domains[d].ssl]
<1>1. TypeOK /\ Start(r, "checkDNS", u, d, domains[d].name, domains[d].ssl)
      /\ UNCHANGED <<users, domains, aliases, born, txt, proved, resets>>
  BY DEF VerifyDomain, Typed
<1>2. domains[d] \in DomainRow /\ d \in born
  BY <1>1, RowFacts DEF VerifyDomain, TypeOK
<1>3. c \in Call /\ c.name \in Name
  BY <1>2 DEF Call, PCs, DomainRow
<1>4. Knows(r)' /\ call'[r].id = d
  BY <1>1, <1>3, StartOf DEF Knows, KnowsName, KnowsRow, KnowsDomain
<1> QED BY <1>1, <1>2, <1>3, <1>4, StartOf, CallStep

LEMMA TypedDeleteDomain ==
  ASSUME Typed, NEW r \in Request, NEW u \in User, NEW d \in DomainID, DeleteDomain(r, u, d)
  PROVE  Typed'
<1>1. [pc |-> "removeDomain", user |-> u, id |-> d, name |-> None, flag |-> FALSE] \in Call
  BY DEF Call, PCs
<1>2. TypeOK /\ Start(r, "removeDomain", u, d, None, FALSE)
      /\ UNCHANGED <<users, domains, aliases, born, txt, proved, resets>>
  BY DEF DeleteDomain, Typed
<1>3. d \in born
  BY <1>2, RowFacts DEF DeleteDomain, TypeOK
<1>4. call'[r].pc = "removeDomain" /\ call'[r].id = d
  BY <1>1, <1>2, StartOf
<1>5. Knows(r)'
  BY <1>4 DEF Knows, KnowsName, KnowsRow, KnowsDomain
<1> QED BY <1>1, <1>2, <1>3, <1>4, <1>5, StartOf, CallStep

LEMMA TypedCreateAlias ==
  ASSUME Typed, NEW r \in Request, NEW u \in User, NEW d \in DomainID, NEW l \in Local,
         CreateAlias(r, u, d, l)
  PROVE  Typed'
<1>1. [pc |-> "insertAlias", user |-> u, id |-> d, name |-> l, flag |-> FALSE] \in Call
  BY DEF Call, PCs
<1>2. TypeOK /\ Start(r, "insertAlias", u, d, l, FALSE)
      /\ UNCHANGED <<users, domains, aliases, born, txt, proved, resets>>
  BY DEF CreateAlias, Typed
<1>3. d \in born
  BY <1>2, RowFacts DEF CreateAlias, TypeOK
<1>4. call'[r].pc = "insertAlias" /\ call'[r].user = u /\ call'[r].name = l
      /\ call'[r].id = d
  BY <1>1, <1>2, StartOf, ZenonT(40)
<1>5. Knows(r)'
  BY <1>2, <1>4 DEF CreateAlias, Knows, KnowsName, KnowsRow, KnowsDomain, Here
<1> QED BY <1>1, <1>2, <1>3, <1>4, <1>5, StartOf, CallStep

(* PUT and DELETE /aliases/{id}.                                            *)
LEMMA TypedAliasRequest ==
  ASSUME Typed, NEW r \in Request, NEW u \in User, NEW a \in AliasID, NEW active \in BOOLEAN,
         UpdateAlias(r, u, a, active) \/ DeleteAlias(r, u, a)
  PROVE  Typed'
<1> USE DEF Typed
<1>1. PICK pc \in {"writeAlias", "removeAlias"}, flag \in BOOLEAN :
        Start(r, pc, u, a, None, flag)
  BY DEF UpdateAlias, DeleteAlias
<1>2. [pc |-> pc, user |-> u, id |-> a, name |-> None, flag |-> flag] \in Call
  BY DEF Call, PCs
<1>3. a \in born /\ UNCHANGED <<users, domains, aliases, born, txt, proved, resets>>
  BY RowFacts DEF UpdateAlias, DeleteAlias, TypeOK
<1>4. Knows(r)' /\ call'[r].id = a
  BY <1>1, <1>2, StartOf DEF Knows, KnowsName, KnowsRow, KnowsDomain
<1> QED BY <1>1, <1>2, <1>3, <1>4, StartOf, CallStep

LEMMA TypedCheckDNS ==
  ASSUME Typed, NEW r \in Request, CheckDNS(r)
  PROVE  Typed'
<1>1. TypeOK /\ Knows(r) /\ call[r].pc = "checkDNS" /\ "verified" \in PCs
      /\ UNCHANGED <<users, domains, aliases, born, txt, proved, resets>>
      /\ (Goto(r, "verified") \/ End(r))
  BY DEF CheckDNS, At, Typed, PCs
<1>2. CASE Goto(r, "verified")
  <2>1. Knows(r)' /\ call'[r].id \in born \cup {None}
    BY <1>1, <1>2, GotoOf DEF Knows, KnowsName, KnowsRow, KnowsDomain, TypeOK
  <2> QED BY <1>1, <1>2, <2>1, GotoOf, CallStep
<1>3. CASE End(r)
  BY <1>1, <1>3, EndOf, CallStep
<1> QED BY <1>1, <1>2, <1>3

LEMMA TypedAbort ==
  ASSUME Typed, NEW r \in Request, Abort(r)
  PROVE  Typed'
BY EndOf, CallStep DEF Abort, Typed
-------------------------------------------------------------------------------
(* The steps that change a table.                                           *)
LEMMA TypedInsertDomain ==
  ASSUME Typed, NEW r \in Request, InsertDomain(r)
  PROVE  Typed'
<1>1. /\ TypeOK /\ Knows(r) /\ call[r].pc = "insertDomain" /\ End(r)
      /\ UNCHANGED <<users, aliases, txt, proved, resets>>
  BY DEF InsertDomain, At, Typed
<1>2. CASE UNCHANGED <<domains, born>>
  BY <1>1, <1>2, EndOf, CallStep
<1>3. ASSUME NEW d \in DomainID, AddDomain(d, call[r].user, call[r].name)
      PROVE  Typed'
  <2>1. call[r].user \in User /\ call[r].name \in Name
    BY <1>1 DEF Knows, KnowsName
  <2> DEFINE row == [user |-> call[r].user, name |-> call[r].name,
                     verified |-> FALSE, ssl |-> FALSE]
  <2>2. row \in DomainRow
    BY <2>1 DEF DomainRow
  <2>3. /\ domains' = [domains EXCEPT ![d] = row] /\ born' = born \cup {d} /\ d \notin born
    BY <1>3 DEF AddDomain
  <2>4. /\ domains' \in [DomainID -> DomainRow \cup {NoDomain}]
        /\ \A e \in DomainID \ {d} : domains'[e] = domains[e]
    BY <1>1, <2>2, <2>3 DEF TypeOK
  <2>5. /\ \A e \in DomainID : Here(e)' => e \in born'
        /\ \A a \in AliasID : AliasHere(a)' => a \in born'
    BY <1>1, <2>3, <2>4 DEF TypeOK, Here, AliasHere
  <2>6. \A s \in Request : call'[s].id \in born' \cup {None}
    BY <1>1, <2>3, EndOf DEF TypeOK
  <2>7. TypeOK'
    BY <1>1, <2>3, <2>4, <2>5, <2>6, EndOf DEF TypeOK
  <2>8. DomainsKept
    BY <2>3, <2>4 DEF DomainsKept, Here
  <2> QED BY <1>1, <2>7, <2>8, EndOf, Frame
<1> QED BY <1>2, <1>3 DEF InsertDomain

(* An update of the row of domain d, if it is there.                        *)
LEMMA TypedUpdate ==
  ASSUME Typed, NEW d \in DomainID, NEW row \in DomainRow,
         domains' = [domains EXCEPT ![d] = row], Here(d),
         row.user = domains[d].user, row.name = domains[d].name,
         domains[d].verified => row.verified,
         UNCHANGED <<users, aliases, born, txt, proved>>, resets' \in [DomainID -> Nat],
         call' \in [Request -> Call],
         \A r \in Request : call'[r] = call[r] \/ (Knows(r)' /\ call'[r].id = None)
  PROVE  Typed'
<1>1. /\ domains' \in [DomainID -> DomainRow \cup {NoDomain}]
      /\ domains'[d] = row /\ \A e \in DomainID \ {d} : domains'[e] = domains[e]
  BY DEF Typed, TypeOK
<1>2. \A e \in DomainID : Here(e)' => Here(e)
  BY <1>1 DEF Here
<1>3. TypeOK'
  BY <1>1, <1>2 DEF Typed, TypeOK, AliasHere
<1>4. DomainsKept
  BY <1>1, <1>2 DEF DomainsKept
<1> QED BY <1>3, <1>4, Frame

LEMMA TypedUpdateDomain ==
  ASSUME Typed, NEW r \in Request, UpdateDomain(r)
  PROVE  Typed'
<1> DEFINE d == call[r].id
<1>1. /\ TypeOK /\ Knows(r) /\ call[r].pc = "verified" /\ End(r)
      /\ UNCHANGED <<users, aliases, born, txt, proved>>
      /\ Update(d, TRUE, call[r].flag)
  BY DEF UpdateDomain, At, Typed
<1>2. d \in DomainID /\ call[r].flag \in BOOLEAN /\ resets' \in [DomainID -> Nat]
  <2>1. d \in DomainID /\ call[r].flag \in BOOLEAN
    BY <1>1 DEF Knows, KnowsName, TypeOK, Call
  <2> QED BY <1>1, <2>1 DEF UpdateDomain, TypeOK
<1>3. CASE ~Here(d)
  <2>1. resets' = resets
    BY <1>3 DEF UpdateDomain, Here, NoDomain
  <2> QED BY <1>1, <1>3, <2>1, EndOf, CallStep DEF Update
<1>4. CASE Here(d)
  <2> DEFINE row == [domains[d] EXCEPT !.verified = TRUE, !.ssl = call[r].flag]
  <2>1. domains[d] \in DomainRow
    BY <1>1, <1>2, <1>4, RowFacts
  <2>2. row \in DomainRow /\ row.user = domains[d].user /\ row.name = domains[d].name
        /\ row.verified
    BY <1>2, <2>1 DEF DomainRow
  <2>3. domains' = [domains EXCEPT ![d] = row]
    BY <1>1, <1>2, <1>4 DEF Update, TypeOK
  <2> QED BY <1>1, <1>2, <1>4, <2>2, <2>3, EndOf, TypedUpdate
<1> QED BY <1>3, <1>4

LEMMA TypedEnableSSL ==
  ASSUME Typed, NEW d \in DomainID, EnableSSL(d)
  PROVE  Typed'
<1> DEFINE row == [domains[d] EXCEPT !.ssl = TRUE]
<1>1. TypeOK /\ Here(d) /\ domains[d] \in DomainRow
  BY RowFacts DEF EnableSSL, Typed
<1>2. row \in DomainRow /\ row.user = domains[d].user /\ row.name = domains[d].name
      /\ row.verified = domains[d].verified
  BY <1>1 DEF DomainRow
<1>3. domains' = [domains EXCEPT ![d] = row] /\ call' = call
      /\ UNCHANGED <<users, aliases, born, txt, proved, resets>>
  BY DEF EnableSSL
<1> QED BY <1>1, <1>2, <1>3, TypedUpdate DEF TypeOK

(* Rows that go take their aliases with them.                               *)
LEMMA TypedCascade ==
  ASSUME Typed, NEW gone \in SUBSET DomainID,
         domains' = [d \in DomainID |-> IF d \in gone THEN NoDomain ELSE domains[d]],
         aliases' = AliasesWithout(gone), users' \subseteq users,
         UNCHANGED <<born, txt, proved, resets>>,
         call' \in [Request -> Call],
         \A r \in Request :
           call'[r] = call[r] \/ (Knows(r)' /\ call'[r].id \in born \cup {None})
  PROVE  Typed'
<1>1. /\ domains' \in [DomainID -> DomainRow \cup {NoDomain}]
      /\ aliases' \in [AliasID -> AliasRow \cup {NoAlias}]
  BY DEF Typed, TypeOK, AliasesWithout
<1>2. /\ \A d \in DomainID : Here(d)' => Here(d) /\ domains'[d] = domains[d]
      /\ \A a \in AliasID : AliasHere(a)' => AliasHere(a) /\ aliases'[a] = aliases[a]
  BY DEF Here, AliasHere, AliasesWithout
<1>3. TypeOK'
  BY <1>1, <1>2 DEF Typed, TypeOK
<1>4. DomainsKept
  BY <1>2 DEF DomainsKept
<1> QED BY <1>3, <1>4, Frame

LEMMA TypedRemoveDomain ==
  ASSUME Typed, NEW r \in Request, RemoveDomain(r)
  PROVE  Typed'
<1> DEFINE d == call[r].id
<1>1. /\ TypeOK /\ Knows(r) /\ call[r].pc = "removeDomain" /\ d \in DomainID
      /\ UNCHANGED <<users, born, txt, proved, resets>>
      /\ aliases' = AliasesWithout({d}) /\ End(r)
  BY DEF RemoveDomain, At, Typed, Knows, KnowsRow
<1>2. domains' = [e \in DomainID |-> IF e \in {d} THEN NoDomain ELSE domains[e]]
  BY <1>1 DEF RemoveDomain, TypeOK
<1>3. /\ call' \in [Request -> Call]
      /\ \A s \in Request :
           call'[s] = call[s] \/ (Knows(s)' /\ call'[s].id \in born \cup {None})
  BY <1>1, EndOf
<1> QED BY <1>1, <1>2, <1>3, TypedCascade

LEMMA TypedDeleteUser ==
  ASSUME Typed, NEW u \in User, DeleteUser(u)
  PROVE  Typed'
<1>1. /\ domains' = [d \in DomainID |-> IF d \in DomainsOf(u) THEN NoDomain ELSE domains[d]]
      /\ aliases' = AliasesWithout(DomainsOf(u)) /\ users' \subseteq users
      /\ UNCHANGED <<born, txt, proved, resets, call>>
  BY DEF DeleteUser, DomainsOf
<1>2. DomainsOf(u) \subseteq DomainID /\ call' \in [Request -> Call]
  BY <1>1 DEF DomainsOf, Typed, TypeOK
<1> QED BY <1>1, <1>2, TypedCascade

(* The steps that change the rows of aliases alone.                         *)
LEMMA TypedAliases ==
  ASSUME Typed, aliases' \in [AliasID -> AliasRow \cup {NoAlias}],
         born \subseteq born', born' \subseteq DomainID \cup AliasID,
         \A a \in AliasID : AliasHere(a)' => AliasHere(a) \/ a \in born',
         UNCHANGED <<users, domains, txt, proved, resets>>,
         call' \in [Request -> Call],
         \A r \in Request :
           call'[r] = call[r] \/ (Knows(r)' /\ call'[r].id \in born \cup {None})
  PROVE  Typed'
<1>1. TypeOK'
  BY DEF Typed, TypeOK, Here
<1>2. DomainsKept
  BY DEF DomainsKept, Here
<1> QED BY <1>1, <1>2, Frame

LEMMA TypedInsertAlias ==
  ASSUME Typed, NEW r \in Request, InsertAlias(r)
  PROVE  Typed'
<1> DEFINE d == call[r].id
           address == FullAddress(call[r].name, d)
<1>1. /\ TypeOK /\ Knows(r) /\ call[r].pc = "insertAlias" /\ End(r)
      /\ UNCHANGED <<users, domains, txt, proved, resets>>
  BY DEF InsertAlias, At, Typed
<1>2. CASE UNCHANGED <<aliases, born>>
  BY <1>1, <1>2, EndOf, CallStep
<1>3. ASSUME NEW a \in AliasID, AddAlias(a, call[r].user, d, address)
      PROVE  Typed'
  <2>1. d \in DomainID /\ Here(d) /\ call[r].user \in User /\ call[r].name \in Local
    BY <1>1, <1>3 DEF Knows, KnowsDomain, AddAlias
  <2>2. domains[d].name \in Name
    BY <1>1, <2>1, RowFacts DEF DomainRow
  <2> DEFINE row == [user |-> call[r].user, domain |-> d, address |-> address,
                     active |-> TRUE]
  <2>3. row \in AliasRow
    BY <2>1, <2>2 DEF AliasRow, FullAddress
  <2>4. aliases' = [aliases EXCEPT ![a] = row] /\ born' = born \cup {a}
    BY <1>3 DEF AddAlias
  <2>5. /\ aliases' \in [AliasID -> AliasRow \cup {NoAlias}]
        /\ \A b \in AliasID \ {a} : aliases'[b] = aliases[b]
    BY <1>1, <2>3, <2>4 DEF TypeOK
  <2>6. /\ born \subseteq born' /\ born' \subseteq DomainID \cup AliasID
        /\ \A b \in AliasID : AliasHere(b)' => AliasHere(b) \/ b \in born'
    BY <1>1, <2>4, <2>5 DEF TypeOK, AliasHere
  <2> QED BY <1>1, <2>5, <2>6, EndOf, TypedAliases
<1> QED BY <1>2, <1>3 DEF InsertAlias

LEMMA TypedWriteAlias ==
  ASSUME Typed, NEW r \in Request, WriteAlias(r)
  PROVE  Typed'
<1> DEFINE a == call[r].id
<1>1. /\ TypeOK /\ Knows(r) /\ call[r].pc = "writeAlias" /\ End(r)
      /\ UNCHANGED <<users, domains, born, txt, proved, resets>>
      /\ a \in AliasID /\ call[r].flag \in BOOLEAN
  BY DEF WriteAlias, At, Typed, Knows, KnowsRow, TypeOK, Call
<1>2. CASE ~AliasHere(a)
  BY <1>1, <1>2, EndOf, CallStep DEF WriteAlias
<1>3. CASE AliasHere(a)
  <2> DEFINE row == [aliases[a] EXCEPT !.active = call[r].flag]
  <2>1. row \in AliasRow
    BY <1>1, <1>3, RowFacts DEF AliasRow
  <2>2. aliases' = [aliases EXCEPT ![a] = row]
    BY <1>1, <1>3 DEF WriteAlias, TypeOK
  <2>3. /\ aliases' \in [AliasID -> AliasRow \cup {NoAlias}]
        /\ \A b \in AliasID : AliasHere(b)' => AliasHere(b)
    BY <1>1, <1>3, <2>1, <2>2 DEF TypeOK, AliasHere
  <2>4. born \subseteq born' /\ born' \subseteq DomainID \cup AliasID
    BY <1>1 DEF TypeOK
  <2> QED BY <1>1, <2>3, <2>4, EndOf, TypedAliases
<1> QED BY <1>2, <1>3

LEMMA TypedRemoveAlias ==
  ASSUME Typed, NEW r \in Request, RemoveAlias(r)
  PROVE  Typed'
<1> DEFINE a == call[r].id
<1>1. /\ TypeOK /\ Knows(r) /\ call[r].pc = "removeAlias" /\ a \in AliasID
      /\ UNCHANGED <<users, domains, born, txt, proved, resets>> /\ End(r)
  BY DEF RemoveAlias, At, Typed, Knows, KnowsRow
<1>2. /\ aliases' \in [AliasID -> AliasRow \cup {NoAlias}]
      /\ \A b \in AliasID : AliasHere(b)' => AliasHere(b)
  BY <1>1 DEF RemoveAlias, TypeOK, AliasHere
<1>3. born \subseteq born' /\ born' \subseteq DomainID \cup AliasID
  BY <1>1 DEF TypeOK
<1> QED BY <1>1, <1>2, <1>3, EndOf, TypedAliases

LEMMA TypedPublishToken ==
  ASSUME Typed, NEW d \in DomainID, NEW n \in Name, PublishToken(n, d)
  PROVE  Typed'
<1>1. TypeOK'
  BY DEF PublishToken, Typed, TypeOK, Here, AliasHere
<1>2. DomainsKept /\ call' = call
  BY DEF PublishToken, DomainsKept, Here
<1> QED BY <1>1, <1>2, Frame

LEMMA TypedNext == Typed /\ [Next]_vars => Typed'
<1> SUFFICES ASSUME Typed, [Next]_vars PROVE Typed'
  OBVIOUS
<1>1. ASSUME NEW r \in Request, NEW u \in User, DomainRoutes(r, u) PROVE Typed'
  BY <1>1, TypedCreateDomain, TypedVerifyDomain, TypedDeleteDomain DEF DomainRoutes
<1>2. ASSUME NEW r \in Request, NEW u \in User, AliasRoutes(r, u) PROVE Typed'
  <2>1. TRUE \in BOOLEAN
    OBVIOUS
  <2> QED BY <1>2, <2>1, TypedCreateAlias, TypedAliasRequest DEF AliasRoutes
<1>3. ASSUME NEW r \in Request, Step(r) PROVE Typed'
  BY <1>3, TypedInsertDomain, TypedCheckDNS, TypedUpdateDomain, TypedRemoveDomain,
     TypedInsertAlias, TypedWriteAlias, TypedRemoveAlias, TypedAbort
  DEF Step
<1>4. ASSUME NEW u \in User, DeleteUser(u) PROVE Typed'
  BY <1>4, TypedDeleteUser
<1>5. ASSUME NEW d \in DomainID, EnableSSL(d) PROVE Typed'
  BY <1>5, TypedEnableSSL
<1>6. ASSUME NEW d \in DomainID, NEW n \in Name, PublishToken(n, d) PROVE Typed'
  BY <1>6, TypedPublishToken
<1>7. CASE UNCHANGED vars
  <2>1. TypeOK' /\ DomainsKept /\ call' = call
    BY <1>7 DEF vars, Typed, TypeOK, DomainsKept, Here, AliasHere
  <2> QED BY <2>1, Frame
<1> QED BY <1>1, <1>2, <1>3, <1>4, <1>5, <1>6, <1>7 DEF Next

(* What requests hold is what it should be at each of their stages.         *)
THEOREM DomainsTyped == Spec => []Typed
BY TypedInit, TypedNext, PTL DEF Spec

(* Every row keeps its shape, also when a verification ends after its       *)
(* domain was deleted; the ID of every row, and of what a request works on, *)
(* was given to a row (domain/service.go:226, domain_repo.go:243-283).      *)
THEOREM DomainsTypes == Spec => []TypeOK
<1>1. Typed => TypeOK
  BY DEF Typed
<1> QED BY <1>1, DomainsTyped, PTL
-------------------------------------------------------------------------------
(* The requests that start read the tables only.                            *)
LEMMA Starts ==
  ASSUME TypeOK, NEW r \in Request, NEW u \in User, DomainRoutes(r, u) \/ AliasRoutes(r, u)
  PROVE  /\ UNCHANGED <<users, domains, aliases, born, txt, proved, resets>>
         /\ call[r].pc = "idle"
         /\ call'[r].pc \in {"insertDomain", "checkDNS", "removeDomain", "insertAlias",
                             "writeAlias", "removeAlias"}
         /\ \A s \in Request \ {r} : call'[s] = call[s]
<1> DEFINE Started(pc) == /\ call[r].pc = "idle" /\ call'[r].pc = pc
                          /\ \A s \in Request \ {r} : call'[s] = call[s]
<1>1. ASSUME NEW pc, NEW v, NEW id, NEW name, NEW flag, Start(r, pc, v, id, name, flag)
      PROVE  Started(pc)
  BY <1>1 DEF Start, At, TypeOK
<1>2. CASE DomainRoutes(r, u)
  BY <1>1, <1>2 DEF DomainRoutes, CreateDomain, VerifyDomain, DeleteDomain
<1>3. CASE AliasRoutes(r, u)
  BY <1>1, <1>3 DEF AliasRoutes, CreateAlias, UpdateAlias, DeleteAlias
<1> QED BY <1>2, <1>3

(* What can happen to a request at a step: it starts, ends, or goes on.     *)
LEMMA VerifiedFrame ==
  ASSUME Verified, txt' = txt, proved' = proved,
         \A d \in DomainID : domains'[d].verified => domains[d].verified \/ d \in proved,
         \A r \in Request : At(r, "verified")' =>
           (At(r, "verified") /\ call'[r].id = call[r].id) \/ call'[r].id \in proved
  PROVE  Verified'
BY DEF Verified, VerifiedOwnersControlTheZone, ZonesProve, CheckedIsProved

LEMMA VerifiedInit == Init => Verified
BY DEF Init, Verified, VerifiedOwnersControlTheZone, ZonesProve, CheckedIsProved, NoDomain,
       Idle, At

LEMMA VerifiedNext == Typed /\ Verified /\ [Next]_vars => Verified'
<1> SUFFICES ASSUME Typed, Verified, [Next]_vars PROVE Verified'
  OBVIOUS
<1> USE DEF Typed
<1>1. ASSUME NEW r \in Request, NEW u \in User, DomainRoutes(r, u) \/ AliasRoutes(r, u)
      PROVE  Verified'
  BY <1>1, Starts, VerifiedFrame DEF At
<1>2. ASSUME NEW r \in Request, CheckDNS(r) PROVE Verified'
  <2>1. CASE txt[call[r].name] = call[r].id /\ Goto(r, "verified")
    <3>1. call[r].id \in proved
      <4>1. call[r].name \in Name /\ call[r].id \in DomainID
        BY <1>2 DEF CheckDNS, At, Knows, KnowsName
      <4> QED BY <2>1, <4>1, RowFacts DEF Verified, ZonesProve
    <3> QED BY <1>2, <2>1, <3>1, GotoOf, VerifiedFrame DEF CheckDNS, At, PCs
  <2>2. CASE End(r)
    BY <1>2, <2>2, EndOf, VerifiedFrame DEF CheckDNS, At, Idle
  <2> QED BY <1>2, <2>1, <2>2 DEF CheckDNS
<1>3. ASSUME NEW r \in Request, InsertDomain(r) PROVE Verified'
  <2>1. \A d \in DomainID : domains'[d].verified => domains[d].verified
    BY <1>3 DEF InsertDomain, AddDomain, TypeOK
  <2> QED BY <1>3, <2>1, EndOf, VerifiedFrame DEF InsertDomain, At, Idle
<1>4. ASSUME NEW r \in Request, UpdateDomain(r) PROVE Verified'
  <2>1. call[r].id \in proved
    BY <1>4 DEF UpdateDomain, Verified, CheckedIsProved
  <2>2. \A d \in DomainID : domains'[d].verified => domains[d].verified \/ d \in proved
    BY <1>4, <2>1 DEF UpdateDomain, Update, TypeOK
  <2> QED BY <1>4, <2>2, EndOf, VerifiedFrame DEF UpdateDomain, At, Idle
<1>5. ASSUME NEW r \in Request, RemoveDomain(r) PROVE Verified'
  <2>1. \A d \in DomainID : domains'[d].verified => domains[d].verified
    BY <1>5 DEF RemoveDomain, NoDomain, TypeOK
  <2> QED BY <1>5, <2>1, EndOf, VerifiedFrame DEF RemoveDomain, At, Idle
<1>6. ASSUME NEW r \in Request, InsertAlias(r) \/ WriteAlias(r) PROVE Verified'
  BY <1>6, EndOf, VerifiedFrame DEF InsertAlias, WriteAlias, At, Idle
<1>7. ASSUME NEW r \in Request, RemoveAlias(r) \/ Abort(r) PROVE Verified'
  BY <1>7, EndOf, VerifiedFrame DEF RemoveAlias, Abort, At, Idle
<1>9. ASSUME NEW u \in User, DeleteUser(u) PROVE Verified'
  BY <1>9, VerifiedFrame DEF DeleteUser, At, NoDomain
<1>10. ASSUME NEW d \in DomainID, EnableSSL(d) PROVE Verified'
  BY <1>10, VerifiedFrame DEF EnableSSL, At, TypeOK
<1>11. ASSUME NEW d \in DomainID, NEW n \in Name, PublishToken(n, d) PROVE Verified'
  BY <1>11 DEF PublishToken, Verified, VerifiedOwnersControlTheZone, ZonesProve,
               CheckedIsProved, At, TypeOK
<1>12. CASE UNCHANGED vars
  BY <1>12, VerifiedFrame DEF vars, At
<1> QED BY <1>1, <1>2, <1>3, <1>4, <1>5, <1>6, <1>7, <1>9, <1>10, <1>11, <1>12
        DEF Next, Step

(* No domain is verified whose own token its zone has never published, and  *)
(* that for any number of users who delete, register and verify one name.   *)
THEOREM VerifiedByZone == Spec => []VerifiedOwnersControlTheZone
<1>1. Verified => VerifiedOwnersControlTheZone
  BY DEF Verified
<1> QED BY <1>1, VerifiedInit, VerifiedNext, DomainsTyped, PTL DEF Spec
-------------------------------------------------------------------------------
(* An alias in the table a is right when its domain in the table d is that  *)
(* of its owner.                                                            *)
Follows(alias, domain) ==
  domain.verified /\ domain.user = alias.user /\ domain.name = alias.address[2]

LEMMA AliasesFrame ==
  ASSUME TypeOK, AliasesFollowTheirDomain,
         \A a \in AliasID : AliasHere(a)' =>
           \/ Follows(aliases'[a], domains'[aliases'[a].domain])
           \/ /\ AliasHere(a)
              /\ aliases'[a].domain = aliases[a].domain
              /\ aliases'[a].user = aliases[a].user
              /\ aliases'[a].address = aliases[a].address
              /\ LET d == aliases[a].domain
                 IN  d \in DomainID /\ Here(d) =>
                       /\ domains'[d].user = domains[d].user
                       /\ domains'[d].name = domains[d].name
                       /\ domains[d].verified => domains'[d].verified
  PROVE  AliasesFollowTheirDomain'
<1> SUFFICES ASSUME NEW a \in AliasID, AliasHere(a)'
             PROVE  Follows(aliases'[a], domains'[aliases'[a].domain])
  BY DEF AliasesFollowTheirDomain, Follows
<1>1. CASE Follows(aliases'[a], domains'[aliases'[a].domain])
  BY <1>1
<1>2. CASE ~Follows(aliases'[a], domains'[aliases'[a].domain])
  <2> DEFINE d == aliases[a].domain
  <2>1. AliasHere(a) /\ d \in DomainID
    BY <1>2, RowFacts DEF AliasRow
  <2>2. domains[d].verified /\ domains[d].user = aliases[a].user
        /\ domains[d].name = aliases[a].address[2]
    BY <2>1 DEF AliasesFollowTheirDomain
  <2>3. Here(d)
    BY <2>1, <2>2, RowFacts
  <2> QED BY <1>2, <2>1, <2>2, <2>3 DEF Follows
<1> QED BY <1>1, <1>2

LEMMA AliasesInit == Init => AliasesFollowTheirDomain
BY DEF Init, AliasesFollowTheirDomain, AliasHere

LEMMA AliasesNext == Typed /\ AliasesFollowTheirDomain /\ [Next]_vars
                       => AliasesFollowTheirDomain'
<1> SUFFICES ASSUME Typed, AliasesFollowTheirDomain, [Next]_vars
             PROVE  AliasesFollowTheirDomain'
  OBVIOUS
<1> USE DEF Typed
<1>0. ASSUME UNCHANGED <<domains, aliases>> PROVE AliasesFollowTheirDomain'
  BY <1>0, AliasesFrame DEF AliasHere
<1>1. ASSUME NEW r \in Request, NEW u \in User, DomainRoutes(r, u) \/ AliasRoutes(r, u)
      PROVE  AliasesFollowTheirDomain'
  BY <1>0, <1>1, Starts
<1>2. ASSUME NEW r \in Request, CheckDNS(r) \/ Abort(r)
      PROVE  AliasesFollowTheirDomain'
  BY <1>0, <1>2 DEF CheckDNS, Abort
<1>3. ASSUME NEW r \in Request, InsertDomain(r) PROVE AliasesFollowTheirDomain'
  <2>1. \A d \in DomainID : d \in born => domains'[d] = domains[d]
    BY <1>3 DEF InsertDomain, AddDomain, TypeOK
  <2>2. \A d \in DomainID : Here(d) => d \in born
    BY DEF TypeOK
  <2> QED BY <1>3, <2>1, <2>2, AliasesFrame DEF InsertDomain, AliasHere
<1>4. ASSUME NEW r \in Request, UpdateDomain(r) PROVE AliasesFollowTheirDomain'
  <2>1. \A d \in DomainID : Here(d) => domains[d] \in DomainRow
    BY RowFacts
  <2>2. \A d \in DomainID : Here(d) =>
          /\ domains'[d].user = domains[d].user /\ domains'[d].name = domains[d].name
          /\ domains[d].verified => domains'[d].verified
    BY <1>4, <2>1 DEF UpdateDomain, Update, TypeOK, DomainRow
  <2> QED BY <1>4, <2>2, AliasesFrame DEF UpdateDomain, AliasHere
<1>5. ASSUME NEW d \in DomainID, EnableSSL(d) PROVE AliasesFollowTheirDomain'
  <2>1. \A e \in DomainID : Here(e) => domains[e] \in DomainRow
    BY RowFacts
  <2>2. \A e \in DomainID : Here(e) =>
          /\ domains'[e].user = domains[e].user /\ domains'[e].name = domains[e].name
          /\ domains[e].verified => domains'[e].verified
    BY <1>5, <2>1 DEF EnableSSL, TypeOK, DomainRow
  <2> QED BY <1>5, <2>2, AliasesFrame DEF EnableSSL, AliasHere
<1>6. ASSUME NEW gone \in SUBSET DomainID,
             domains' = [d \in DomainID |-> IF d \in gone THEN NoDomain ELSE domains[d]],
             aliases' = AliasesWithout(gone)
      PROVE  AliasesFollowTheirDomain'
  <2>1. \A a \in AliasID : AliasHere(a)' =>
          /\ AliasHere(a) /\ aliases'[a] = aliases[a] /\ aliases[a].domain \notin gone
    BY <1>6 DEF AliasHere, AliasesWithout
  <2>2. \A d \in DomainID : d \notin gone => domains'[d] = domains[d]
    BY <1>6
  <2> QED BY <2>1, <2>2, AliasesFrame
<1>7. ASSUME NEW r \in Request, RemoveDomain(r) PROVE AliasesFollowTheirDomain'
  <2>1. call[r].id \in DomainID
    BY <1>7 DEF RemoveDomain, At, Knows, KnowsRow
  <2> DEFINE gone == {call[r].id}
  <2>2. /\ gone \in SUBSET DomainID
        /\ domains' = [d \in DomainID |-> IF d \in gone THEN NoDomain ELSE domains[d]]
        /\ aliases' = AliasesWithout(gone)
    BY <1>7, <2>1 DEF RemoveDomain, TypeOK
  <2> QED BY <1>6, <2>2
<1>8. ASSUME NEW u \in User, DeleteUser(u) PROVE AliasesFollowTheirDomain'
  <2> DEFINE gone == DomainsOf(u)
  <2>1. /\ gone \in SUBSET DomainID
        /\ domains' = [d \in DomainID |-> IF d \in gone THEN NoDomain ELSE domains[d]]
        /\ aliases' = AliasesWithout(gone)
    BY <1>8 DEF DeleteUser, DomainsOf
  <2> QED BY <1>6, <2>1
<1>9. ASSUME NEW r \in Request, InsertAlias(r) PROVE AliasesFollowTheirDomain'
  <2> DEFINE d == call[r].id
             address == FullAddress(call[r].name, d)
  <2>1. CASE UNCHANGED aliases
    BY <1>0, <1>9, <2>1 DEF InsertAlias
  <2>2. ASSUME NEW a \in AliasID, AddAlias(a, call[r].user, d, address)
        PROVE  AliasesFollowTheirDomain'
    <3>1. domains[d].verified /\ domains[d].user = call[r].user
      BY <1>9, <2>2 DEF InsertAlias, At, AddAlias, Knows, KnowsDomain
    <3>2. /\ aliases'[a].domain = d /\ aliases'[a].user = call[r].user
          /\ aliases'[a].address[2] = domains[d].name
          /\ \A b \in AliasID \ {a} : aliases'[b] = aliases[b]
      BY <2>2 DEF AddAlias, FullAddress, TypeOK
    <3>3. Follows(aliases'[a], domains'[aliases'[a].domain])
      BY <1>9, <3>1, <3>2 DEF Follows, InsertAlias
    <3> QED BY <1>9, <3>2, <3>3, AliasesFrame DEF InsertAlias, AliasHere
  <2> QED BY <1>9, <2>1, <2>2 DEF InsertAlias
<1>10. ASSUME NEW r \in Request, WriteAlias(r) PROVE AliasesFollowTheirDomain'
  <2>1. \A a \in AliasID : AliasHere(a) => aliases[a] \in AliasRow
    BY RowFacts
  <2>2. \A a \in AliasID : AliasHere(a)' =>
          /\ AliasHere(a) /\ aliases'[a].domain = aliases[a].domain
          /\ aliases'[a].user = aliases[a].user /\ aliases'[a].address = aliases[a].address
    BY <1>10, <2>1 DEF WriteAlias, TypeOK, AliasRow, AliasHere
  <2> QED BY <1>10, <2>2, AliasesFrame DEF WriteAlias
<1>11. ASSUME NEW r \in Request, RemoveAlias(r) PROVE AliasesFollowTheirDomain'
  <2>1. \A a \in AliasID : AliasHere(a)' => AliasHere(a) /\ aliases'[a] = aliases[a]
    BY <1>11 DEF RemoveAlias, TypeOK, AliasHere
  <2> QED BY <1>11, <2>1, AliasesFrame DEF RemoveAlias
<1>12. ASSUME NEW d \in DomainID, NEW n \in Name, PublishToken(n, d)
       PROVE  AliasesFollowTheirDomain'
  BY <1>0, <1>12 DEF PublishToken
<1>13. CASE UNCHANGED vars
  BY <1>0, <1>13 DEF vars
<1> QED BY <1>1, <1>2, <1>3, <1>4, <1>5, <1>7, <1>8, <1>9, <1>10, <1>11, <1>12, <1>13
        DEF Next, Step

(* Mail is accepted for the addresses of verified domains of their owners   *)
(* only, whatever is deleted between the checks of a request and its insert.*)
THEOREM AliasesFollow == Spec => []AliasesFollowTheirDomain
BY AliasesInit, AliasesNext, DomainsTyped, PTL DEF Spec
-------------------------------------------------------------------------------
(* No verification starts.                                                  *)
NoneVerifies == \A d \in DomainID : Verifying(d)' \subseteq Verifying(d)

(* The row of d is written by nobody, removed, or a new one.                *)
RowKept(d) ==
  /\ resets'[d] = resets[d] /\ (d \in born => d \in born')
  /\ domains'[d].ssl => domains'[d].verified
  /\ domains'[d].verified => domains[d].verified
  /\ Here(d)' => d \notin born \/ (Here(d) /\ (domains[d].verified => domains'[d].verified))

LEMMA VerifyingIsFinite ==
  ASSUME NEW d
  PROVE  /\ Verifying(d) \subseteq Request /\ IsFiniteSet(Verifying(d))
         /\ Cardinality(Verifying(d)) \in Nat /\ Cardinality(Request) \in Nat
<1>1. Verifying(d) \subseteq Request
  BY DEF Verifying
<1> QED BY <1>1, FS_Subset, FS_CardinalityType, DomainsAssumption

LEMMA RaceKept ==
  ASSUME Typed, Races, NEW d \in DomainID, Verifying(d)' \subseteq Verifying(d), RowKept(d)
  PROVE  Race(d)'
<1>1. Race(d) /\ resets[d] \in Nat
  BY DEF Races, Typed, TypeOK
<1>2. FewResets(d) => FewResets(d)'
  <2>1. /\ Cardinality(Verifying(d)') <= Cardinality(Verifying(d))
        /\ Cardinality(Verifying(d)') \in Nat
    BY VerifyingIsFinite, FS_Subset, FS_CardinalityType
  <2>2. resets'[d] = resets[d] /\ Cardinality(Verifying(d)) \in Nat /\ Cardinality(Request) \in Nat
    BY VerifyingIsFinite DEF RowKept
  <2> QED BY <1>1, <2>1, <2>2 DEF FewResets
<1> QED BY <1>1, <1>2 DEF Race, RowKept

LEMMA RacesKept ==
  ASSUME Typed, Races, NoneVerifies, UNCHANGED <<domains, born, resets>>
  PROVE  Races'
<1> SUFFICES ASSUME NEW d \in DomainID PROVE Race(d)'
  BY DEF Races
<1>1. RowKept(d)
  BY DEF RowKept, Races, Race, Here
<1> QED BY <1>1, RaceKept DEF NoneVerifies

LEMMA EndVerifies ==
  ASSUME TypeOK, NEW r \in Request, End(r)
  PROVE  NoneVerifies /\ \A d : r \notin Verifying(d)'
BY EndOf DEF NoneVerifies, Verifying, Idle

(* A verification starts while there is nothing to take back.               *)
LEMMA RacesVerify ==
  ASSUME Typed, Races, NEW r \in Request, NEW u \in User, NEW d \in DomainID,
         VerifyDomain(r, u, d)
  PROVE  Races'
<1>1. /\ UNCHANGED <<domains, born, resets>> /\ call'[r].id = d
      /\ \A s \in Request \ {r} : call'[s] = call[s]
      /\ domains[d].user = u /\ ~domains[d].verified
  BY DEF VerifyDomain, Start, At, Typed, TypeOK
<1>2. ASSUME NEW e \in DomainID, e # d PROVE Race(e)'
  <2>1. Verifying(e)' \subseteq Verifying(e)
    BY <1>1, <1>2 DEF Verifying
  <2>2. RowKept(e)
    BY <1>1 DEF RowKept, Races, Race, Here
  <2> QED BY <2>1, <2>2, RaceKept
<1>3. Race(d)'
  <2>1. Here(d)
    BY <1>1, RowFacts DEF Typed
  <2> QED BY <1>1, <2>1 DEF Races, Race, Here
<1> QED BY <1>2, <1>3 DEF Races

(* A verification writes the row: the first one of a domain takes nothing   *)
(* back and is no longer among those that may.                              *)
LEMMA RacesUpdate ==
  ASSUME Typed, Races, NEW r \in Request, UpdateDomain(r)
  PROVE  Races'
<1>0. PICK d \in DomainID : d = call[r].id
  BY DEF UpdateDomain, At, Typed, Knows, KnowsName
<1>1. /\ TypeOK /\ End(r) /\ UNCHANGED born /\ Update(d, TRUE, call[r].flag)
      /\ r \in Verifying(d) /\ Race(d) /\ resets[d] \in Nat
  BY <1>0 DEF UpdateDomain, At, Typed, TypeOK, Verifying, Races
<1>2. NoneVerifies /\ r \notin Verifying(d)'
  BY <1>1, EndVerifies
<1>3. ASSUME NEW e \in DomainID, e # d \/ ~Here(d)
      PROVE  Race(e)'
  <2>1. domains'[e] = domains[e] /\ resets'[e] = resets[e]
    <3>1. domains'[e] = domains[e]
      BY <1>1, <1>3 DEF Update, TypeOK
    <3>2. ~Here(d) => ~domains[d].ssl
      BY DEF Here, NoDomain
    <3>3. resets'[e] = resets[e]
      BY <1>0, <1>1, <1>3, <3>2 DEF UpdateDomain, TypeOK
    <3> QED BY <3>1, <3>3
  <2>2. RowKept(e)
    BY <1>1, <2>1 DEF RowKept, Races, Race, Here
  <2> QED BY <1>2, <2>2, RaceKept DEF NoneVerifies
<1>4. CASE Here(d)
  <2> DEFINE V == Verifying(d)
             W == Verifying(d)'
  <2>1. domains'[d].verified /\ d \in born'
    <3>1. d \in born
      BY <1>1, <1>4 DEF TypeOK
    <3>2. domains[d] \in DomainRow
      BY <1>1, <1>4, RowFacts
    <3> QED BY <1>1, <1>4, <3>1, <3>2 DEF Update, TypeOK, DomainRow
  <2>2. /\ W \subseteq V \ {r} /\ V \ {r} \subseteq Request \ {r}
    BY <1>1, <1>2 DEF NoneVerifies, Verifying
  <2>3. /\ Cardinality(W) <= Cardinality(V) - 1 /\ Cardinality(W) <= Cardinality(Request) - 1
        /\ Cardinality(W) \in Nat /\ Cardinality(V) \in Nat /\ Cardinality(Request) \in Nat
    <3>1. /\ Cardinality(V \ {r}) = Cardinality(V) - 1
          /\ Cardinality(Request \ {r}) = Cardinality(Request) - 1
          /\ IsFiniteSet(V \ {r}) /\ IsFiniteSet(Request \ {r})
      BY <1>1, VerifyingIsFinite, FS_RemoveElement, DomainsAssumption
    <3>2. /\ Cardinality(W) <= Cardinality(V \ {r})
          /\ Cardinality(W) <= Cardinality(Request \ {r})
          /\ IsFiniteSet(W)
      <4>1. W \subseteq Request \ {r}
        BY <2>2
      <4> QED BY <2>2, <3>1, <4>1, FS_Subset
    <3> QED BY <3>1, <3>2, VerifyingIsFinite, FS_CardinalityType
  <2>4. /\ resets'[d] \in {resets[d], resets[d] + 1}
        /\ ~domains[d].ssl => resets'[d] = resets[d]
    BY <1>0, <1>1 DEF UpdateDomain, TypeOK
  <2> HIDE DEF V, W
  <2>5. resets'[d] + Cardinality(W) < Cardinality(Request)
    <3>1. CASE domains[d].verified
      <4>1. resets[d] + Cardinality(V) < Cardinality(Request)
        BY <1>1, <3>1 DEF Race, FewResets, V
      <4> QED BY <1>1, <2>3, <2>4, <4>1
    <3>2. CASE ~domains[d].verified
      <4>1. resets[d] = 0 /\ ~domains[d].ssl
        BY <1>1, <1>4, <3>2 DEF Race
      <4> QED BY <2>3, <2>4, <4>1
    <3> QED BY <3>1, <3>2
  <2>6. FewResets(d)'
    BY <2>5 DEF FewResets, W
  <2>7. Race(d)'
    BY <2>1, <2>6 DEF Race
  <2> QED BY <1>3, <2>7 DEF Races
<1> QED BY <1>3, <1>4 DEF Races

LEMMA RacesInit == Init => Races
BY DEF Init, Races, Race, NoDomain, Here

LEMMA RacesNext == Typed /\ Races /\ [Next]_vars => Races'
<1> SUFFICES ASSUME Typed, Races, [Next]_vars PROVE Races'
  OBVIOUS
<1> USE DEF Typed
<1>1. ASSUME NEW r \in Request, NEW u \in User, DomainRoutes(r, u) \/ AliasRoutes(r, u)
      PROVE  Races'
  <2>1. CASE \E d \in DomainID : VerifyDomain(r, u, d)
    BY <2>1, RacesVerify
  <2>2. CASE ~\E d \in DomainID : VerifyDomain(r, u, d)
    <3>1. /\ UNCHANGED <<domains, born, resets>>
          /\ call'[r].pc \in {"insertDomain", "removeDomain", "insertAlias", "writeAlias",
                              "removeAlias"}
          /\ \A s \in Request \ {r} : call'[s] = call[s]
      BY <1>1, <2>2 DEF DomainRoutes, AliasRoutes, CreateDomain, DeleteDomain, CreateAlias,
                        UpdateAlias, DeleteAlias, Start, At, TypeOK
    <3>2. NoneVerifies
      BY <3>1 DEF NoneVerifies, Verifying
    <3> QED BY <3>1, <3>2, RacesKept
  <2> QED BY <2>1, <2>2
<1>2. ASSUME NEW r \in Request, CheckDNS(r) PROVE Races'
  <2>1. NoneVerifies
    <3>1. CASE Goto(r, "verified")
      BY <1>2, <3>1, GotoOf DEF CheckDNS, At, NoneVerifies, Verifying, PCs
    <3>2. CASE End(r)
      BY <3>2, EndVerifies
    <3> QED BY <1>2, <3>1, <3>2 DEF CheckDNS
  <2> QED BY <1>2, <2>1, RacesKept DEF CheckDNS
<1>3. ASSUME NEW r \in Request, InsertDomain(r) PROVE Races'
  <2>1. NoneVerifies
    BY <1>3, EndVerifies DEF InsertDomain
  <2> SUFFICES ASSUME NEW d \in DomainID PROVE RowKept(d)
    BY <2>1, RaceKept DEF Races, NoneVerifies
  <2>2. CASE UNCHANGED <<domains, born>>
    BY <1>3, <2>2 DEF InsertDomain, RowKept, Races, Race, Here
  <2>3. ASSUME NEW e \in DomainID, AddDomain(e, call[r].user, call[r].name)
        PROVE  RowKept(d)
    BY <1>3, <2>3 DEF InsertDomain, AddDomain, RowKept, Races, Race, Here, TypeOK
  <2> QED BY <1>3, <2>2, <2>3 DEF InsertDomain
<1>4. ASSUME NEW r \in Request, UpdateDomain(r) PROVE Races'
  BY <1>4, RacesUpdate
<1>5. ASSUME NEW gone \in SUBSET DomainID, NoneVerifies, UNCHANGED <<born, resets>>,
             domains' = [d \in DomainID |-> IF d \in gone THEN NoDomain ELSE domains[d]]
      PROVE  Races'
  <2> SUFFICES ASSUME NEW d \in DomainID PROVE RowKept(d)
    BY <1>5, RaceKept DEF Races, NoneVerifies
  <2> QED BY <1>5 DEF RowKept, Races, Race, Here, NoDomain
<1>6. ASSUME NEW r \in Request, RemoveDomain(r) PROVE Races'
  <2> DEFINE gone == {call[r].id}
  <2>1. gone \in SUBSET DomainID /\ NoneVerifies /\ UNCHANGED <<born, resets>>
    BY <1>6, EndVerifies DEF RemoveDomain, At, Knows, KnowsRow
  <2>2. domains' = [d \in DomainID |-> IF d \in gone THEN NoDomain ELSE domains[d]]
    BY <1>6, <2>1 DEF RemoveDomain, TypeOK
  <2> QED BY <1>5, <2>1, <2>2
<1>7. ASSUME NEW u \in User, DeleteUser(u) PROVE Races'
  <2> DEFINE gone == DomainsOf(u)
  <2>1. /\ gone \in SUBSET DomainID /\ NoneVerifies /\ UNCHANGED <<born, resets>>
        /\ domains' = [d \in DomainID |-> IF d \in gone THEN NoDomain ELSE domains[d]]
    BY <1>7 DEF DeleteUser, DomainsOf, NoneVerifies, Verifying
  <2> QED BY <1>5, <2>1
<1>8. ASSUME NEW d \in DomainID, EnableSSL(d) PROVE Races'
  <2>1. NoneVerifies
    BY <1>8 DEF EnableSSL, NoneVerifies, Verifying
  <2>2. Here(d) /\ domains[d] \in DomainRow
    BY <1>8, RowFacts DEF EnableSSL
  <2> SUFFICES ASSUME NEW e \in DomainID PROVE RowKept(e)
    BY <2>1, RaceKept DEF Races, NoneVerifies
  <2>3. /\ domains'[e].verified = domains[e].verified
        /\ domains'[e].ssl => domains'[e].verified
        /\ Here(e)' => Here(e)
    <3>1. CASE e = d
      BY <1>8, <2>2, <3>1 DEF EnableSSL, TypeOK, DomainRow
    <3>2. CASE e # d
      BY <1>8, <3>2 DEF EnableSSL, TypeOK, Races, Race, Here
    <3> QED BY <3>1, <3>2
  <2> QED BY <1>8, <2>3 DEF EnableSSL, RowKept
<1>9. ASSUME NEW r \in Request, InsertAlias(r) \/ WriteAlias(r) \/ RemoveAlias(r) \/ Abort(r)
      PROVE  Races'
  <2>1. NoneVerifies /\ UNCHANGED <<domains, resets>>
    BY <1>9, EndVerifies DEF InsertAlias, WriteAlias, RemoveAlias, Abort
  <2>2. \A d \in DomainID : d \in born => d \in born'
    BY <1>9 DEF InsertAlias, AddAlias, WriteAlias, RemoveAlias, Abort
  <2> SUFFICES ASSUME NEW d \in DomainID PROVE RowKept(d)
    BY <2>1, RaceKept DEF Races, NoneVerifies
  <2> QED BY <2>1, <2>2 DEF RowKept, Races, Race, Here
<1>10. ASSUME NEW d \in DomainID, NEW n \in Name, PublishToken(n, d) PROVE Races'
  BY <1>10, RacesKept DEF PublishToken, NoneVerifies, Verifying
<1>11. CASE UNCHANGED vars
  BY <1>11, RacesKept DEF vars, NoneVerifies, Verifying
<1> QED BY <1>1, <1>2, <1>3, <1>4, <1>6, <1>7, <1>8, <1>9, <1>10, <1>11 DEF Next, Step

(* A verification that writes back an old row takes ssl_enabled back only   *)
(* when it raced the one that verified the domain (domain/service.go:226),  *)
(* for any number of requests, certificates and deletions.                  *)
THEOREM SSLResetsAreRaces == Spec => []SSLIsResetOnlyByRaces
<1>1. Typed /\ Races => SSLIsResetOnlyByRaces
  <2> SUFFICES ASSUME Typed, Races, NEW d \in DomainID
               PROVE  resets[d] < Cardinality(Request)
    BY DEF SSLIsResetOnlyByRaces
  <2>1. Race(d) /\ resets[d] \in Nat
    BY DEF Races, Typed, TypeOK
  <2>2. Cardinality(Verifying(d)) \in Nat /\ Cardinality(Request) \in Nat /\ Cardinality(Request) # 0
    BY VerifyingIsFinite, FS_EmptySet, DomainsAssumption
  <2> QED BY <2>1, <2>2 DEF Race, FewResets
<1> QED BY <1>1, RacesInit, RacesNext, DomainsTyped, PTL DEF Spec
-------------------------------------------------------------------------------
(* Rows D of a user within limit n, with the requests I that still insert.  *)
Bound(D, I, n) == Cardinality(D) + Cardinality(I) <= n - 1 + Cardinality(Request)
Inserting(pc, u) == {r \in Request : At(r, pc) /\ call[r].user = u}

LEMMA LimitsAsBounds ==
  LimitsHoldUpToRaces <=>
    \A u \in User : /\ Bound(DomainsOf(u), Inserting("insertDomain", u), DomainLimit)
                    /\ Bound(AliasesOf(u), Inserting("insertAlias", u), AliasLimit)
BY DEF LimitsHoldUpToRaces, Bound, Inserting

LEMMA FiniteParts ==
  ASSUME NEW u
  PROVE  /\ IsFiniteSet(DomainsOf(u)) /\ IsFiniteSet(AliasesOf(u))
         /\ \A pc : IsFiniteSet(Inserting(pc, u)) /\ Inserting(pc, u) \subseteq Request
<1>1. DomainsOf(u) \subseteq DomainID /\ AliasesOf(u) \subseteq AliasID
      /\ \A pc : Inserting(pc, u) \subseteq Request
  BY DEF DomainsOf, AliasesOf, Inserting
<1> QED BY <1>1, FS_Subset, DomainsAssumption

LEMMA BoundShrinks ==
  ASSUME NEW D, NEW I, NEW E, NEW J, NEW n \in Nat, IsFiniteSet(D), IsFiniteSet(I),
         E \subseteq D, J \subseteq I, Bound(D, I, n)
  PROVE  Bound(E, J, n)
<1>1. /\ Cardinality(E) <= Cardinality(D) /\ Cardinality(J) <= Cardinality(I)
      /\ IsFiniteSet(E) /\ IsFiniteSet(J)
  BY FS_Subset
<1>2. /\ Cardinality(D) \in Nat /\ Cardinality(I) \in Nat /\ Cardinality(E) \in Nat
      /\ Cardinality(J) \in Nat /\ Cardinality(Request) \in Nat
  BY <1>1, FS_CardinalityType, DomainsAssumption
<1> QED BY <1>1, <1>2 DEF Bound

(* A request that has found a free place starts.                            *)
LEMMA BoundStarts ==
  ASSUME NEW D, NEW J, NEW n \in Nat, IsFiniteSet(D), J \subseteq Request,
         Cardinality(D) < n
  PROVE  Bound(D, J, n)
<1>1. Cardinality(J) <= Cardinality(Request) /\ IsFiniteSet(J)
  BY FS_Subset, DomainsAssumption
<1>2. /\ Cardinality(D) \in Nat /\ Cardinality(J) \in Nat /\ Cardinality(Request) \in Nat
  BY <1>1, FS_CardinalityType, DomainsAssumption
<1> QED BY <1>1, <1>2 DEF Bound

(* A request makes its row and ends.                                        *)
LEMMA BoundMoves ==
  ASSUME NEW D, NEW I, NEW n \in Nat, IsFiniteSet(D), IsFiniteSet(I), NEW d, NEW r \in I,
         Bound(D, I, n)
  PROVE  Bound(D \cup {d}, I \ {r}, n)
<1>1. /\ Cardinality(D \cup {d}) \in {Cardinality(D), Cardinality(D) + 1}
      /\ Cardinality(I \ {r}) = Cardinality(I) - 1
  BY FS_AddElement, FS_RemoveElement
<1>2. /\ Cardinality(D) \in Nat /\ Cardinality(I) \in Nat /\ Cardinality(Request) \in Nat
  BY FS_CardinalityType, DomainsAssumption
<1> QED BY <1>1, <1>2 DEF Bound

(* No row gets another owner, and no request starts.                        *)
OwnersKept ==
  \A u \in User :
    /\ \A d \in DomainID : domains'[d].user = u => domains[d].user = u
    /\ \A a \in AliasID : aliases'[a].user = u => aliases[a].user = u

NoneStarts(pc) ==
  \A r \in Request : At(r, pc)' => At(r, pc) /\ call'[r].user = call[r].user

LEMMA LimitsFrame ==
  ASSUME LimitsHoldUpToRaces, OwnersKept, NoneStarts("insertDomain"), NoneStarts("insertAlias")
  PROVE  LimitsHoldUpToRaces'
<1> SUFFICES ASSUME NEW u \in User
             PROVE  /\ Bound(DomainsOf(u), Inserting("insertDomain", u), DomainLimit)'
                    /\ Bound(AliasesOf(u), Inserting("insertAlias", u), AliasLimit)'
  BY DEF LimitsHoldUpToRaces, Bound, Inserting
<1>1. DomainsOf(u)' \subseteq DomainsOf(u) /\ AliasesOf(u)' \subseteq AliasesOf(u)
  BY DEF OwnersKept, DomainsOf, AliasesOf
<1>2. ASSUME NEW pc, NoneStarts(pc) PROVE Inserting(pc, u)' \subseteq Inserting(pc, u)
  BY <1>2 DEF NoneStarts, Inserting
<1>3. DomainLimit \in Nat /\ AliasLimit \in Nat
  BY DomainsAssumption
<1>4. Bound(DomainsOf(u)', Inserting("insertDomain", u)', DomainLimit)
  BY <1>1, <1>2, <1>3, FiniteParts, LimitsAsBounds, BoundShrinks
<1>5. Bound(AliasesOf(u)', Inserting("insertAlias", u)', AliasLimit)
  BY <1>1, <1>2, <1>3, FiniteParts, LimitsAsBounds, BoundShrinks
<1> QED BY <1>4, <1>5 DEF Bound

LEMMA LimitsInit == Init => LimitsHoldUpToRaces
<1> SUFFICES ASSUME Init, NEW u \in User
             PROVE  /\ Bound(DomainsOf(u), Inserting("insertDomain", u), DomainLimit)
                    /\ Bound(AliasesOf(u), Inserting("insertAlias", u), AliasLimit)
  BY LimitsAsBounds
<1>1. DomainsOf(u) = {} /\ AliasesOf(u) = {}
  BY DomainsAssumption DEF Init, DomainsOf, AliasesOf, NoDomain, NoAlias
<1>2. Cardinality({}) = 0 /\ IsFiniteSet({})
  BY FS_EmptySet
<1>3. DomainLimit \in Nat /\ DomainLimit > 0 /\ AliasLimit \in Nat /\ AliasLimit > 0
  BY DomainsAssumption
<1> QED BY <1>1, <1>2, <1>3, FiniteParts, BoundStarts

LEMMA LimitsNext == Typed /\ LimitsHoldUpToRaces /\ [Next]_vars => LimitsHoldUpToRaces'
<1> SUFFICES ASSUME Typed, LimitsHoldUpToRaces, [Next]_vars PROVE LimitsHoldUpToRaces'
  OBVIOUS
<1> USE DEF Typed
<1>0. DomainLimit \in Nat /\ AliasLimit \in Nat
  BY DomainsAssumption
<1>1. ASSUME NEW r \in Request, NEW v \in User, NEW n \in Name, CreateDomain(r, v, n)
      PROVE  LimitsHoldUpToRaces'
  <2> SUFFICES ASSUME NEW u \in User
               PROVE  /\ Bound(DomainsOf(u), Inserting("insertDomain", u), DomainLimit)'
                      /\ Bound(AliasesOf(u), Inserting("insertAlias", u), AliasLimit)'
    BY DEF LimitsHoldUpToRaces, Bound, Inserting
  <2>1. /\ UNCHANGED <<domains, aliases>> /\ call'[r].pc = "insertDomain"
        /\ call'[r].user = v /\ Cardinality(DomainsOf(v)) < DomainLimit
        /\ \A s \in Request \ {r} : call'[s] = call[s]
    BY <1>1 DEF CreateDomain, Start, At, TypeOK
  <2>2. DomainsOf(u)' = DomainsOf(u) /\ AliasesOf(u)' = AliasesOf(u)
    BY <2>1 DEF DomainsOf, AliasesOf
  <2>3. Inserting("insertAlias", u)' \subseteq Inserting("insertAlias", u)
        /\ Inserting("insertDomain", u)' \subseteq Request
    BY <2>1 DEF Inserting, At
  <2>4. Bound(AliasesOf(u), Inserting("insertAlias", u)', AliasLimit)
    BY <1>0, <2>3, FiniteParts, LimitsAsBounds, BoundShrinks
  <2>5. Bound(DomainsOf(u), Inserting("insertDomain", u)', DomainLimit)
    <3>1. CASE u = v
      BY <1>0, <2>1, <2>3, <3>1, FiniteParts, BoundStarts
    <3>2. CASE u # v
      <4>1. Inserting("insertDomain", u)' \subseteq Inserting("insertDomain", u)
        BY <2>1, <3>2 DEF Inserting, At
      <4> QED BY <1>0, <4>1, FiniteParts, LimitsAsBounds, BoundShrinks
    <3> QED BY <3>1, <3>2
  <2> QED BY <2>2, <2>4, <2>5 DEF Bound
<1>2. ASSUME NEW r \in Request, NEW v \in User, NEW d \in DomainID, NEW l \in Local,
             CreateAlias(r, v, d, l)
      PROVE  LimitsHoldUpToRaces'
  <2> SUFFICES ASSUME NEW u \in User
               PROVE  /\ Bound(DomainsOf(u), Inserting("insertDomain", u), DomainLimit)'
                      /\ Bound(AliasesOf(u), Inserting("insertAlias", u), AliasLimit)'
    BY DEF LimitsHoldUpToRaces, Bound, Inserting
  <2>1. /\ UNCHANGED <<domains, aliases>> /\ call'[r].pc = "insertAlias"
        /\ call'[r].user = v /\ Cardinality(AliasesOf(v)) < AliasLimit
        /\ \A s \in Request \ {r} : call'[s] = call[s]
    BY <1>2 DEF CreateAlias, Start, At, TypeOK
  <2>2. DomainsOf(u)' = DomainsOf(u) /\ AliasesOf(u)' = AliasesOf(u)
    BY <2>1 DEF DomainsOf, AliasesOf
  <2>3. Inserting("insertDomain", u)' \subseteq Inserting("insertDomain", u)
        /\ Inserting("insertAlias", u)' \subseteq Request
    BY <2>1 DEF Inserting, At
  <2>4. Bound(DomainsOf(u), Inserting("insertDomain", u)', DomainLimit)
    BY <1>0, <2>3, FiniteParts, LimitsAsBounds, BoundShrinks
  <2>5. Bound(AliasesOf(u), Inserting("insertAlias", u)', AliasLimit)
    <3>1. CASE u = v
      BY <1>0, <2>1, <2>3, <3>1, FiniteParts, BoundStarts
    <3>2. CASE u # v
      <4>1. Inserting("insertAlias", u)' \subseteq Inserting("insertAlias", u)
        BY <2>1, <3>2 DEF Inserting, At
      <4> QED BY <1>0, <4>1, FiniteParts, LimitsAsBounds, BoundShrinks
    <3> QED BY <3>1, <3>2
  <2> QED BY <2>2, <2>4, <2>5 DEF Bound
<1>3. ASSUME NEW r \in Request, InsertDomain(r) PROVE LimitsHoldUpToRaces'
  <2> DEFINE v == call[r].user
  <2>1. /\ UNCHANGED aliases /\ r \in Inserting("insertDomain", v)
        /\ call'[r] = Idle /\ \A s \in Request \ {r} : call'[s] = call[s]
    BY <1>3, EndOf DEF InsertDomain, Inserting
  <2>2. CASE UNCHANGED domains
    BY <2>1, <2>2, LimitsFrame DEF OwnersKept, NoneStarts, At, Idle
  <2>3. ASSUME NEW d \in DomainID, AddDomain(d, v, call[r].name)
        PROVE  LimitsHoldUpToRaces'
    <3> SUFFICES ASSUME NEW u \in User
                 PROVE  /\ Bound(DomainsOf(u), Inserting("insertDomain", u), DomainLimit)'
                        /\ Bound(AliasesOf(u), Inserting("insertAlias", u), AliasLimit)'
      BY DEF LimitsHoldUpToRaces, Bound, Inserting
    <3>1. /\ AliasesOf(u)' \subseteq AliasesOf(u)
          /\ Inserting("insertAlias", u)' \subseteq Inserting("insertAlias", u)
          /\ Inserting("insertDomain", u)' \subseteq Inserting("insertDomain", u) \ {r}
      BY <2>1 DEF AliasesOf, Inserting, At, Idle
    <3>2. Bound(AliasesOf(u)', Inserting("insertAlias", u)', AliasLimit)
      BY <1>0, <3>1, FiniteParts, LimitsAsBounds, BoundShrinks
    <3>3. \A e \in DomainID : e # d => domains'[e] = domains[e]
      BY <2>3 DEF AddDomain, TypeOK
    <3>4. domains'[d].user = v
      BY <2>3 DEF AddDomain, TypeOK
    <3>5. Bound(DomainsOf(u)', Inserting("insertDomain", u)', DomainLimit)
      <4>1. CASE u = v
        <5> DEFINE D == DomainsOf(u) \cup {d}
                   I == Inserting("insertDomain", u) \ {r}
        <5>1. Bound(D, I, DomainLimit)
          BY <1>0, <2>1, <4>1, FiniteParts, LimitsAsBounds, BoundMoves
        <5>2. IsFiniteSet(D) /\ IsFiniteSet(I)
          BY FiniteParts, FS_AddElement, FS_RemoveElement
        <5>3. DomainsOf(u)' \subseteq D
          BY <3>3 DEF DomainsOf
        <5> QED BY <1>0, <3>1, <5>1, <5>2, <5>3, BoundShrinks
      <4>2. CASE u # v
        <5>1. DomainsOf(u)' \subseteq DomainsOf(u)
          BY <3>3, <3>4, <4>2 DEF DomainsOf
        <5> QED BY <1>0, <3>1, <5>1, FiniteParts, LimitsAsBounds, BoundShrinks
      <4> QED BY <4>1, <4>2
    <3> QED BY <3>2, <3>5 DEF Bound
  <2> QED BY <1>3, <2>2, <2>3 DEF InsertDomain
<1>4. ASSUME NEW r \in Request, InsertAlias(r) PROVE LimitsHoldUpToRaces'
  <2> DEFINE v == call[r].user
             address == FullAddress(call[r].name, call[r].id)
  <2>1. /\ UNCHANGED domains /\ r \in Inserting("insertAlias", v)
        /\ call'[r] = Idle /\ \A s \in Request \ {r} : call'[s] = call[s]
    BY <1>4, EndOf DEF InsertAlias, Inserting
  <2>2. CASE UNCHANGED aliases
    BY <2>1, <2>2, LimitsFrame DEF OwnersKept, NoneStarts, At, Idle
  <2>3. ASSUME NEW a \in AliasID, AddAlias(a, v, call[r].id, address)
        PROVE  LimitsHoldUpToRaces'
    <3> SUFFICES ASSUME NEW u \in User
                 PROVE  /\ Bound(DomainsOf(u), Inserting("insertDomain", u), DomainLimit)'
                        /\ Bound(AliasesOf(u), Inserting("insertAlias", u), AliasLimit)'
      BY DEF LimitsHoldUpToRaces, Bound, Inserting
    <3>1. /\ DomainsOf(u)' \subseteq DomainsOf(u)
          /\ Inserting("insertDomain", u)' \subseteq Inserting("insertDomain", u)
          /\ Inserting("insertAlias", u)' \subseteq Inserting("insertAlias", u) \ {r}
      BY <2>1 DEF DomainsOf, Inserting, At, Idle
    <3>2. Bound(DomainsOf(u)', Inserting("insertDomain", u)', DomainLimit)
      BY <1>0, <3>1, FiniteParts, LimitsAsBounds, BoundShrinks
    <3>3. \A b \in AliasID : b # a => aliases'[b] = aliases[b]
      BY <2>3 DEF AddAlias, TypeOK
    <3>4. aliases'[a].user = v
      BY <2>3 DEF AddAlias, TypeOK
    <3>5. Bound(AliasesOf(u)', Inserting("insertAlias", u)', AliasLimit)
      <4>1. CASE u = v
        <5> DEFINE D == AliasesOf(u) \cup {a}
                   I == Inserting("insertAlias", u) \ {r}
        <5>1. Bound(D, I, AliasLimit)
          BY <1>0, <2>1, <4>1, FiniteParts, LimitsAsBounds, BoundMoves
        <5>2. IsFiniteSet(D) /\ IsFiniteSet(I)
          BY FiniteParts, FS_AddElement, FS_RemoveElement
        <5>3. AliasesOf(u)' \subseteq D
          BY <3>3 DEF AliasesOf
        <5> QED BY <1>0, <3>1, <5>1, <5>2, <5>3, BoundShrinks
      <4>2. CASE u # v
        <5>1. AliasesOf(u)' \subseteq AliasesOf(u)
          BY <3>3, <3>4, <4>2 DEF AliasesOf
        <5> QED BY <1>0, <3>1, <5>1, FiniteParts, LimitsAsBounds, BoundShrinks
      <4> QED BY <4>1, <4>2
    <3> QED BY <3>2, <3>5 DEF Bound
  <2> QED BY <1>4, <2>2, <2>3 DEF InsertAlias
<1>5. ASSUME NEW r \in Request, NEW u \in User,
             \/ \E d \in DomainID : VerifyDomain(r, u, d) \/ DeleteDomain(r, u, d)
             \/ \E a \in AliasID : DeleteAlias(r, u, a) \/
                  \E active \in BOOLEAN : UpdateAlias(r, u, a, active)
      PROVE  LimitsHoldUpToRaces'
  <2>1. /\ UNCHANGED <<domains, aliases>>
        /\ call'[r].pc \in {"checkDNS", "removeDomain", "removeAlias", "writeAlias"}
        /\ \A s \in Request \ {r} : call'[s] = call[s]
    BY <1>5 DEF VerifyDomain, DeleteDomain, DeleteAlias, UpdateAlias, Start, At, TypeOK
  <2> QED BY <2>1, LimitsFrame DEF OwnersKept, NoneStarts, At
<1>6. ASSUME NEW r \in Request, End(r), OwnersKept PROVE LimitsHoldUpToRaces'
  BY <1>6, EndOf, LimitsFrame DEF NoneStarts, At, Idle
<1>7. ASSUME NEW r \in Request, OwnersKept, Goto(r, "verified")
      PROVE  LimitsHoldUpToRaces'
  <2>1. call'[r].pc = "verified" /\ \A s \in Request \ {r} : call'[s] = call[s]
    BY <1>7, GotoOf DEF PCs
  <2> QED BY <1>7, <2>1, LimitsFrame DEF NoneStarts, At
<1>8. ASSUME NEW r \in Request, CheckDNS(r) \/ Abort(r)
      PROVE  LimitsHoldUpToRaces'
  <2>1. OwnersKept
    BY <1>8 DEF CheckDNS, Abort, OwnersKept
  <2> QED BY <1>6, <1>7, <1>8, <2>1 DEF CheckDNS, Abort
<1>9. ASSUME NEW r \in Request, UpdateDomain(r) PROVE LimitsHoldUpToRaces'
  <2>1. \A d \in DomainID : Here(d) => domains[d] \in DomainRow
    BY RowFacts
  <2>2. OwnersKept
    BY <1>9, <2>1 DEF UpdateDomain, Update, OwnersKept, TypeOK, DomainRow
  <2> QED BY <1>6, <1>9, <2>2 DEF UpdateDomain
<1>10. ASSUME NEW r \in Request, RemoveDomain(r) PROVE LimitsHoldUpToRaces'
  <2>1. OwnersKept
    BY <1>10, RowFacts, DomainsAssumption
    DEF RemoveDomain, AliasesWithout, OwnersKept, TypeOK, NoDomain, NoAlias
  <2> QED BY <1>6, <1>10, <2>1 DEF RemoveDomain
<1>11. ASSUME NEW r \in Request, WriteAlias(r) PROVE LimitsHoldUpToRaces'
  <2>1. \A a \in AliasID : AliasHere(a) => aliases[a] \in AliasRow
    BY RowFacts
  <2>2. OwnersKept
    BY <1>11, <2>1 DEF WriteAlias, OwnersKept, TypeOK, AliasRow
  <2> QED BY <1>6, <1>11, <2>2 DEF WriteAlias
<1>12. ASSUME NEW r \in Request, RemoveAlias(r) PROVE LimitsHoldUpToRaces'
  <2>1. OwnersKept
    BY <1>12, DomainsAssumption DEF RemoveAlias, OwnersKept, TypeOK, NoAlias
  <2> QED BY <1>6, <1>12, <2>1 DEF RemoveAlias
<1>13. ASSUME call' = call, OwnersKept PROVE LimitsHoldUpToRaces'
  BY <1>13, LimitsFrame DEF NoneStarts, At
<1>14. ASSUME NEW u \in User, DeleteUser(u) PROVE LimitsHoldUpToRaces'
  BY <1>13, <1>14, DomainsAssumption DEF DeleteUser, AliasesWithout, OwnersKept, NoDomain, NoAlias
<1>15. ASSUME NEW d \in DomainID, EnableSSL(d) \/ \E n \in Name : PublishToken(n, d)
       PROVE  LimitsHoldUpToRaces'
  <2>1. domains[d].verified => domains[d] \in DomainRow
    BY RowFacts
  <2>2. OwnersKept /\ call' = call
    BY <1>15, <2>1 DEF EnableSSL, PublishToken, OwnersKept, TypeOK, DomainRow
  <2> QED BY <1>13, <2>2
<1>16. CASE UNCHANGED vars
  BY <1>13, <1>16 DEF vars, OwnersKept
<1> QED BY <1>1, <1>2, <1>3, <1>4, <1>5, <1>8, <1>9, <1>10, <1>11, <1>12, <1>14, <1>15, <1>16
        DEF Next, Step, DomainRoutes, AliasRoutes

(* Requests that check a limit and insert later exceed it by no more than   *)
(* the others that run at the same time, for any limits and any number.     *)
THEOREM LimitsUpToRaces == Spec => []LimitsHoldUpToRaces
BY LimitsInit, LimitsNext, DomainsTyped, PTL DEF Spec
===============================================================================
