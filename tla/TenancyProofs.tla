---------------------------- MODULE TenancyProofs ----------------------------
(***************************************************************************)
(* Proofs about Tenancy, for any hosts, tenants, requests and changes.      *)
(***************************************************************************)
EXTENDS Tenancy, TLAPS

TenantRow == [name : Names, active : BOOLEAN]

Request == [pc : {"idle", "lookup", "read", "store", "view"}, host : Hosts \cup {NoHost}, found : Answer]

Creation ==
    [pc : {"new", "domain", "insert", "conflict", "error", "created"},
     name : Names \cup {NoName}, host : Hosts \cup {NoHost}]

\* The answer that the rows give has been noted as right.
RowsNoted == \A h \in Hosts : Row(h) \in truths[h]

\* A cache entry was right once, be it stored from an old read.
CacheSound == \A h \in Hosts : cache[h] = Nothing \/ cache[h] \in truths[h]

\* What a request x holds was right once for its host.
Sound(x, right) ==
    /\ x.pc # "idle" => x.host \in Hosts
    /\ x.pc \in {"store", "view"} => x.found \in right[x.host]
    /\ x.pc = "view" => x.found.active

RequestsSound == \A r \in Requests : Sound(req[r], truths)

\* A call of create_tenant has its arguments until it ends.
CreatorsSound ==
    \A c \in Creators : creator[c].pc \in {"domain", "insert"} =>
        creator[c].name \in Names /\ creator[c].host \in Hosts

IndInv == TypeOK /\ RowsNoted /\ CacheSound /\ RequestsSound /\ CreatorsSound /\ Whole

\* A request that has ended relies on nothing.
LEMMA IdleFacts == Idle \in Request /\ Idle.pc = "idle" /\ \A right : Sound(Idle, right)
  BY DEF Idle, Request, Answer, Sound

\* A call that has ended is well typed.
LEMMA EndedFacts ==
    ASSUME NEW pc \in {"new", "conflict", "error", "created"}
    PROVE  Ended(pc) \in Creation /\ Ended(pc).pc = pc
  BY DEF Ended, Creation

\* Whether a tenant exists is told by its row.
LEMMA RowFacts ==
    /\ \A row \in TenantRow : row.name # NoName /\ row # Absent
    /\ Absent.name = NoName /\ Deleted.name = NoName
  BY TenancyAssumption DEF TenantRow, Absent, Deleted

\* Every row, be it absent or deleted, is active or not.
LEMMA ActiveTyped == \A row \in TenantRow \cup {Absent, Deleted} : row.active \in BOOLEAN
<1>1. Absent.active = FALSE /\ Deleted.active = TRUE
  BY DEF Absent, Deleted
<1>2. \A row \in TenantRow : row.active \in BOOLEAN
  BY DEF TenantRow
<1> QED BY <1>1, <1>2

\* What the database answers for a host has the type of an answer.
LEMMA AnswerTyped ==
    ASSUME TypeOK, NEW h \in Hosts
    PROVE  Row(h) \in Answer
<1>1. domain[h] \in Tenants \cup {NoTenant}
  BY DEF TypeOK
<1>2. ASSUME NEW t \in Tenants PROVE tenant[t].active \in BOOLEAN
  BY ActiveTyped DEF TypeOK, TenantRow
<1> QED BY <1>1, <1>2 DEF Row, Answer

\* At the start the cache is empty and the rows are whole.
LEMMA InitEstablishes == Init => IndInv
<1> SUFFICES ASSUME Init PROVE IndInv
  OBVIOUS
<1>1. /\ tenant \in [Tenants -> TenantRow \cup {Absent, Deleted}]
      /\ domain \in [Hosts -> Tenants \cup {NoTenant}]
  BY TenancyAssumption DEF Init, TenantRow
<1>2. \A h \in Hosts : Row(h) \in Answer
  <2>1. ASSUME NEW t \in Tenants PROVE tenant[t].active \in BOOLEAN
    BY <1>1, ActiveTyped
  <2> QED BY <1>1, <2>1 DEF Row, Answer
<1>3. TypeOK
  BY <1>1, <1>2, IdleFacts, EndedFacts, TenancyAssumption DEF Init, TypeOK, TenantRow, Request, Creation
<1>4. RowsNoted /\ CacheSound
  BY DEF Init, RowsNoted, CacheSound
<1>5. RequestsSound /\ CreatorsSound
  BY IdleFacts, EndedFacts DEF Init, RequestsSound, CreatorsSound
<1>6. Whole
  <2>1. ASSUME NEW t \in Tenants PROVE Exists(t) <=> Founded[t] # Absent
    BY RowFacts, TenancyAssumption DEF Init, Exists, TenantRow
  <2>2. ASSUME NEW h \in Hosts, domain[h] # NoTenant PROVE Exists(domain[h])
    BY <1>1, <2>1, <2>2, TenancyAssumption DEF Init
  <2>3. ASSUME NEW t \in Tenants, Exists(t), t \notin bare PROVE \E h \in Hosts : domain[h] = t
    BY <2>1, <2>3 DEF Init
  <2> QED BY <2>2, <2>3 DEF Whole
<1> QED BY <1>3, <1>4, <1>5, <1>6 DEF IndInv

-----------------------------------------------------------------------------
(* The requests and the cache: the rows stay. *)

\* One request moves, and the cache holds answers that have been right.
LEMMA RequestMoves ==
    ASSUME IndInv, UNCHANGED rows, NEW r \in Requests, NEW new \in Request,
           req' = [req EXCEPT ![r] = new], Sound(new, truths),
           cache' \in [Hosts -> Answer \cup {Nothing}],
           \A h \in Hosts : cache'[h] = Nothing \/ cache'[h] \in truths[h]
    PROVE  IndInv'
<1>1. UNCHANGED <<tenant, domain, creator, truths, bare, changes>>
  BY DEF rows
<1>2. req' \in [Requests -> Request] /\ \A q \in Requests : req'[q] = IF q = r THEN new ELSE req[q]
  BY DEF IndInv, TypeOK, Request
<1>3. TypeOK' /\ CacheSound'
  BY <1>1, <1>2 DEF IndInv, TypeOK, Request, CacheSound
<1>4. RequestsSound'
  BY <1>1, <1>2 DEF IndInv, RequestsSound
<1>5. RowsNoted' /\ CreatorsSound' /\ Whole'
  BY <1>1 DEF IndInv, RowsNoted, Row, CreatorsSound, Whole, Exists
<1> QED BY <1>3, <1>4, <1>5 DEF IndInv

\* A request is answered from what was found for its host.
LEMMA JudgedFacts ==
    ASSUME IndInv, NEW r \in Requests, NEW answer \in Answer, req[r].pc # "idle",
           answer \in truths[req[r].host], Judged(r, answer)
    PROVE  \E new \in Request : req' = [req EXCEPT ![r] = new] /\ Sound(new, truths)
<1>1. CASE ~(answer # Unknown /\ answer.active)
  <2>1. req' = [req EXCEPT ![r] = Idle]
    BY <1>1 DEF Judged
  <2> QED BY <2>1, IdleFacts
<1>2. CASE answer # Unknown /\ answer.active
  <2> DEFINE x == req[r]
             new == [x EXCEPT !.pc = "view", !.found = answer]
  <2>1. req' = [req EXCEPT ![r] = new]
    BY <1>2 DEF Judged, IndInv, TypeOK
  <2>2. x \in Request /\ x.host \in Hosts
    BY DEF IndInv, TypeOK, Request, RequestsSound, Sound
  <2> HIDE DEF x
  <2>3. new \in Request /\ new.pc = "view" /\ new.found = answer /\ new.host = x.host
    BY <2>2 DEF Request
  <2> HIDE DEF new
  <2>4. Sound(new, truths)
    BY <1>2, <2>2, <2>3 DEF Sound, x
  <2> QED BY <2>1, <2>3, <2>4
<1> QED BY <1>1, <1>2

\* A request arrives for a host and knows nothing.
LEMMA ArriveStep == ASSUME IndInv, NEW r \in Requests, NEW h \in Hosts, Arrive(r, h) PROVE IndInv'
<1> DEFINE new == [pc |-> "lookup", host |-> h, found |-> Unknown]
<1>1. UNCHANGED rows /\ UNCHANGED cache /\ req' = [req EXCEPT ![r] = new]
  BY DEF Arrive
<1>2. new \in Request /\ Sound(new, truths)
  BY DEF Request, Answer, Sound
<1>3. /\ cache' \in [Hosts -> Answer \cup {Nothing}]
      /\ \A g \in Hosts : cache'[g] = Nothing \/ cache'[g] \in truths[g]
  BY <1>1 DEF IndInv, TypeOK, CacheSound
<1> HIDE DEF new
<1> QED BY <1>1, <1>2, <1>3, RequestMoves

\* A cached answer was right once, so one that is served from it was.
LEMMA LookupStep == ASSUME IndInv, NEW r \in Requests, Lookup(r) PROVE IndInv'
<1> DEFINE x == req[r]
           entry == cache[x.host]
<1>1. /\ UNCHANGED rows /\ UNCHANGED cache /\ x \in Request /\ x.pc = "lookup" /\ x.host \in Hosts
      /\ entry \in Answer \cup {Nothing} /\ (entry = Nothing \/ entry \in truths[x.host])
  BY DEF Lookup, IndInv, TypeOK, Request, RequestsSound, Sound, CacheSound
<1>2. /\ cache' \in [Hosts -> Answer \cup {Nothing}]
      /\ \A g \in Hosts : cache'[g] = Nothing \/ cache'[g] \in truths[g]
  BY <1>1 DEF IndInv, TypeOK, CacheSound
<1>3. CASE entry = Nothing
  <2> DEFINE new == [x EXCEPT !.pc = "read"]
  <2>1. req' = [req EXCEPT ![r] = new]
    BY <1>3 DEF Lookup, IndInv, TypeOK
  <2> HIDE DEF x
  <2>2. new \in Request /\ new.pc = "read" /\ new.host = x.host
    BY <1>1 DEF Request
  <2> HIDE DEF new
  <2>3. Sound(new, truths)
    BY <1>1, <2>2 DEF Sound
  <2> QED BY <1>1, <1>2, <2>1, <2>2, <2>3, RequestMoves
<1>4. CASE entry # Nothing
  <2>1. Judged(r, entry) /\ entry \in Answer /\ entry \in truths[x.host] /\ req[r].pc # "idle"
    BY <1>1, <1>4 DEF Lookup
  <2>2. PICK new \in Request : req' = [req EXCEPT ![r] = new] /\ Sound(new, truths)
    <3> HIDE DEF entry
    <3> QED BY <2>1, JudgedFacts
  <2> QED BY <1>1, <1>2, <2>2, RequestMoves
<1> QED BY <1>3, <1>4

\* The answer of the database is right at that moment.
LEMMA ReadDomainStep == ASSUME IndInv, NEW r \in Requests, ReadDomain(r) PROVE IndInv'
<1> DEFINE x == req[r]
           answer == Row(x.host)
           new == [x EXCEPT !.pc = "store", !.found = answer]
<1>1. UNCHANGED rows /\ UNCHANGED cache /\ x \in Request /\ x.host \in Hosts /\ req' = [req EXCEPT ![r] = new]
  BY DEF ReadDomain, IndInv, TypeOK, Request, RequestsSound, Sound
<1>2. answer \in Answer /\ answer \in truths[x.host]
  BY <1>1, AnswerTyped DEF IndInv, RowsNoted
<1>3. /\ cache' \in [Hosts -> Answer \cup {Nothing}]
      /\ \A g \in Hosts : cache'[g] = Nothing \/ cache'[g] \in truths[g]
  BY <1>1 DEF IndInv, TypeOK, CacheSound
<1> HIDE DEF x, answer
<1>4. new \in Request /\ new.pc = "store" /\ new.host = x.host /\ new.found = answer
  BY <1>1, <1>2 DEF Request
<1> HIDE DEF new
<1>5. Sound(new, truths)
  BY <1>1, <1>2, <1>4 DEF Sound
<1> QED BY <1>1, <1>3, <1>4, <1>5, RequestMoves

\* What is stored was read from the database, however long ago.
LEMMA StoreStep == ASSUME IndInv, NEW r \in Requests, Store(r) PROVE IndInv'
<1> DEFINE x == req[r]
           answer == x.found
<1>1. /\ UNCHANGED rows /\ x \in Request /\ x.pc = "store" /\ x.host \in Hosts
      /\ answer \in Answer /\ answer \in truths[x.host]
      /\ cache' = [cache EXCEPT ![x.host] = answer] /\ Judged(r, answer)
  BY DEF Store, IndInv, TypeOK, Request, RequestsSound, Sound
<1>2. /\ cache' \in [Hosts -> Answer \cup {Nothing}]
      /\ \A g \in Hosts : cache'[g] = Nothing \/ cache'[g] \in truths[g]
  BY <1>1 DEF IndInv, TypeOK, CacheSound
<1>3. PICK new \in Request : req' = [req EXCEPT ![r] = new] /\ Sound(new, truths)
  BY <1>1, JudgedFacts
<1> QED BY <1>1, <1>2, <1>3, RequestMoves

\* A view that ends gives up its tenant.
LEMMA RespondStep == ASSUME IndInv, NEW r \in Requests, Respond(r) PROVE IndInv'
<1>1. UNCHANGED rows /\ UNCHANGED cache /\ req' = [req EXCEPT ![r] = Idle]
  BY DEF Respond
<1>2. /\ cache' \in [Hosts -> Answer \cup {Nothing}]
      /\ \A g \in Hosts : cache'[g] = Nothing \/ cache'[g] \in truths[g]
  BY <1>1 DEF IndInv, TypeOK, CacheSound
<1> QED BY <1>1, <1>2, IdleFacts, RequestMoves

\* An entry that expires leaves nothing to be wrong about.
LEMMA ExpireStep == ASSUME IndInv, NEW h \in Hosts, Expire(h) PROVE IndInv'
<1>1. UNCHANGED <<req, tenant, domain, creator, truths, bare, changes>> /\ cache' = [cache EXCEPT ![h] = Nothing]
  BY DEF Expire, rows
<1>2. cache' \in [Hosts -> Answer \cup {Nothing}] /\ CacheSound'
  BY <1>1 DEF IndInv, TypeOK, CacheSound
<1> QED BY <1>1, <1>2 DEF IndInv, TypeOK, RequestsSound, RowsNoted, Row, CreatorsSound, Whole, Exists

-----------------------------------------------------------------------------
(* The rows change, and what they now say is noted; requests and cache stay. *)

\* What was right before stays noted, and what the rows say now is.
LEMMA RowsMove ==
    ASSUME IndInv, Noted, UNCHANGED <<cache, req>>,
           tenant' \in [Tenants -> TenantRow \cup {Absent, Deleted}],
           domain' \in [Hosts -> Tenants \cup {NoTenant}],
           creator' \in [Creators -> Creation], CreatorsSound', bare' \subseteq Tenants, changes' \in Nat,
           Whole'
    PROVE  IndInv'
<1>1. \A h \in Hosts : Row(h)' \in Answer
  <2>1. ASSUME NEW t \in Tenants PROVE tenant'[t].active \in BOOLEAN
    BY ActiveTyped
  <2> QED BY <2>1 DEF Row, Answer
<1>2. \A h \in Hosts : truths'[h] = truths[h] \cup {Row(h)'}
  BY DEF Noted
<1>3. truths' \in [Hosts -> SUBSET Answer]
  BY <1>1, <1>2 DEF Noted, IndInv, TypeOK
<1>4. TypeOK'
  BY <1>3 DEF IndInv, TypeOK, TenantRow, Creation
<1>5. RowsNoted' /\ CacheSound'
  BY <1>2 DEF IndInv, RowsNoted, CacheSound
<1>6. RequestsSound'
  BY <1>2 DEF IndInv, RequestsSound, Sound
<1> QED BY <1>4, <1>5, <1>6 DEF IndInv

\* A call of create_tenant moves, and its arguments stay until it ends.
LEMMA CreatorMoves ==
    ASSUME IndInv, NEW c \in Creators, NEW new \in Creation, creator' = [creator EXCEPT ![c] = new],
           new.pc \in {"domain", "insert"} => new.name \in Names /\ new.host \in Hosts
    PROVE  creator' \in [Creators -> Creation] /\ CreatorsSound'
<1>1. \A d \in Creators : creator'[d] = IF d = c THEN new ELSE creator[d]
  BY DEF IndInv, TypeOK
<1> QED BY <1>1 DEF IndInv, TypeOK, Creation, CreatorsSound

\* A check of create_tenant changes no row.
LEMMA CheckMoves ==
    ASSUME IndInv, NEW c \in Creators, NEW new \in Creation, creator' = [creator EXCEPT ![c] = new],
           new.pc \in {"domain", "insert"} => new.name \in Names /\ new.host \in Hosts,
           UNCHANGED <<tenant, domain, truths, service>>
    PROVE  IndInv'
<1>1. creator' \in [Creators -> Creation] /\ CreatorsSound'
  BY CreatorMoves
<1>2. UNCHANGED <<tenant, domain, truths, cache, req, bare, changes>>
  BY DEF service
<1> QED BY <1>1, <1>2 DEF IndInv, TypeOK, Creation, RowsNoted, Row, CacheSound, RequestsSound, Whole, Exists

\* The first check of create_tenant keeps its arguments.
LEMMA CheckNameStep ==
    ASSUME IndInv, NEW c \in Creators, NEW name \in Names, NEW h \in Hosts, CheckName(c, name, h)
    PROVE  IndInv'
<1>1. PICK new \in Creation :
         /\ creator' = [creator EXCEPT ![c] = new]
         /\ new.pc \in {"domain", "insert"} => new.name \in Names /\ new.host \in Hosts
  <2> DEFINE asked == [pc |-> "domain", name |-> name, host |-> h]
  <2>1. asked \in Creation /\ asked.name = name /\ asked.host = h
    BY DEF Creation
  <2>2. creator' = [creator EXCEPT ![c] = asked] \/ creator' = [creator EXCEPT ![c] = Ended("conflict")]
    BY DEF CheckName
  <2> HIDE DEF asked
  <2> QED BY <2>1, <2>2, EndedFacts
<1>2. UNCHANGED <<tenant, domain, truths, service>>
  BY DEF CheckName
<1> QED BY <1>1, <1>2, CheckMoves

\* So does the second.
LEMMA CheckDomainStep == ASSUME IndInv, NEW c \in Creators, CheckDomain(c) PROVE IndInv'
<1> DEFINE x == creator[c]
<1>1. x \in Creation /\ x.name \in Names /\ x.host \in Hosts
  BY DEF CheckDomain, IndInv, TypeOK, Creation, CreatorsSound
<1>2. PICK new \in Creation :
         /\ creator' = [creator EXCEPT ![c] = new]
         /\ new.pc \in {"domain", "insert"} => new.name \in Names /\ new.host \in Hosts
  <2> DEFINE checked == [x EXCEPT !.pc = "insert"]
  <2>1. creator' = [creator EXCEPT ![c] = checked] \/ creator' = [creator EXCEPT ![c] = Ended("conflict")]
    BY DEF CheckDomain, IndInv, TypeOK
  <2> HIDE DEF x
  <2>2. checked \in Creation /\ checked.name = x.name /\ checked.host = x.host
    BY <1>1 DEF Creation
  <2> HIDE DEF checked
  <2> QED BY <1>1, <2>1, <2>2, EndedFacts
<1>3. UNCHANGED <<tenant, domain, truths, service>>
  BY DEF CheckDomain
<1> QED BY <1>2, <1>3, CheckMoves

\* The transaction makes both rows or neither, and the new answer is noted.
LEMMA InsertStep == ASSUME IndInv, NEW c \in Creators, NEW t \in Tenants, Insert(c, t) PROVE IndInv'
<1> DEFINE name == creator[c].name
           h == creator[c].host
           row == [name |-> name, active |-> TRUE]
<1>1. /\ creator[c].pc = "insert" /\ tenant[t] = Absent /\ Noted
      /\ UNCHANGED <<cache, req, bare, changes>> /\ name \in Names /\ h \in Hosts
  BY DEF Insert, service, IndInv, CreatorsSound
<1>2. /\ tenant \in [Tenants -> TenantRow \cup {Absent, Deleted}]
      /\ domain \in [Hosts -> Tenants \cup {NoTenant}] /\ bare' \subseteq Tenants /\ changes' \in Nat
  BY <1>1 DEF IndInv, TypeOK, TenantRow
<1>3. PICK pc \in {"error", "created"} : creator' = [creator EXCEPT ![c] = Ended(pc)]
  BY DEF Insert
<1>4. creator' \in [Creators -> Creation] /\ CreatorsSound'
  BY <1>3, EndedFacts, CreatorMoves
<1>5. CASE UNCHANGED <<tenant, domain>>
  <2>1. Whole'
    BY <1>1, <1>5 DEF IndInv, Whole, Exists
  <2> QED BY <1>1, <1>2, <1>4, <1>5, <2>1, RowsMove
<1>6. CASE ~Clash(c) /\ tenant' = [tenant EXCEPT ![t] = row] /\ domain' = [domain EXCEPT ![h] = t]
  <2>1. domain[h] = NoTenant
    BY <1>6 DEF Clash
  <2>2. row \in TenantRow /\ row.name = name
    BY <1>1 DEF TenantRow
  <2> HIDE DEF row, h, name
  <2>3. /\ \A s \in Tenants : tenant'[s] = IF s = t THEN row ELSE tenant[s]
        /\ \A g \in Hosts : domain'[g] = IF g = h THEN t ELSE domain[g]
        /\ tenant' \in [Tenants -> TenantRow \cup {Absent, Deleted}]
        /\ domain' \in [Hosts -> Tenants \cup {NoTenant}]
    BY <1>1, <1>2, <1>6, <2>2
  <2>4. Exists(t)' /\ \A s \in Tenants : s # t => (Exists(s)' <=> Exists(s))
    BY <2>2, <2>3, RowFacts DEF Exists
  <2>5. ASSUME NEW g \in Hosts, domain'[g] # NoTenant PROVE tenant'[domain'[g]].name # NoName
    BY <1>2, <2>3, <2>4, <2>5 DEF IndInv, Whole, Exists
  <2>6. ASSUME NEW s \in Tenants, Exists(s)', s \notin bare' PROVE \E g \in Hosts : domain'[g] = s
    <3>1. CASE s = t
      BY <1>1, <2>3, <3>1
    <3>2. CASE s # t
      <4>1. PICK g \in Hosts : domain[g] = s
        BY <1>1, <2>4, <2>6, <3>2 DEF IndInv, Whole
      <4>2. g # h
        BY <2>1, <4>1, TenancyAssumption
      <4> QED BY <2>3, <4>1, <4>2
    <3> QED BY <3>1, <3>2
  <2>7. Whole'
    BY <2>5, <2>6 DEF Whole, Exists
  <2> QED BY <1>1, <1>2, <1>4, <2>3, <2>7, RowsMove
<1> QED BY <1>5, <1>6 DEF Insert

\* What a change by an administrator leaves alone.
LEMMA ChangeFacts ==
    ASSUME IndInv, Change
    PROVE  /\ Noted /\ UNCHANGED <<cache, req>> /\ changes' \in Nat
           /\ creator' \in [Creators -> Creation] /\ CreatorsSound'
  BY DEF Change, IndInv, TypeOK, Creation, CreatorsSound

\* Switching a tenant changes the answers of its hosts, which are noted.
LEMMA SetActiveStep ==
    ASSUME IndInv, NEW t \in Tenants, NEW active \in BOOLEAN, SetActive(t, active)
    PROVE  IndInv'
<1> DEFINE old == tenant[t]
           row == [old EXCEPT !.active = active]
<1>1. /\ Change /\ UNCHANGED <<domain, bare>> /\ old.name # NoName
      /\ tenant \in [Tenants -> TenantRow \cup {Absent, Deleted}]
      /\ domain \in [Hosts -> Tenants \cup {NoTenant}] /\ bare \subseteq Tenants
  BY DEF SetActive, Exists, IndInv, TypeOK, TenantRow
<1>2. tenant' = [tenant EXCEPT ![t] = row] /\ old \in TenantRow
  BY <1>1, RowFacts DEF SetActive
<1> HIDE DEF old
<1>3. row \in TenantRow /\ row.name = old.name
  BY <1>2 DEF TenantRow
<1> HIDE DEF row
<1>4. /\ \A s \in Tenants : tenant'[s] = IF s = t THEN row ELSE tenant[s]
      /\ tenant' \in [Tenants -> TenantRow \cup {Absent, Deleted}]
  BY <1>1, <1>2, <1>3
<1>5. \A s \in Tenants : tenant'[s].name = tenant[s].name
  BY <1>3, <1>4 DEF old
<1>6. Whole'
  BY <1>1, <1>5 DEF IndInv, Whole, Exists
<1> QED BY <1>1, <1>4, <1>6, ChangeFacts, RowsMove

\* A domain that moves leaves a tenant that the administrator has laid bare.
LEMMA SetDomainStep ==
    ASSUME IndInv, NEW h \in Hosts, NEW t \in Tenants \cup {NoTenant}, SetDomain(h, t)
    PROVE  IndInv'
<1>1. /\ Change /\ UNCHANGED tenant /\ domain' = [domain EXCEPT ![h] = t]
      /\ bare' = (bare \cup {domain[h]}) \ {NoTenant} /\ (t # NoTenant => Exists(t))
      /\ tenant \in [Tenants -> TenantRow \cup {Absent, Deleted}]
      /\ domain \in [Hosts -> Tenants \cup {NoTenant}] /\ bare \subseteq Tenants
  BY DEF SetDomain, IndInv, TypeOK, TenantRow
<1>2. /\ \A g \in Hosts : domain'[g] = IF g = h THEN t ELSE domain[g]
      /\ domain' \in [Hosts -> Tenants \cup {NoTenant}] /\ bare' \subseteq Tenants
  BY <1>1
<1>3. ASSUME NEW g \in Hosts, domain'[g] # NoTenant PROVE tenant'[domain'[g]].name # NoName
  BY <1>1, <1>2, <1>3 DEF IndInv, Whole, Exists
<1>4. ASSUME NEW s \in Tenants, Exists(s)', s \notin bare' PROVE \E g \in Hosts : domain'[g] = s
  <2>1. s # NoTenant
    BY TenancyAssumption
  <2>2. s \notin bare /\ s # domain[h]
    BY <1>1, <1>4, <2>1
  <2>3. PICK g \in Hosts : domain[g] = s
    BY <1>1, <1>4, <2>2 DEF IndInv, Whole, Exists
  <2> QED BY <1>2, <2>2, <2>3
<1>5. Whole'
  BY <1>3, <1>4 DEF Whole, Exists
<1> QED BY <1>1, <1>2, <1>5, ChangeFacts, RowsMove

\* A deletion takes the tenant's domains with it.
LEMMA DeleteTenantStep == ASSUME IndInv, NEW t \in Tenants, DeleteTenant(t) PROVE IndInv'
<1>1. /\ Change /\ tenant' = [tenant EXCEPT ![t] = Deleted] /\ bare' = bare \ {t}
      /\ domain' = [h \in Hosts |-> IF domain[h] = t THEN NoTenant ELSE domain[h]]
      /\ tenant \in [Tenants -> TenantRow \cup {Absent, Deleted}]
      /\ domain \in [Hosts -> Tenants \cup {NoTenant}] /\ bare \subseteq Tenants
  BY DEF DeleteTenant, IndInv, TypeOK, TenantRow
<1>2. /\ \A s \in Tenants : tenant'[s] = IF s = t THEN Deleted ELSE tenant[s]
      /\ tenant' \in [Tenants -> TenantRow \cup {Absent, Deleted}]
      /\ domain' \in [Hosts -> Tenants \cup {NoTenant}] /\ bare' \subseteq Tenants
  BY <1>1
<1>3. ASSUME NEW g \in Hosts, domain'[g] # NoTenant PROVE tenant'[domain'[g]].name # NoName
  <2>1. domain'[g] = domain[g] /\ domain[g] # t /\ domain[g] \in Tenants
    BY <1>1, <1>3
  <2> QED BY <1>2, <1>3, <2>1 DEF IndInv, Whole, Exists
<1>4. ASSUME NEW s \in Tenants, tenant'[s].name # NoName, s \notin bare' PROVE \E g \in Hosts : domain'[g] = s
  <2>1. s # t
    BY <1>2, <1>4, RowFacts
  <2>2. PICK g \in Hosts : domain[g] = s
    BY <1>1, <1>2, <1>4, <2>1 DEF IndInv, Whole, Exists
  <2> QED BY <1>1, <2>1, <2>2
<1>5. Whole'
  BY <1>3, <1>4 DEF Whole, Exists
<1> QED BY <1>1, <1>2, <1>5, ChangeFacts, RowsMove

\* Every step keeps the invariant.
LEMMA IndInvStep == IndInv /\ [Next]_vars => IndInv'
<1> SUFFICES ASSUME IndInv, [Next]_vars PROVE IndInv'
  OBVIOUS
<1>1. CASE UNCHANGED vars
  BY <1>1 DEF vars, IndInv, TypeOK, RowsNoted, Row, CacheSound, RequestsSound, CreatorsSound, Whole, Exists
<1> QED BY <1>1, ArriveStep, LookupStep, ReadDomainStep, StoreStep, RespondStep, ExpireStep, CheckNameStep,
           CheckDomainStep, InsertStep, SetActiveStep, SetDomainStep, DeleteTenantStep DEF Next, Serve

\* The types of the variables hold in every reachable state, for any hosts, tenants,
\* requests, calls of create_tenant and changes by administrators.
THEOREM TypeCorrect == Spec => []TypeOK
<1>1. IndInv => TypeOK
  BY DEF IndInv
<1> QED BY <1>1, InitEstablishes, IndInvStep, PTL DEF Spec

\* TenantMiddleware never serves a request for a tenant that was not, at one moment,
\* both the host's and active: it may be late, and never mixes two answers.
THEOREM ServedIsTrue == Spec => []ServedWasTrue
<1>1. IndInv => ServedWasTrue
  BY DEF IndInv, RequestsSound, Sound, ServedWasTrue
<1> QED BY <1>1, InitEstablishes, IndInvStep, PTL DEF Spec

\* Calls of create_tenant that clash and administrators who move or delete leave no
\* domain of a tenant that is gone, and no tenant without the domain it was made with.
THEOREM RowsStayWhole == Spec => []Whole
<1>1. IndInv => Whole
  BY DEF IndInv
<1> QED BY <1>1, InitEstablishes, IndInvStep, PTL DEF Spec
=============================================================================
