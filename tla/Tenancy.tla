------------------------------ MODULE Tenancy ------------------------------
(***************************************************************************)
(* Which tenant a request is for: TenantMiddleware                          *)
(* (apps/tenants/middleware.py) resolves the host through a cache in front  *)
(* of the Domain and Tenant rows, which administrators change               *)
(* (apps/tenants/admin.py) and TenantService.create_tenant adds to          *)
(* (services/tenants/tenant_service.py).                                    *)
(*                                                                          *)
(* Nothing removes a cache entry when the rows change: invalidate_cache has *)
(* no caller.  What is left is the expiry of the entries.                   *)
(***************************************************************************)
EXTENDS Naturals

CONSTANTS
    Hosts,
    Tenants,      \* Tenant rows that may come to exist
    Names,        \* schema names
    Requests,     \* request threads; each serves one request after another
    Creators,     \* calls of create_tenant
    NoTenant, NoName, NoHost,
    Founded,      \* the Tenant rows at the start
    Registered,   \* the Domain rows at the start
    MaxChanges    \* bound: how often an administrator changes a row

VARIABLES
    tenant,    \* the Tenant rows
    domain,    \* the Domain rows: the tenant of each host
    cache,     \* per host: a copy of its tenant, "not found", or nothing
    req,       \* each request: how far it is, its host and what it has found
    creator,   \* each call of create_tenant
    truths,    \* history: the answers that have been right for each host
    bare,      \* history: tenants an administrator left or made without a domain
    changes

vars == <<tenant, domain, cache, req, creator, truths, bare, changes>>

\* A row not made yet, and one deleted: its id is not given again.
Absent == [name |-> NoName, active |-> FALSE]
Deleted == [name |-> NoName, active |-> TRUE]

\* The answers of _resolve_tenant: a tenant with the is_active of its copy.
Unknown == [tenant |-> NoTenant, active |-> FALSE]
Answer == [tenant : Tenants, active : BOOLEAN] \cup {Unknown}

\* No cache entry.
Nothing == [tenant |-> NoTenant, active |-> TRUE]

ASSUME TenancyAssumption ==
    /\ MaxChanges \in Nat
    /\ Founded \in [Tenants -> [name : Names, active : BOOLEAN] \cup {Absent}]
    /\ Registered \in [Hosts -> Tenants \cup {NoTenant}]
    /\ \A h \in Hosts : Registered[h] # NoTenant => Founded[Registered[h]] # Absent
    /\ NoTenant \notin Tenants /\ NoName \notin Names /\ NoHost \notin Hosts

Idle == [pc |-> "idle", host |-> NoHost, found |-> Unknown]

\* A call of create_tenant without its arguments: before them, or ended.
Ended(pc) == [pc |-> pc, name |-> NoName, host |-> NoHost]

Exists(t) == tenant[t].name # NoName

\* Domain.objects.select_related("tenant").get(domain=host), in one query.
Row(h) == IF domain[h] = NoTenant THEN Unknown
          ELSE [tenant |-> domain[h], active |-> tenant[domain[h]].active]

Init ==
    /\ tenant = Founded
    /\ domain = Registered
    /\ cache = [h \in Hosts |-> Nothing]
    /\ req = [r \in Requests |-> Idle]
    /\ creator = [c \in Creators |-> Ended("new")]
    /\ truths = [h \in Hosts |-> {Row(h)}]
    /\ bare = {t \in Tenants : Founded[t] # Absent /\ \A h \in Hosts : Registered[h] # t}
    /\ changes = 0

Noted == truths' = [h \in Hosts |-> truths[h] \cup {Row(h)'}]

-----------------------------------------------------------------------------
(* TenantMiddleware.__call__ *)

rows == <<tenant, domain, creator, truths, bare, changes>>

\* A request for a path that is not exempt.
Arrive(r, h) ==
    /\ req[r].pc = "idle"
    /\ req' = [req EXCEPT ![r] = [pc |-> "lookup", host |-> h, found |-> Unknown]]
    /\ UNCHANGED <<cache, rows>>

\* The 404 or 403 answer, or the view with request.tenant set.
Judged(r, answer) ==
    req' = [req EXCEPT ![r] = IF answer # Unknown /\ answer.active
                              THEN [@ EXCEPT !.pc = "view", !.found = answer] ELSE Idle]

\* Mutant: a miss is not told apart from an entry.
LookupUnchecked(r) ==
    /\ req[r].pc = "lookup"
    /\ Judged(r, cache[req[r].host])
    /\ UNCHANGED <<cache, rows>>

Lookup(r) ==
    LET entry == cache[req[r].host] IN
    /\ req[r].pc = "lookup"
    /\ IF entry = Nothing THEN req' = [req EXCEPT ![r].pc = "read"] ELSE Judged(r, entry)
    /\ UNCHANGED <<cache, rows>>

\* Mutant: without select_related, is_active is read by a query of its own.
ReadLazily(r) ==
    /\ req[r].pc \in {"read", "read_tenant"}
    /\ req' = [req EXCEPT ![r] =
          IF req[r].pc = "read" /\ domain[req[r].host] # NoTenant
          THEN [@ EXCEPT !.pc = "read_tenant", !.found = Row(req[r].host)]
          ELSE [@ EXCEPT !.pc = "store",
                  !.found = IF @ = Unknown THEN @
                            ELSE [@ EXCEPT !.active = tenant[req[r].found.tenant].active]]]
    /\ UNCHANGED <<cache, rows>>

ReadDomain(r) ==
    /\ req[r].pc = "read"
    /\ req' = [req EXCEPT ![r].pc = "store", ![r].found = Row(req[r].host)]
    /\ UNCHANGED <<cache, rows>>

\* cache.set, with what was read, whatever the rows or the cache hold by now.
Store(r) ==
    /\ req[r].pc = "store"
    /\ cache' = [cache EXCEPT ![req[r].host] = req[r].found]
    /\ Judged(r, req[r].found)
    /\ UNCHANGED rows

\* The view returns, or the cache or the database raises: an error response.
Respond(r) ==
    /\ req[r].pc # "idle"
    /\ req' = [req EXCEPT ![r] = Idle]
    /\ UNCHANGED <<cache, rows>>

\* Mutant: the "not found" entry is stored without a timeout.
ExpireFound(h) ==
    /\ cache[h] \notin {Nothing, Unknown}
    /\ cache' = [cache EXCEPT ![h] = Nothing]
    /\ UNCHANGED <<req, rows>>

\* _TENANT_CACHE_TTL or _NEGATIVE_CACHE_TTL has passed.
Expire(h) ==
    /\ cache[h] # Nothing
    /\ cache' = [cache EXCEPT ![h] = Nothing]
    /\ UNCHANGED <<req, rows>>

-----------------------------------------------------------------------------
(* TenantService.create_tenant *)

service == <<cache, req, bare, changes>>

\* The two exists() checks, then the transaction.
CheckName(c, name, h) ==
    /\ creator[c].pc = "new"
    /\ creator' = [creator EXCEPT ![c] =
          IF \E t \in Tenants : tenant[t].name = name THEN Ended("conflict")
          ELSE [pc |-> "domain", name |-> name, host |-> h]]
    /\ UNCHANGED <<tenant, domain, truths, service>>

CheckDomain(c) ==
    /\ creator[c].pc = "domain"
    /\ creator' = [creator EXCEPT ![c] =
          IF domain[@.host] # NoTenant THEN Ended("conflict") ELSE [@ EXCEPT !.pc = "insert"]]
    /\ UNCHANGED <<tenant, domain, truths, service>>

\* The unique constraints, as the transaction meets them.
Clash(c) ==
    \/ \E t \in Tenants : tenant[t].name = creator[c].name
    \/ domain[creator[c].host] # NoTenant

\* Mutant: the two inserts without transaction.atomic.
InsertApart(c, t) ==
    /\ creator[c].pc = "insert" /\ tenant[t] = Absent
    /\ ~\E other \in Tenants : tenant[other].name = creator[c].name
    /\ tenant' = [tenant EXCEPT ![t] = [name |-> creator[c].name, active |-> TRUE]]
    /\ domain' = IF Clash(c) THEN domain ELSE [domain EXCEPT ![creator[c].host] = t]
    /\ creator' = [creator EXCEPT ![c] = Ended(IF Clash(c) THEN "error" ELSE "created")]
    /\ Noted
    /\ UNCHANGED service

\* Both rows or none; an IntegrityError is not turned into a conflict.
Insert(c, t) ==
    /\ creator[c].pc = "insert" /\ tenant[t] = Absent
    /\ \/ /\ ~Clash(c)
          /\ tenant' = [tenant EXCEPT ![t] = [name |-> creator[c].name, active |-> TRUE]]
          /\ domain' = [domain EXCEPT ![creator[c].host] = t]
          /\ creator' = [creator EXCEPT ![c] = Ended("created")]
       \/ /\ Clash(c)
          /\ creator' = [creator EXCEPT ![c] = Ended("error")]
          /\ UNCHANGED <<tenant, domain>>
    /\ Noted
    /\ UNCHANGED service

-----------------------------------------------------------------------------
(* The administrators' forms *)

Change ==
    /\ changes < MaxChanges
    /\ changes' = changes + 1
    /\ Noted
    /\ UNCHANGED <<cache, req, creator>>

SetActive(t, active) ==
    /\ Exists(t) /\ tenant[t].active # active
    /\ tenant' = [tenant EXCEPT ![t].active = active]
    /\ UNCHANGED <<domain, bare>>
    /\ Change

\* Add, move or delete a Domain.
SetDomain(h, t) ==
    /\ t \in {s \in Tenants : Exists(s)} \cup {NoTenant} /\ domain[h] # t
    /\ domain' = [domain EXCEPT ![h] = t]
    /\ bare' = (bare \cup {domain[h]}) \ {NoTenant}
    /\ UNCHANGED tenant
    /\ Change

\* Domains go with their tenant (on_delete=CASCADE).
DeleteTenant(t) ==
    /\ Exists(t)
    /\ tenant' = [tenant EXCEPT ![t] = Deleted]
    /\ domain' = [h \in Hosts |-> IF domain[h] = t THEN NoTenant ELSE domain[h]]
    /\ bare' = bare \ {t}
    /\ Change

-----------------------------------------------------------------------------
Serve(r) == Lookup(r) \/ ReadDomain(r) \/ Store(r) \/ Respond(r)

Next ==
    \/ \E r \in Requests : Serve(r) \/ \E h \in Hosts : Arrive(r, h)
    \/ \E h \in Hosts : Expire(h)
    \/ \E c \in Creators :
          \/ \E name \in Names, h \in Hosts : CheckName(c, name, h)
          \/ CheckDomain(c)
          \/ \E t \in Tenants : Insert(c, t)
    \/ \E t \in Tenants :
          \/ \E active \in BOOLEAN : SetActive(t, active)
          \/ DeleteTenant(t)
    \/ \E h \in Hosts, t \in Tenants \cup {NoTenant} : SetDomain(h, t)

Spec == Init /\ [][Next]_vars

\* A request comes to its response, and the cache drops entries whose time is up.
FairSpec ==
    /\ Spec
    /\ \A r \in Requests : WF_vars(Serve(r))
    /\ \A h \in Hosts : WF_vars(Expire(h))

-----------------------------------------------------------------------------
(* Properties *)

\* The types of the variables.
TypeOK ==
    /\ tenant \in [Tenants -> [name : Names, active : BOOLEAN] \cup {Absent, Deleted}]
    /\ domain \in [Hosts -> Tenants \cup {NoTenant}]
    /\ cache \in [Hosts -> Answer \cup {Nothing}]
    /\ req \in [Requests -> [pc : {"idle", "lookup", "read", "store", "view"},
                            host : Hosts \cup {NoHost}, found : Answer]]
    /\ creator \in [Creators -> [pc : {"new", "domain", "insert", "conflict", "error", "created"},
                                name : Names \cup {NoName}, host : Hosts \cup {NoHost}]]
    /\ truths \in [Hosts -> SUBSET Answer] /\ bare \subseteq Tenants
    /\ changes \in Nat

\* A view runs for a tenant that was the host's and active at one and the same
\* moment, however the rows change between the query, the cache and the view.
ServedWasTrue ==
    \A r \in Requests : req[r].pc = "view" =>
        req[r].found.active /\ req[r].found \in truths[req[r].host]

\* No row dangles: a domain leads to a tenant that exists, and a tenant has a
\* domain unless an administrator took one away, whichever calls of
\* create_tenant clash between their checks and their inserts.
Whole ==
    /\ \A h \in Hosts : domain[h] # NoTenant => Exists(domain[h])
    /\ \A t \in Tenants : Exists(t) /\ t \notin bare => \E h \in Hosts : domain[h] = t

\* When the administrators are done, the cache comes to agree with the rows and
\* stays so: an entry written from an old read is dropped and not written again.
CacheCatchesUp == <>[](\A h \in Hosts : cache[h] \in {Nothing, Row(h)})
=============================================================================
