------------------------------ MODULE Throttling ------------------------------
(***************************************************************************)
(* Rate limits (apps/common/throttling.py).  Each throttle keeps, in the    *)
(* shared cache, the times of the requests that it let through, one entry   *)
(* for each scope and client; the list is read, pruned, extended and        *)
(* written back in two steps (SimpleRateThrottle of the REST framework).    *)
(* The plan throttle takes its rate from the tenant's plan of the moment.   *)
(***************************************************************************)
EXTENDS Integers, Sequences, FiniteSets

CONSTANTS
    ThRequests,    \* request threads; each serves one request after another
    Members, Guests,    \* clients: authenticated users, and addresses
    ThTenants,     \* "no_tenant" stands for a request without one
    Plans,         \* the slugs of plans; "" when there is no subscription or plan
    ScopeRates,    \* DEFAULT_THROTTLE_RATES, as [num, per] for each scope
    PlanRates,     \* PLAN_THROTTLE_RATES, as [num, per] for some slugs
    Loads,         \* bound: the sets of [view, who, tenant] that a behaviour's requests
                   \* are taken from
    MaxTick        \* bound: how long the system is watched

VARIABLES
    tick,
    entry,      \* the cache: [times, until] for each key, newest time first
    plan,       \* the slug of each tenant's plan
    load,       \* the requests that arrive
    thReq,      \* each request: the throttles left to ask, and what it holds
    th          \* history, for the properties only

thVars == <<tick, entry, plan, load, thReq, th>>

Scopes == {"anon", "user", "login", "register", "plan"}
Views == {"default", "token", "register", "plan"}
Rate == [num : Nat \ {0}, per : Nat \ {0}]

ASSUME ThrottlingAssumption ==
    /\ MaxTick \in Nat /\ "no_tenant" \notin ThTenants /\ Plans # {}
    /\ \A l \in Loads : l \subseteq [view : Views, who : Members \cup Guests,
                                      tenant : ThTenants \cup {"no_tenant"}]
    /\ ScopeRates \in [Scopes \ {"plan"} -> Rate]
    /\ DOMAIN PlanRates \subseteq Plans /\ \A s \in DOMAIN PlanRates : PlanRates[s] \in Rate

\* The throttles of a view that stand in a client's way, in order.  The token
\* view authenticates nobody.
Checks(view, who) ==
    CASE view = "default" /\ who \in Members -> <<"user">>
      [] view = "default" /\ who \in Guests -> <<"anon", "user">>
      [] view = "token" /\ who \in Guests -> <<"anon", "user", "login">>
      [] view = "register" -> <<"register">>
      [] view = "plan" /\ who \in Members -> <<"plan">>
      [] OTHER -> <<>>

\* get_cache_key: only the plan throttle's key names the tenant.
KeyOf(scope, who, tenant) == <<scope, who, IF scope = "plan" THEN tenant ELSE "no_tenant">>

Keys ==
    UNION {{KeyOf(Checks(q.view, q.who)[i], q.who, q.tenant) : i \in DOMAIN Checks(q.view, q.who)} :
              q \in UNION Loads}

NoEntry == [times |-> <<>>, until |-> 0]

ThIdle == [pc |-> "idle", todo |-> <<>>, who |-> "", tenant |-> "no_tenant",
           now |-> 0, per |-> 1, times |-> <<>>]

ThInit ==
    /\ tick = 0
    /\ entry = [k \in Keys |-> NoEntry]
    /\ plan = [t \in ThTenants |-> CHOOSE s \in Plans : TRUE]
    /\ load \in Loads
    /\ thReq = [r \in ThRequests |-> ThIdle]
    /\ th = [let |-> [k \in Keys |-> <<>>],   \* when each throttle let a request through
             per |-> [k \in Keys |-> 0],      \* the duration last in use
             excused |-> {},                  \* keys that two requests held at once, or whose
                                              \* duration has grown; let is given up for them
             wrong |-> {}]                    \* keys with an answer other than the window's

-----------------------------------------------------------------------------
\* _resolve_plan_rate and the fall-back of get_rate
RateOf(scope, tenant) ==
    IF scope # "plan" THEN ScopeRates[scope]
    ELSE IF tenant \in ThTenants /\ plan[tenant] \in DOMAIN PlanRates THEN PlanRates[plan[tenant]]
    ELSE ScopeRates["user"]

Current(k) == IF entry[k].until > tick THEN entry[k].times ELSE <<>>

\* Mutant: a time exactly one duration old still counts.
WithinStrict(times, per) ==
    SubSeq(times, 1, Cardinality({i \in DOMAIN times : times[i] >= tick - per}))

\* The times that are left once those a duration old or older are popped off the
\* end: the newest come first.
Within(times, per) ==
    SubSeq(times, 1, Cardinality({i \in DOMAIN times : times[i] > tick - per}))

ThArrive(r, q) ==
    /\ thReq[r].pc = "idle"
    /\ Checks(q.view, q.who) # <<>>
    /\ thReq' = [thReq EXCEPT ![r] = [ThIdle EXCEPT !.pc = "ask", !.todo = Checks(q.view, q.who),
                                          !.who = q.who, !.tenant = q.tenant]]
    /\ UNCHANGED <<tick, entry, plan, load, th>>

MyKey(r) == KeyOf(Head(thReq[r].todo), thReq[r].who, thReq[r].tenant)

\* The other requests that have read this key's entry and not yet written it.
Holding(k, r) == {q \in ThRequests \ {r} : thReq[q].pc = "write" /\ MyKey(q) = k}

\* check_throttles asks every throttle, whatever those before have said; the request
\* is answered, with 429 if one refused, when none is left.
NextCheck(r) ==
    thReq' = [thReq EXCEPT ![r] =
        IF Len(@.todo) = 1 THEN ThIdle
        ELSE [ThIdle EXCEPT !.pc = "ask", !.todo = Tail(thReq[r].todo), !.who = thReq[r].who,
                            !.tenant = thReq[r].tenant]]

\* allow_request: the entry is read and pruned; a full one is a refusal.
Ask(r) ==
    LET k == MyKey(r)
        rate == RateOf(Head(thReq[r].todo), thReq[r].tenant)
        times == Within(Current(k), rate.per)
        full == Len(times) >= rate.num
        due == Cardinality({i \in DOMAIN th.let[k] : th.let[k][i] > tick - rate.per}) >= rate.num
        excused == Holding(k, r) # {} \/ th.per[k] \in 1..(rate.per - 1)
    IN
    /\ thReq[r].pc = "ask"
    /\ IF full THEN NextCheck(r)
       ELSE thReq' = [thReq EXCEPT ![r].pc = "write", ![r].now = tick, ![r].per = rate.per,
                                   ![r].times = times]
    /\ th' = [th EXCEPT !.wrong = IF full # due THEN @ \cup {k} ELSE @,
                        !.excused = IF excused THEN @ \cup {k} ELSE @,
                        !.let[k] = IF excused THEN <<>> ELSE @,
                        !.per[k] = rate.per]
    /\ UNCHANGED <<tick, entry, plan, load>>

\* throttle_success: the time read goes in front and the list is cached for one
\* duration.
Count(r) ==
    LET k == MyKey(r) IN
    /\ thReq[r].pc = "write"
    /\ entry' = [entry EXCEPT ![k] = [times |-> <<thReq[r].now>> \o thReq[r].times,
                                      until |-> tick + thReq[r].per]]
    /\ th' = [th EXCEPT !.let[k] = IF k \in th.excused THEN @ ELSE Append(@, thReq[r].now)]
    /\ NextCheck(r)
    /\ UNCHANGED <<tick, plan, load>>

\* A cache call raises, or the request is killed.
ThCrash(r) ==
    /\ thReq[r].pc # "idle"
    /\ thReq' = [thReq EXCEPT ![r] = ThIdle]
    /\ UNCHANGED <<tick, entry, plan, load, th>>

\* Bound: plans only change where a plan throttle is asked.
ChangeTenantPlan(t, s) ==
    /\ \E q \in load : q.view = "plan"
    /\ s # plan[t] /\ plan' = [plan EXCEPT ![t] = s]
    /\ UNCHANGED <<tick, entry, load, thReq, th>>

Tick ==
    /\ tick < MaxTick /\ tick' = tick + 1
    /\ UNCHANGED <<entry, plan, load, thReq, th>>

ThrottlingNext ==
    \/ \E r \in ThRequests :
          \/ \E q \in load : ThArrive(r, q)
          \/ Ask(r) \/ Count(r) \/ ThCrash(r)
    \/ \E t \in ThTenants, s \in Plans : ChangeTenantPlan(t, s)
    \/ Tick

ThrottlingSpec == ThInit /\ [][ThrottlingNext]_thVars

-----------------------------------------------------------------------------
(* Properties *)

\* The types of the variables.
ThrottlingTypeOK ==
    /\ tick \in 0..MaxTick /\ load \in Loads /\ plan \in [ThTenants -> Plans]
    /\ \A k \in Keys : entry[k].times \in Seq(0..MaxTick) /\ entry[k].until \in Nat
    /\ \A r \in ThRequests :
          /\ thReq[r].pc \in {"idle", "ask", "write"}
          /\ thReq[r].todo \in Seq(Scopes) /\ (thReq[r].todo = <<>> <=> thReq[r].pc = "idle")
          /\ thReq[r].times \in Seq(0..MaxTick)
    /\ th.excused \cup th.wrong \subseteq Keys

\* A throttle refuses a request exactly when it has let its number through within
\* the duration just past, neither sooner nor later, however the plan's rate has
\* changed: unless two requests of one key have crossed, or a plan has brought a
\* longer duration than the entry was kept for.
WindowIsExact == th.wrong \subseteq th.excused
=============================================================================
