----------------------------- MODULE FeatureFlags -----------------------------
(***************************************************************************)
(* The feature flags of one tenant: its overrides (TenantFeatureFlag), the  *)
(* global waffle entries below them, the two endpoints that resolve a flag  *)
(* and sync_plan_flags, which writes an override for each flag of the plan  *)
(* (services/features/feature_service.py, apps/features).                   *)
(*                                                                          *)
(* A flag is resolved by several queries.  waffle answers False, not None,  *)
(* for a name that it does not have: a reader goes on to                    *)
(* FEATURE_FLAGS_DEFAULTS only when waffle fails, although the settings and *)
(* both modules say that the default answers for a flag without an entry.   *)
(***************************************************************************)
EXTENDS Integers, FiniteSets

CONSTANTS
    Flags,
    Defaults,      \* FEATURE_FLAGS_DEFAULTS: for some flags, a state
    Slugs,         \* the slugs of plans; "" when there is no plan
    PlanFlags,     \* PLAN_FEATURE_FLAGS: for some slugs, a state for some flags
    Readers,       \* requests to the endpoints; each serves one after another
    Syncs          \* calls of sync_plan_flags

VARIABLES
    override,   \* the TenantFeatureFlag rows of the tenant: on, off or none
    waffle,     \* the waffle Flag of each name: on or off for the request, or none
    slug,       \* the slug of the subscription's plan
    reader,     \* each reader: how far it is and what it has found
    sync,       \* each sync: the plan that it read and the flags left to write
    synced      \* history: nothing was written since the last sync, which was alone

ffVars == <<override, waffle, slug, reader, sync, synced>>

ASSUME FeatureFlagsAssumption ==
    /\ DOMAIN Defaults \subseteq Flags /\ \A f \in DOMAIN Defaults : Defaults[f] \in BOOLEAN
    /\ DOMAIN PlanFlags \subseteq Slugs
    /\ \A s \in DOMAIN PlanFlags :
          DOMAIN PlanFlags[s] \subseteq Flags /\ \A f \in DOMAIN PlanFlags[s] : PlanFlags[s][f] \in BOOLEAN

States == {"on", "off"}
AsState(b) == IF b THEN "on" ELSE "off"

Known == DOMAIN Defaults

\* was and touched are history: the states that the flag has had while the reader was at
\* work, and what made its answer uncertain (Seen and AskWaffle say when).
FfIdle == [pc |-> "idle", flag |-> "", answer |-> "none", was |-> {}, touched |-> {}]
SyncIdle == [pc |-> "idle", slug |-> "", todo |-> {}, alone |-> FALSE]

FfInit ==
    /\ override = [f \in Flags |-> "none"]
    /\ waffle \in [Flags -> States \cup {"none"}]
    /\ slug \in Slugs
    /\ reader = [r \in Readers |-> FfIdle]
    /\ sync = [s \in Syncs |-> SyncIdle]
    /\ synced = FALSE

-----------------------------------------------------------------------------
\* _get_default
Default(f) == AsState(f \in Known /\ Defaults[f])

\* The order of is_enabled: the override, else waffle, else the default, each if there is
\* one.
Below(f, wf) == IF wf[f] # "none" THEN wf[f] ELSE Default(f)
Resolved(f, ov, wf) == IF ov[f] # "none" THEN ov[f] ELSE Below(f, wf)

\* After a write to flag f, what each reader of f has seen: the new state and, when the
\* reader is between its two queries in one of pcs, what was written.
Seen(f, what, pcs, ov, wf) ==
    [r \in Readers |->
        IF reader[r].pc \notin {"idle", "answered"} /\ reader[r].flag = f
        THEN [reader[r] EXCEPT !.was = @ \cup {Resolved(f, ov, wf)},
                               !.touched = @ \cup (IF reader[r].pc \in pcs THEN {what} ELSE {})]
        ELSE reader[r]]

\* A sync under way is no longer alone.
Disturbed == [s \in Syncs |-> IF sync[s].pc = "idle" THEN sync[s] ELSE [sync[s] EXCEPT !.alone = FALSE]]

\* Deleting an override can mislead the list, which asks waffle first, and writing one
\* the single flag, which asks waffle last.
Between == {"list_overrides", "detail_waffle"}
Misled(state) == {IF state = "none" THEN "list_overrides" ELSE "detail_waffle"}

SetOverride(f, state) ==
    /\ override' = [override EXCEPT ![f] = state]
    /\ reader' = Seen(f, "override", Misled(state), override', waffle)

-----------------------------------------------------------------------------
(* GET /features/ and GET /features/<flag_name>/, with a tenant.  The list  *)
(* holds many flags; a reader here looks at one of them.                    *)

FfBegin(r, pc, f) ==
    /\ reader[r].pc = "idle"
    /\ reader' = [reader EXCEPT ![r] = [pc |-> pc, flag |-> f, answer |-> "none",
                                        was |-> {Resolved(f, override, waffle)}, touched |-> {}]]
    /\ UNCHANGED <<override, waffle, slug, sync, synced>>

FfEnd(r) ==
    /\ reader[r].pc = "answered"
    /\ reader' = [reader EXCEPT ![r] = FfIdle]
    /\ UNCHANGED <<override, waffle, slug, sync, synced>>

\* _get_waffle_flag, _get_default: the Flag of that name, off if there is none; when that
\* query fails, the Switch of that name or, if that fails too, the default.
Found(r, pc, state, how) ==
    reader' = [reader EXCEPT ![r].pc = pc, ![r].answer = state, ![r].touched = @ \cup how]

AskWaffle(r, pc) ==
    LET entry == waffle[reader[r].flag] IN
    \/ entry # "none" /\ Found(r, pc, entry, {})
    \/ entry = "none" /\ Found(r, pc, "off", {"missing"})
    \/ \E state \in States : Found(r, pc, state, {"failed"})

\* for_tenant: waffle for each known flag.
ListWaffle(r) ==
    /\ reader[r].pc = "list"
    /\ IF reader[r].flag \in Known THEN AskWaffle(r, "list_overrides")
       ELSE reader' = [reader EXCEPT ![r].pc = "list_overrides"]
    /\ UNCHANGED <<override, waffle, slug, sync, synced>>

\* Mutant: an override only speaks for flags that waffle has not switched on.
ListOverridesBelow(r) ==
    LET f == reader[r].flag IN
    /\ reader[r].pc = "list_overrides"
    /\ reader' = [reader EXCEPT ![r].pc = "answered",
                                ![r].answer = IF override[f] = "none" \/ @ = "on" THEN @ ELSE override[f]]
    /\ UNCHANGED <<override, waffle, slug, sync, synced>>

\* for_tenant: the tenant's rows go over what was found.
ListOverrides(r) ==
    LET f == reader[r].flag IN
    /\ reader[r].pc = "list_overrides"
    /\ reader' = [reader EXCEPT ![r].pc = "answered",
                                ![r].answer = IF override[f] = "none" THEN @ ELSE override[f]]
    /\ UNCHANGED <<override, waffle, slug, sync, synced>>

\* is_enabled: the tenant's row, if there is one.  A failing query counts as none.
DetailOverride(r) ==
    LET f == reader[r].flag IN
    /\ reader[r].pc = "detail"
    /\ \/ /\ override[f] # "none"
          /\ reader' = [reader EXCEPT ![r].pc = "answered", ![r].answer = override[f]]
       \/ /\ override[f] = "none"
          /\ reader' = [reader EXCEPT ![r].pc = "detail_waffle"]
       \/ reader' = [reader EXCEPT ![r].pc = "detail_waffle", ![r].touched = @ \cup {"failed"}]
    /\ UNCHANGED <<override, waffle, slug, sync, synced>>

\* is_enabled: waffle.
DetailWaffle(r) ==
    /\ reader[r].pc = "detail_waffle"
    /\ AskWaffle(r, "answered")
    /\ UNCHANGED <<override, waffle, slug, sync, synced>>

-----------------------------------------------------------------------------
(* Administration *)

\* FeatureService.set_for_tenant, or the admin page.
SetForTenant(f, state) ==
    /\ SetOverride(f, state)
    /\ sync' = Disturbed /\ synced' = FALSE
    /\ UNCHANGED <<waffle, slug>>

\* The admin deletes an override.
DeleteOverride(f) ==
    /\ override[f] # "none"
    /\ SetOverride(f, "none")
    /\ sync' = Disturbed /\ synced' = FALSE
    /\ UNCHANGED <<waffle, slug>>

\* The admin creates, switches or deletes the Flag of that name.
SetWaffle(f, state) ==
    /\ state # waffle[f] /\ waffle' = [waffle EXCEPT ![f] = state]
    /\ reader' = Seen(f, "waffle", Between, override, waffle')
    /\ UNCHANGED <<override, slug, sync, synced>>

ChangePlan(s) ==
    /\ s # slug /\ slug' = s
    /\ sync' = Disturbed /\ synced' = FALSE
    /\ UNCHANGED <<override, waffle, reader>>

-----------------------------------------------------------------------------
(* FeatureService.sync_plan_flags *)

\* The flags that the setting has for a plan.
FlagsOf(plan) == IF plan \in DOMAIN PlanFlags THEN DOMAIN PlanFlags[plan] ELSE {}

\* The plan is read; a plan without an entry has no flags to write.
SyncRead(s) ==
    /\ sync[s].pc = "idle" /\ FlagsOf(slug) # {}
    /\ sync' = [Disturbed EXCEPT ![s] = [pc |-> "write", slug |-> slug, todo |-> FlagsOf(slug),
                                         alone |-> \A q \in Syncs : sync[q].pc = "idle"]]
    /\ UNCHANGED <<override, waffle, slug, reader, synced>>

Written(s, f) ==
    LET left == sync[s].todo \ {f} IN
    /\ sync' = [Disturbed EXCEPT ![s] = IF left = {} THEN SyncIdle
                                        ELSE [sync[s] EXCEPT !.todo = left]]
    /\ synced' = (left = {} /\ sync[s].alone)

\* Mutant: get_or_create, which leaves an override that is there.
SyncWriteNew(s, f) ==
    /\ sync[s].pc = "write" /\ f \in sync[s].todo
    /\ IF override[f] = "none" THEN SetOverride(f, AsState(PlanFlags[sync[s].slug][f]))
       ELSE UNCHANGED <<override, reader>>
    /\ Written(s, f)
    /\ UNCHANGED <<waffle, slug>>

\* One flag after another, each with update_or_create.
SyncWrite(s, f) ==
    /\ sync[s].pc = "write" /\ f \in sync[s].todo
    /\ SetOverride(f, AsState(PlanFlags[sync[s].slug][f]))
    /\ Written(s, f)
    /\ UNCHANGED <<waffle, slug>>

\* The process dies between two flags: those written stay.
SyncDies(s) ==
    /\ sync[s].pc = "write"
    /\ sync' = [sync EXCEPT ![s] = SyncIdle]
    /\ UNCHANGED <<override, waffle, slug, reader, synced>>

FeatureFlagsNext ==
    \/ \E r \in Readers :
          \/ \E f \in Flags, pc \in {"list", "detail"} : FfBegin(r, pc, f)
          \/ ListWaffle(r) \/ ListOverrides(r) \/ DetailOverride(r) \/ DetailWaffle(r) \/ FfEnd(r)
    \/ \E f \in Flags :
          \/ \E state \in States : SetForTenant(f, state)
          \/ DeleteOverride(f)
          \/ \E state \in States \cup {"none"} : SetWaffle(f, state)
    \/ \E s \in Slugs : ChangePlan(s)
    \/ \E s \in Syncs :
          \/ SyncRead(s) \/ SyncDies(s)
          \/ \E f \in Flags : SyncWrite(s, f)

FeatureFlagsSpec == FfInit /\ [][FeatureFlagsNext]_ffVars

-----------------------------------------------------------------------------
(* Properties *)

\* The types of the variables.
FeatureFlagsTypeOK ==
    /\ override \in [Flags -> States \cup {"none"}]
    /\ waffle \in [Flags -> States \cup {"none"}]
    /\ slug \in Slugs
    /\ \A r \in Readers :
          /\ reader[r].pc \in {"idle", "list", "list_overrides", "detail", "detail_waffle", "answered"}
          /\ reader[r].answer \in States \cup {"none"}
          /\ reader[r].touched \subseteq {"override", "waffle", "missing", "failed"}
    /\ \A s \in Syncs : sync[s].todo \subseteq Flags
    /\ synced \in BOOLEAN

\* Both endpoints answer with a state that the flag had at some moment of the request,
\* although they read the override and waffle in two steps and in opposite orders.  Not
\* so if between the two waffle was changed and, for the list, the override deleted or,
\* for a single flag, written; if a query failed; or if a flag that is on by default had
\* no entry in waffle, and was answered off.
AnswersWereTrue ==
    \A r \in Readers : reader[r].pc = "answered" =>
        \/ reader[r].answer \in reader[r].was
        \/ reader[r].answer = "none" /\ reader[r].flag \notin Known
        \/ {"override", "waffle"} \subseteq reader[r].touched
        \/ "failed" \in reader[r].touched
        \/ /\ "missing" \in reader[r].touched
           /\ reader[r].answer = "off" /\ Default(reader[r].flag) = "on"

\* What the comment of FEATURE_FLAGS_DEFAULTS says: a flag that has neither a waffle entry
\* nor an override is in its default state, and both endpoints then answer with that.
DefaultsAnswer ==
    \A r \in Readers :
        /\ reader[r].pc = "answered" /\ reader[r].flag \in Known
        /\ reader[r].touched \subseteq {"missing"}
        => reader[r].answer \in reader[r].was

\* After a sync that nothing disturbed, every flag that the plan speaks of is in
\* the state of the plan, whatever plans and overrides there were before.
SyncedAgrees ==
    synced => \A f \in FlagsOf(slug) : override[f] = AsState(PlanFlags[slug][f])
=============================================================================
