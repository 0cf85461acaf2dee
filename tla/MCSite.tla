-------------------------------- MODULE MCSite --------------------------------
(***************************************************************************)
(* Site for TLC.  The components share no variable, so a behaviour here     *)
(* lets one of them act, with the others at rest.                           *)
(***************************************************************************)
EXTENDS Site, TLC

CONSTANTS Acting, f1, f2

VARIABLE acting

MCDefaults == f1 :> TRUE
MCPlanFlags == "free" :> (f1 :> FALSE @@ f2 :> FALSE) @@ "pro" :> (f1 :> TRUE @@ f2 :> FALSE)

MCRate(num, per) == [num |-> num, per |-> per]
MCScopeRates == "anon" :> MCRate(1, 1) @@ "user" :> MCRate(2, 1)
             @@ "login" :> MCRate(1, 2) @@ "register" :> MCRate(1, 2)
MCPlanRates == "pro" :> MCRate(1, 2)

MCAsk(view, who, tenant) == [view |-> view, who |-> who, tenant |-> tenant]
MCLoads == {{MCAsk("plan", "user", "acme")},
            {MCAsk("plan", "user", "no_tenant"), MCAsk("default", "user", "acme")},
            {MCAsk("default", "guest", "acme")},
            {MCAsk("register", "guest", "acme")}}

\* Of a component that does not act, one initial state will do.  waffle starts empty, as
\* the administrators can make and delete every entry.
OneAtRest ==
    /\ acting # "reset" => \A u, v \in PrUsers : row[u] = row[v]
    /\ acting # "flags" => slug = "free"
    /\ waffle = [f \in Flags |-> "none"]
    /\ acting # "throttling" => load = CHOOSE l \in Loads : TRUE

MCInit == SiteInit /\ acting \in Acting /\ OneAtRest

\* Bound: waffle comes to have an entry for f1 only.
MCFlagsAct == FeatureFlagsActs /\ waffle'[f2] = "none"

MCNext ==
    /\ UNCHANGED acting
    /\ \/ acting = "two-factor" /\ TwoFactorActs
       \/ acting = "registration" /\ RegistrationActs
       \/ acting = "reset" /\ PasswordResetActs
       \/ acting = "notifications" /\ NotificationsActs
       \/ acting = "flags" /\ MCFlagsAct
       \/ acting = "profile" /\ ProfileActs
       \/ acting = "throttling" /\ ThrottlingActs

MCSpec == MCInit /\ [][MCNext]_<<siteVars, acting>>

\* The components take their values from the same few sets.
MCSymmetry == Permutations(TFRequests) \cup Permutations(Secrets) \cup Permutations(CodeNumbers)
              \cup Permutations(PrAddresses)
=============================================================================
