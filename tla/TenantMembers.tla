---------------------------- MODULE TenantMembers ----------------------------
(***************************************************************************)
(* What the invitation and role endpoints promise of a tenant, however the  *)
(* requests overlap and die.  A user joins only by a claim on an invitation *)
(* that was open when the claim was made, once for each claim, after he was *)
(* seen to have no role, and gets the role that the invitation names.  What *)
(* is closed is never open again, and a claim that has brought its user in  *)
(* closes its invitation, unless it is abandoned before: that join is on    *)
(* record.  Roles change by nothing else.                                   *)
(***************************************************************************)
CONSTANTS Users, Tenants, Emails, Invites, Roles, Founders, NoRole, Requests

VARIABLES
    open,    \* the invitations that can be claimed, with their terms
    offered, \* every invitation that was ever open
    claim,   \* the claim that each request holds
    joined,  \* the invitation and user of each join
    orphans, \* the joins whose claim was abandoned
    role     \* the role of each user in each tenant

vars == <<open, offered, claim, joined, orphans, role>>

Terms == [inv : Invites, tenant : Tenants, email : Emails, role : Roles]

NoClaim == [stage |-> "none"]

Init ==
    /\ open = {} /\ offered = {} /\ joined = {} /\ orphans = {}
    /\ claim = [r \in Requests |-> NoClaim]
    /\ role = Founders

Invite(o) ==
    /\ o.inv \notin offered
    /\ open' = open \cup {o} /\ offered' = offered \cup {o.inv}
    /\ UNCHANGED <<claim, joined, orphans, role>>

Close ==
    /\ open' \subseteq open
    /\ UNCHANGED <<offered, claim, joined, orphans, role>>

Held(r, stage) == claim[r].stage = stage
Pair(r) == <<claim[r].terms.inv, claim[r].user>>

Claim(r, o, u) ==
    /\ Held(r, "none")
    /\ claim' = [claim EXCEPT ![r] = [terms |-> o, user |-> u, stage |-> "made"]]
    /\ UNCHANGED <<open, offered, joined, orphans, role>>

Vet(r) ==
    /\ Held(r, "made") /\ role[claim[r].terms.tenant][claim[r].user] = NoRole
    /\ claim' = [claim EXCEPT ![r].stage = "vetted"]
    /\ UNCHANGED <<open, offered, joined, orphans, role>>

Join(r) ==
    /\ Held(r, "vetted")
    /\ role' = [role EXCEPT ![claim[r].terms.tenant][claim[r].user] = claim[r].terms.role]
    /\ joined' = joined \cup {Pair(r)}
    /\ claim' = [claim EXCEPT ![r].stage = "joined"]
    /\ UNCHANGED <<open, offered, orphans>>

Settle(r) ==
    /\ Held(r, "joined")
    /\ open' = open \ {claim[r].terms}
    /\ claim' = [claim EXCEPT ![r] = NoClaim]
    /\ UNCHANGED <<offered, joined, orphans, role>>

Abandon(r) ==
    /\ ~Held(r, "none")
    /\ orphans' = IF Held(r, "joined") THEN orphans \cup {Pair(r)} ELSE orphans
    /\ claim' = [claim EXCEPT ![r] = NoClaim]
    /\ UNCHANGED <<open, offered, joined, role>>

ChangeRole(u, t, new) ==
    /\ role' = [role EXCEPT ![t][u] = new]
    /\ UNCHANGED <<open, offered, claim, joined, orphans>>

Next ==
    \/ Close \/ \E o \in Terms : Invite(o)
    \/ \E r \in Requests :
          \/ \E o \in open, u \in Users : Claim(r, o, u)
          \/ Vet(r) \/ Join(r) \/ Settle(r) \/ Abandon(r)
    \/ \E u \in Users, t \in Tenants, new \in Roles \cup {NoRole} : ChangeRole(u, t, new)

Spec == Init /\ [][Next]_vars
=============================================================================
