----------------------------- MODULE Membership -----------------------------
(***************************************************************************)
(* Members of tenants: invitations (services/invitations), the roles they   *)
(* turn into (services/rbac) and the plan's limit on members                *)
(* (services/billing/plan_limit_service.py).                                *)
(*                                                                          *)
(* A request runs without a transaction: each of its queries is committed   *)
(* on its own, and another request may run between two of them.  So each    *)
(* query is an action, and a request carries what it has read.  A request   *)
(* begins when HasRolePermission has let it in.                             *)
(***************************************************************************)
EXTENDS Integers, FiniteSets

CONSTANTS
    Users, Tenants, Emails,
    Superusers,    \* users with is_superuser
    EmailOf,       \* the address of each user; other addresses are not registered
    MaxMembers,    \* Plan.max_members of each tenant; 0: unlimited, or no plan
    Founders,      \* the roles given when a tenant is set up
    Invites,       \* invitation rows that may come to exist
    Requests,      \* request threads; each serves one request after another
    GivenRoles,    \* bound: the roles that requests give
    Expiry,        \* _EXPIRY_HOURS
    MaxTime,       \* bound: the last hour of the clock
    MaxCrashes,    \* bound: how often a request is killed
    NoUser, NoTenant, NoEmail, NoInvite, NoRole

VARIABLES
    inv,       \* the TenantInvitation rows
    role,      \* the UserTenantRole rows: unique for each user and tenant
    req,       \* each request: how far it is and what it holds
    mailed,    \* invitations whose e-mail task was enqueued
    granted,   \* history: the roles given by accepting an invitation
    orphans,   \* history: the invitation and user of each acceptance that died before its save
    now,
    crashes

vars == <<inv, role, req, mailed, granted, orphans, now, crashes>>

RoleChoices == {"owner", "admin", "member"}
AdminRoles == {"owner", "admin"}
Closed == {"accepted", "revoked", "expired"}
People == Users \cup {NoUser}

\* Who has passed the check of send_invitation and is yet to create the row, and who has
\* found an invitation usable and is yet to give its role or to save its status.
Inviting == {"send_limit", "send_create"}
Granting == {"accept_member", "accept_assign", "accept_save"}

ASSUME MembershipAssumption ==
    /\ EmailOf \in [Users -> Emails]
    /\ MaxMembers \in [Tenants -> Nat]
    /\ Founders \in [Tenants -> [Users -> RoleChoices \cup {NoRole}]]
    /\ GivenRoles \subseteq RoleChoices /\ Superusers \subseteq Users
    /\ Expiry \in Nat /\ MaxTime \in Nat /\ MaxCrashes \in Nat
    /\ NoUser \notin Users /\ NoInvite \notin Invites /\ NoRole \notin RoleChoices

\* History in a row, a request and a grant: "beside" are the users whose requests had
\* passed the same check, and were not through, when its own request passed it; "late"
\* says that the invitation could not be used any more when the request came in.
Unsent == [status |-> "unsent", tenant |-> NoTenant, email |-> NoEmail, role |-> NoRole,
           expires |-> 0, invitedBy |-> NoUser, acceptedBy |-> NoUser, beside |-> {}]

Idle == [pc |-> "idle", user |-> NoUser, tenant |-> NoTenant, inv |-> NoInvite,
         email |-> NoEmail, role |-> NoRole, late |-> FALSE, beside |-> {}]

Init ==
    /\ inv = [i \in Invites |-> Unsent]
    /\ role = Founders
    /\ req = [r \in Requests |-> Idle]
    /\ mailed = {}
    /\ granted = {}
    /\ orphans = {}
    /\ now = 0
    /\ crashes = 0

-----------------------------------------------------------------------------
IsMember(u, t) == role[t][u] # NoRole

\* RBACService.has_role
HasRole(u, t, roles) == u \in Superusers \/ role[t][u] \in roles

\* HasRolePermission, once the tenant is resolved.
HasPermission(u, t) == HasRole(u, t, AdminRoles)

\* HasRolePermission at the invitation endpoints: the tenant of the X-Tenant-ID
\* header, or else the host's, is the one checked; the view acts on the host's.
LetIn(u) == \E t \in Tenants : HasPermission(u, t)

\* Mutant: an hour longer.
IsExpiredLater(i) == now > inv[i].expires + 1

\* TenantInvitation.is_expired
IsExpired(i) == now > inv[i].expires

MemberCount(t) == Cardinality({u \in Users : IsMember(u, t)})

\* PlanLimitService.check_member_limit returns rather than raises.
WithinLimit(t) == MaxMembers[t] = 0 \/ MemberCount(t) < MaxMembers[t]

At(r, pc) == req[r].pc = pc
Goto(r, pc) == req' = [req EXCEPT ![r].pc = pc]
Pass(r, pc, users) == req' = [req EXCEPT ![r].pc = pc, ![r].beside = users]
Done(r) == req' = [req EXCEPT ![r] = Idle]

InvitersOf(email, t) ==
    {req[q].user : q \in {p \in Requests : /\ req[p].pc \in Inviting
                                           /\ req[p].email = email /\ req[p].tenant = t}}
GranteesOf(i) == {req[q].user : q \in {p \in Requests : req[p].pc \in Granting /\ req[p].inv = i}}

rows == <<inv, role>>
world == <<mailed, granted, orphans, now, crashes>>

-----------------------------------------------------------------------------
(* POST /invitations/: InvitationService.send_invitation *)

BeginSend(r, actor, t, email, new) ==
    /\ At(r, "idle") /\ LetIn(actor)
    /\ req' = [req EXCEPT ![r] = [Idle EXCEPT !.pc = "send_member", !.user = actor,
                                     !.tenant = t, !.email = email, !.role = new]]
    /\ UNCHANGED <<rows, world>>

\* The address belongs to a member: a conflict.
SendMember(r) ==
    /\ At(r, "send_member")
    /\ IF \E u \in Users : EmailOf[u] = req[r].email /\ IsMember(u, req[r].tenant)
       THEN Done(r) ELSE Goto(r, "send_pending")
    /\ UNCHANGED <<rows, world>>

\* Mutant: only invitations that have not expired count, as in list_pending.
SendPendingUnexpired(r) ==
    /\ At(r, "send_pending")
    /\ IF \E i \in Invites : /\ inv[i].status = "pending" /\ inv[i].email = req[r].email
                             /\ inv[i].tenant = req[r].tenant /\ ~IsExpired(i)
       THEN Done(r) ELSE Pass(r, "send_limit", InvitersOf(req[r].email, req[r].tenant))
    /\ UNCHANGED <<rows, world>>

\* An invitation of the address is pending, be it expired: a conflict.
SendPending(r) ==
    /\ At(r, "send_pending")
    /\ IF \E i \in Invites : /\ inv[i].status = "pending" /\ inv[i].email = req[r].email
                             /\ inv[i].tenant = req[r].tenant
       THEN Done(r) ELSE Pass(r, "send_limit", InvitersOf(req[r].email, req[r].tenant))
    /\ UNCHANGED <<rows, world>>

SendLimit(r) ==
    /\ At(r, "send_limit")
    /\ IF WithinLimit(req[r].tenant) THEN Goto(r, "send_create") ELSE Done(r)
    /\ UNCHANGED <<rows, world>>

SendCreate(r, i) ==
    /\ At(r, "send_create") /\ inv[i] = Unsent
    /\ inv' = [inv EXCEPT ![i] = [status |-> "pending", tenant |-> req[r].tenant,
                                  email |-> req[r].email, role |-> req[r].role,
                                  expires |-> now + Expiry, invitedBy |-> req[r].user,
                                  acceptedBy |-> NoUser, beside |-> req[r].beside]]
    /\ req' = [req EXCEPT ![r].pc = "send_mail", ![r].inv = i, ![r].beside = {}]
    /\ UNCHANGED <<role, world>>

\* Mutant: the whole row is saved again, from the copy made at its creation.
SendMailSaves(r) ==
    /\ At(r, "send_mail")
    /\ mailed' = mailed \cup {req[r].inv}
    /\ inv' = [inv EXCEPT ![req[r].inv].status = "pending"]
    /\ Done(r)
    /\ UNCHANGED <<role, granted, orphans, now, crashes>>

\* _dispatch_email; when delay raises, Crash stands for the error response.
SendMail(r) ==
    /\ At(r, "send_mail")
    /\ mailed' = mailed \cup {req[r].inv}
    /\ Done(r)
    /\ UNCHANGED <<rows, granted, orphans, now, crashes>>

-----------------------------------------------------------------------------
(* POST /invitations/{token}/accept/: InvitationService.accept_invitation *)

\* Any authenticated user who has the token; the address is not compared.
BeginAccept(r, u, i) ==
    /\ At(r, "idle") /\ inv[i] # Unsent
    /\ req' = [req EXCEPT ![r] = [Idle EXCEPT !.pc = "accept_read", !.user = u, !.inv = i,
                                     !.late = inv[i].status # "pending" \/ now > inv[i].expires]]
    /\ UNCHANGED <<rows, world>>

\* The row is read; its status and expiry are looked at in that copy.
AcceptRead(r) ==
    LET i == req[r].inv IN
    /\ At(r, "accept_read")
    /\ \/ inv[i].status # "pending" /\ Done(r)
       \/ inv[i].status = "pending" /\ IsExpired(i) /\ Goto(r, "accept_expire")
       \/ inv[i].status = "pending" /\ ~IsExpired(i)
          /\ Pass(r, "accept_member", GranteesOf(i))
    /\ UNCHANGED <<rows, world>>

AcceptExpire(r) ==
    /\ At(r, "accept_expire")
    /\ inv' = [inv EXCEPT ![req[r].inv].status = "expired"]
    /\ Done(r)
    /\ UNCHANGED <<role, world>>

\* Mutant: update_or_create is relied on instead.
AcceptMemberUnchecked(r) ==
    /\ At(r, "accept_member")
    /\ Goto(r, "accept_assign")
    /\ UNCHANGED <<rows, world>>

AcceptMember(r) ==
    /\ At(r, "accept_member")
    /\ IF IsMember(req[r].user, inv[req[r].inv].tenant) THEN Done(r) ELSE Goto(r, "accept_assign")
    /\ UNCHANGED <<rows, world>>

GrantTo(x) == [inv |-> x.inv, user |-> x.user, late |-> x.late, beside |-> x.beside]

\* Mutant: a failing upsert is swallowed, as a failing audit entry is.
AcceptAssignSwallows(r) ==
    LET i == req[r].inv IN
    /\ At(r, "accept_assign")
    /\ \/ /\ role' = [role EXCEPT ![inv[i].tenant][req[r].user] = inv[i].role]
          /\ granted' = granted \cup {GrantTo(req[r])}
       \/ UNCHANGED <<role, granted>>
    /\ Goto(r, "accept_save")
    /\ UNCHANGED <<inv, mailed, orphans, now, crashes>>

\* RBACService.assign_role: update_or_create, an existing role is replaced.
AcceptAssign(r) ==
    LET i == req[r].inv IN
    /\ At(r, "accept_assign")
    /\ role' = [role EXCEPT ![inv[i].tenant][req[r].user] = inv[i].role]
    /\ granted' = granted \cup {GrantTo(req[r])}
    /\ Goto(r, "accept_save")
    /\ UNCHANGED <<inv, mailed, orphans, now, crashes>>

\* Mutant: a status that is not one of the choices.
AcceptSaveUsed(r) ==
    /\ At(r, "accept_save")
    /\ inv' = [inv EXCEPT ![req[r].inv].status = "used",
                          ![req[r].inv].acceptedBy = req[r].user]
    /\ Done(r)
    /\ UNCHANGED <<role, world>>

\* Mutant: update_fields without status.
AcceptSaveKeepsPending(r) ==
    /\ At(r, "accept_save")
    /\ inv' = [inv EXCEPT ![req[r].inv].acceptedBy = req[r].user]
    /\ Done(r)
    /\ UNCHANGED <<role, world>>

\* save(update_fields=["status", "accepted_by"]), whatever the row holds by now.
AcceptSave(r) ==
    /\ At(r, "accept_save")
    /\ inv' = [inv EXCEPT ![req[r].inv].status = "accepted",
                          ![req[r].inv].acceptedBy = req[r].user]
    /\ Done(r)
    /\ UNCHANGED <<role, world>>

-----------------------------------------------------------------------------
(* DELETE /invitations/{id}/: InvitationService.revoke_invitation *)

BeginRevoke(r, actor, t, i) ==
    /\ At(r, "idle") /\ LetIn(actor) /\ inv[i] # Unsent
    /\ req' = [req EXCEPT ![r] = [Idle EXCEPT !.pc = "revoke_read", !.user = actor,
                                     !.tenant = t, !.inv = i]]
    /\ UNCHANGED <<rows, world>>

RevokeRead(r) ==
    LET i == req[r].inv IN
    /\ At(r, "revoke_read")
    /\ IF inv[i].tenant = req[r].tenant /\ inv[i].status = "pending"
       THEN Goto(r, "revoke_save") ELSE Done(r)
    /\ UNCHANGED <<rows, world>>

RevokeSave(r) ==
    /\ At(r, "revoke_save")
    /\ inv' = [inv EXCEPT ![req[r].inv].status = "revoked"]
    /\ Done(r)
    /\ UNCHANGED <<role, world>>

-----------------------------------------------------------------------------
(* The role endpoints: RBACService.assign_role and revoke_role *)

BeginRole(r, actor, t, u, new) ==
    /\ At(r, "idle") /\ HasPermission(actor, t)
    /\ req' = [req EXCEPT ![r] = [Idle EXCEPT !.pc = "role", !.user = u,
                                     !.tenant = t, !.role = new]]
    /\ UNCHANGED <<rows, world>>

\* An upsert, or, for NoRole, a delete.
WriteRole(r) ==
    /\ At(r, "role")
    /\ role' = [role EXCEPT ![req[r].tenant][req[r].user] = req[r].role]
    /\ Done(r)
    /\ UNCHANGED <<inv, world>>

-----------------------------------------------------------------------------
\* A request is killed, or a query or delay raises: what it wrote stays.
Crash(r) ==
    /\ crashes < MaxCrashes /\ ~At(r, "idle")
    /\ Done(r)
    /\ orphans' = IF At(r, "accept_save") THEN orphans \cup {<<req[r].inv, req[r].user>>} ELSE orphans
    /\ crashes' = crashes + 1
    /\ UNCHANGED <<rows, mailed, granted, now>>

Tick ==
    /\ now < MaxTime
    /\ now' = now + 1
    /\ UNCHANGED <<rows, req, mailed, granted, orphans, crashes>>

Begin(r) ==
    \E u \in Users, t \in Tenants :
        \/ \E email \in Emails, new \in GivenRoles : BeginSend(r, u, t, email, new)
        \/ \E i \in Invites : BeginRevoke(r, u, t, i)
        \/ \E v \in Users, new \in GivenRoles \cup {NoRole} : BeginRole(r, u, t, v, new)

Serve(r) ==
    \/ SendMember(r) \/ SendPending(r) \/ SendLimit(r)
    \/ \E i \in Invites : SendCreate(r, i)
    \/ SendMail(r)
    \/ AcceptRead(r) \/ AcceptExpire(r) \/ AcceptMember(r) \/ AcceptAssign(r) \/ AcceptSave(r)
    \/ RevokeRead(r) \/ RevokeSave(r)
    \/ WriteRole(r)

Next ==
    \/ \E r \in Requests :
          \/ Begin(r)
          \/ \E u \in Users, i \in Invites : BeginAccept(r, u, i)
          \/ Serve(r) \/ Crash(r)
    \/ Tick

Spec == Init /\ [][Next]_vars

-----------------------------------------------------------------------------
(* Properties *)

\* The types of the variables.
TypeOK ==
    /\ inv \in [Invites ->
          [status : {"unsent", "pending"} \cup Closed, tenant : Tenants \cup {NoTenant},
           email : Emails \cup {NoEmail}, role : RoleChoices \cup {NoRole},
           expires : Nat, invitedBy : People, acceptedBy : People,
           beside : SUBSET People]]
    /\ role \in [Tenants -> [Users -> RoleChoices \cup {NoRole}]]
    /\ req \in [Requests ->
          [pc : {"idle", "send_member", "send_pending", "send_limit", "send_create",
                 "send_mail", "accept_read", "accept_expire", "accept_member",
                 "accept_assign", "accept_save", "revoke_read", "revoke_save", "role"},
           user : People, tenant : Tenants \cup {NoTenant},
           inv : Invites \cup {NoInvite}, email : Emails \cup {NoEmail},
           role : RoleChoices \cup {NoRole}, late : BOOLEAN,
           beside : SUBSET People]]
    /\ mailed \subseteq Invites
    /\ granted \subseteq [inv : Invites, user : Users, late : BOOLEAN,
                          beside : SUBSET People]
    /\ orphans \subseteq Invites \X Users
    /\ now \in Nat /\ crashes \in Nat

\* An accepted invitation names a user to whom it did give a role: requests that
\* overlap or die never leave "accepted" without the membership.
AcceptedBacked ==
    \A i \in Invites : inv[i].status = "accepted" =>
        \E g \in granted : g.inv = i /\ g.user = inv[i].acceptedBy

\* Who comes when an invitation is already used, revoked or expired gets nothing
\* from it, whichever requests are still under way.
LateGetsNothing == \A g \in granted : ~g.late

\* A closed invitation is never pending again, although requests write back
\* statuses they decided on from an old copy of the row.
ClosedStaysClosed ==
    [][\A i \in Invites : inv[i].status \in Closed => inv'[i].status \in Closed]_vars

\* Who has been given a role has used the invitation up: it is closed, his request is
\* about to close it, or that request died in between.  So a member whose invitation
\* is still pending is one whose acceptance was killed between assign_role and save.
Orphaned(g) == <<g.inv, g.user>> \in orphans
GrantsSpent ==
    \A g \in granted :
        \/ inv[g.inv].status \in Closed \/ Orphaned(g)
        \/ \E r \in Requests : /\ At(r, "accept_save")
                               /\ req[r].inv = g.inv /\ req[r].user = g.user

\* An invitation brings in one user.  Of two whom it brought in, one had found it usable
\* while the request of the other, whom the history names, was between its own look at
\* the row and its save, or the request of one of the two died before that save.
UsersExplained ==
    \A g, h \in granted : g.inv = h.inv =>
        \/ g.user = h.user
        \/ g.user \in h.beside \/ h.user \in g.beside
        \/ Orphaned(g) \/ Orphaned(h)

SameAddress(i, j) == inv[i].email = inv[j].email /\ inv[i].tenant = inv[j].tenant
BothPending(i, j) == inv[i].status = "pending" /\ inv[j].status = "pending"

\* An address has one pending invitation to a tenant.  Of two, the one's sender was past
\* the check for pending invitations, and had not created its row, when the other's
\* sender passed that check: neither a crash, nor an expiry, nor a save of an old status
\* makes two.
PendingExplained ==
    \A i, j \in Invites : i # j /\ BothPending(i, j) /\ SameAddress(i, j) =>
        inv[i].invitedBy \in inv[j].beside \/ inv[j].invitedBy \in inv[i].beside

\* Requests do what TenantMembers allows, however they overlap and die.  An invitation
\* is open while it is pending and has not expired; who has found it so has a claim.
Stage == [accept_member |-> "made", accept_assign |-> "vetted", accept_save |-> "joined"]

Open == {i \in Invites : inv[i].status = "pending" /\ now <= inv[i].expires}
Offered == {i \in Invites : inv[i].status # "unsent"}
Joined == {<<g.inv, g.user>> : g \in granted}
TermsOf(i) == [inv |-> i, tenant |-> inv[i].tenant, email |-> inv[i].email, role |-> inv[i].role]
ClaimOf(r) ==
    IF req[r].pc \in Granting
    THEN [terms |-> TermsOf(req[r].inv), user |-> req[r].user, stage |-> Stage[req[r].pc]]
    ELSE [stage |-> "none"]

Members == INSTANCE TenantMembers WITH
              Roles <- RoleChoices, open <- {TermsOf(i) : i \in Open},
              offered <- Offered, claim <- [r \in Requests |-> ClaimOf(r)], joined <- Joined

\* The refinement: the requests of the services make the claims, in any interleaving.
MembersSpec == Members!Spec

\* Plan.max_members: a tenant that starts within its plan stays within it.
MemberLimit ==
    \A t \in Tenants : MaxMembers[t] # 0 => MemberCount(t) <= MaxMembers[t]
=============================================================================
