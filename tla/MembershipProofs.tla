--------------------------- MODULE MembershipProofs ---------------------------
(***************************************************************************)
(* Proofs about Membership, of every interleaving and every death of its    *)
(* requests: what they cannot do at all, what explains each second user of  *)
(* an invitation and each second invitation of an address, and that they    *)
(* implement TenantMembers.                                                 *)
(***************************************************************************)
EXTENDS Membership, TLAPS

InviteRow ==
    [status : {"unsent", "pending"} \cup Closed, tenant : Tenants \cup {NoTenant},
     email : Emails \cup {NoEmail}, role : RoleChoices \cup {NoRole},
     expires : Nat, invitedBy : People, acceptedBy : People, beside : SUBSET People]

Request ==
    [pc : {"idle", "send_member", "send_pending", "send_limit", "send_create",
           "send_mail", "accept_read", "accept_expire", "accept_member",
           "accept_assign", "accept_save", "revoke_read", "revoke_save", "role"},
     user : People, tenant : Tenants \cup {NoTenant},
     inv : Invites \cup {NoInvite}, email : Emails \cup {NoEmail},
     role : RoleChoices \cup {NoRole}, late : BOOLEAN, beside : SUBSET People]

Grant == [inv : Invites, user : Users, late : BOOLEAN, beside : SUBSET People]

Sending == {"send_member", "send_pending", "send_limit", "send_create"}
Accepting == {"accept_read", "accept_expire"} \cup Granting
Revoking == {"revoke_read", "revoke_save"}

\* A row is as Unsent until it is created, and from then on names a tenant and a role.
RowSound(row) ==
    /\ row.status = "unsent" => row = Unsent
    /\ row.status # "unsent" => row.tenant \in Tenants /\ row.role \in RoleChoices

\* What a request x relies on: the row of its invitation was created, an invitation
\* that came too late is refused, and a grant was made before its acceptance is saved.
Sound(x, rowOf, grants, hour) ==
    /\ x.pc \in Sending => x.tenant \in Tenants /\ x.email \in Emails /\ x.role \in RoleChoices
    /\ x.pc = "role" => x.tenant \in Tenants /\ x.user \in Users
    /\ x.pc = "send_mail" => x.inv \in Invites
    /\ x.pc \in Accepting => x.user \in Users
    /\ x.pc \in Accepting \cup Revoking => x.inv \in Invites /\ rowOf[x.inv].status # "unsent"
    /\ x.pc = "accept_read" /\ x.late =>
          rowOf[x.inv].status # "pending" \/ hour > rowOf[x.inv].expires
    /\ x.pc \in Granting => ~x.late
    /\ x.pc = "accept_save" => \E g \in grants : g.inv = x.inv /\ g.user = x.user

\* What any step may do to a row: create it, or close it and keep the rest.
Advances(old, new) ==
    \/ new = old
    \/ old.status = "unsent"
    \/ /\ old.status # "unsent" /\ new.status \in Closed
       /\ new.tenant = old.tenant /\ new.email = old.email /\ new.role = old.role
       /\ new.expires = old.expires /\ new.invitedBy = old.invitedBy /\ new.beside = old.beside

RowsSound == \A i \in Invites : RowSound(inv[i])
RequestsSound == \A r \in Requests : Sound(req[r], inv, granted, now)

IndInv == TypeOK /\ RowsSound /\ RequestsSound /\ AcceptedBacked /\ LateGetsNothing

\* What the steps have in common.
Moves ==
    /\ \A i \in Invites : Advances(inv[i], inv'[i])
    /\ granted \subseteq granted' /\ now <= now'

\* A request that has ended is well typed.
LEMMA IdleFacts ==
    Idle \in Request /\ Idle.pc = "idle"
  BY DEF Idle, Request, People

\* It relies on nothing, whatever the rows are.
LEMMA IdleSound == \A rowOf, grants, hour : Sound(Idle, rowOf, grants, hour)
  BY IdleFacts DEF Sound, Sending, Accepting, Granting, Revoking

\* A row that is not created yet is a sound one.
LEMMA UnsentFacts ==
    Unsent \in InviteRow /\ Unsent.status = "unsent" /\ RowSound(Unsent)
  BY DEF Unsent, InviteRow, People, RowSound

\* Other requests and the clock do not take from a request what it relies on.
LEMMA SoundKept ==
    ASSUME IndInv, Moves, now' \in Nat, NEW x \in Request, Sound(x, inv, granted, now)
    PROVE  Sound(x, inv', granted', now')
<1>1. CASE x.pc \in Accepting \cup Revoking
  <2>1. x.inv \in Invites /\ inv[x.inv].status # "unsent"
    BY <1>1 DEF Sound
  <2>2. inv[x.inv] \in InviteRow /\ inv[x.inv].expires \in Nat /\ now \in Nat
    BY <2>1 DEF IndInv, TypeOK, InviteRow, People
  <2>3. Advances(inv[x.inv], inv'[x.inv])
    BY <2>1 DEF Moves
  <2>4. /\ inv'[x.inv].status # "unsent" /\ inv'[x.inv].expires = inv[x.inv].expires
        /\ inv'[x.inv].status = inv[x.inv].status \/ inv'[x.inv].status \in Closed
    BY <2>1, <2>3 DEF Advances, Closed
  <2>5. x.pc = "accept_read" /\ x.late =>
            inv'[x.inv].status # "pending" \/ now' > inv'[x.inv].expires
    BY <2>1, <2>2, <2>4 DEF Sound, Moves, Closed
  <2>6. x.pc = "accept_save" => \E g \in granted' : g.inv = x.inv /\ g.user = x.user
    BY DEF Sound, Moves
  <2> QED BY <2>1, <2>4, <2>5, <2>6 DEF Sound
<1>2. CASE x.pc \notin Accepting \cup Revoking
  BY <1>2 DEF Sound, Accepting, Revoking, Granting
<1> QED BY <1>1, <1>2

\* One request moves: the requests stay sound when it does.
LEMMA RequestMoves ==
    ASSUME IndInv, Moves, now' \in Nat, NEW r \in Requests, NEW new \in Request,
           req' = [req EXCEPT ![r] = new], Sound(new, inv', granted', now')
    PROVE  req' \in [Requests -> Request] /\ RequestsSound'
<1>1. req \in [Requests -> Request]
  BY DEF IndInv, TypeOK, Request, People
<1>2. req' \in [Requests -> Request] /\ \A q \in Requests : req'[q] = IF q = r THEN new ELSE req[q]
  BY <1>1
<1>3. ASSUME NEW q \in Requests PROVE Sound(req'[q], inv', granted', now')
  <2>1. CASE q = r
    BY <1>2, <2>1
  <2>2. CASE q # r
    <3>1. req'[q] = req[q] /\ req[q] \in Request /\ Sound(req[q], inv, granted, now)
      BY <1>1, <1>2, <2>2 DEF IndInv, RequestsSound
    <3> QED BY <3>1, SoundKept
  <2> QED BY <2>1, <2>2
<1> QED BY <1>2, <1>3 DEF RequestsSound

\* A request moves on or ends and changes nothing else.
LEMMA QuietMove ==
    ASSUME IndInv, UNCHANGED <<inv, role, granted, now>>, mailed' \subseteq Invites,
           orphans' \subseteq Invites \X Users, crashes' \in Nat,
           NEW r \in Requests, NEW new \in Request,
           req' = [req EXCEPT ![r] = new], Sound(new, inv, granted, now)
    PROVE  IndInv'
<1>1. Moves /\ now' \in Nat
  BY DEF Moves, Advances, IndInv, TypeOK
<1>2. Sound(new, inv', granted', now')
  OBVIOUS
<1>3. req' \in [Requests -> Request] /\ RequestsSound'
  BY <1>1, <1>2, RequestMoves
<1> QED BY <1>3 DEF IndInv, TypeOK, Request, People, RowsSound, AcceptedBacked, LateGetsNothing

\* A request at r that only moves its program counter.
LEMMA GotoFacts ==
    ASSUME IndInv, NEW r \in Requests, NEW pc, Goto(r, pc),
           pc \in {"send_pending", "send_limit", "send_create", "accept_expire", "accept_member",
                   "accept_assign", "accept_save", "revoke_save"}
    PROVE  \E new \in Request :
              /\ req' = [req EXCEPT ![r] = new] /\ new.pc = pc
              /\ new.user = req[r].user /\ new.tenant = req[r].tenant /\ new.inv = req[r].inv
              /\ new.email = req[r].email /\ new.role = req[r].role /\ new.late = req[r].late
              /\ new.beside = req[r].beside
<1> DEFINE x == req[r]
           new == [x EXCEPT !.pc = pc]
<1>1. x \in Request /\ req \in [Requests -> Request]
  BY DEF IndInv, TypeOK, Request, People
<1>2. req' = [req EXCEPT ![r] = new]
  BY <1>1 DEF Goto
<1> HIDE DEF x
<1>3. /\ new \in Request /\ new.pc = pc
      /\ new.user = x.user /\ new.tenant = x.tenant /\ new.inv = x.inv
      /\ new.email = x.email /\ new.role = x.role /\ new.late = x.late /\ new.beside = x.beside
  BY <1>1 DEF Request, People
<1> HIDE DEF new
<1> QED BY <1>2, <1>3 DEF x

\* The users of requests that are past a check.
LEMMA BesideTyped ==
    ASSUME TypeOK
    PROVE  /\ \A email, t : InvitersOf(email, t) \in SUBSET People
           /\ \A i : GranteesOf(i) \in SUBSET People
  BY DEF TypeOK, InvitersOf, GranteesOf, People

\* A request at r that passes a check and notes who else had.
LEMMA PassFacts ==
    ASSUME IndInv, NEW r \in Requests, NEW pc, NEW users \in SUBSET People, Pass(r, pc, users),
           pc \in {"send_limit", "accept_member"}
    PROVE  \E new \in Request :
              /\ req' = [req EXCEPT ![r] = new] /\ new.pc = pc /\ new.beside = users
              /\ new.user = req[r].user /\ new.tenant = req[r].tenant /\ new.inv = req[r].inv
              /\ new.email = req[r].email /\ new.role = req[r].role /\ new.late = req[r].late
<1> DEFINE x == req[r]
           new == [x EXCEPT !.pc = pc, !.beside = users]
<1>1. x \in Request /\ req \in [Requests -> Request]
  BY DEF IndInv, TypeOK, Request, People
<1>2. req' = [req EXCEPT ![r] = new]
  BY <1>1 DEF Pass
<1> HIDE DEF x
<1>3. /\ new \in Request /\ new.pc = pc /\ new.beside = users
      /\ new.user = x.user /\ new.tenant = x.tenant /\ new.inv = x.inv
      /\ new.email = x.email /\ new.role = x.role /\ new.late = x.late
  BY <1>1 DEF Request, People
<1> HIDE DEF new
<1> QED BY <1>2, <1>3 DEF x

\* At the start no invitation was sent and no request is under way.
LEMMA InitEstablishes == Init => IndInv
<1> SUFFICES ASSUME Init PROVE IndInv
  OBVIOUS
<1>1. TypeOK
  BY MembershipAssumption, IdleFacts, UnsentFacts DEF Init, TypeOK, Request, People, InviteRow
<1>2. RowsSound
  BY UnsentFacts DEF Init, RowsSound
<1>3. RequestsSound
  BY IdleSound DEF Init, RequestsSound
<1>4. AcceptedBacked /\ LateGetsNothing
  BY UnsentFacts DEF Init, AcceptedBacked, LateGetsNothing
<1> QED BY <1>1, <1>2, <1>3, <1>4 DEF IndInv

\* A request ends: it returns, is refused or is killed.
LEMMA DoneStep ==
    ASSUME IndInv, UNCHANGED <<inv, role, granted, now>>, mailed' \subseteq Invites,
           orphans' \subseteq Invites \X Users, crashes' \in Nat,
           NEW r \in Requests, Done(r)
    PROVE  IndInv'
  BY IdleFacts, IdleSound, QuietMove DEF Done

\* A new send_invitation has the tenant and role that the view was given.
LEMMA BeginSendStep ==
    ASSUME IndInv, NEW r \in Requests, NEW u \in Users, NEW t \in Tenants, NEW email \in Emails,
           NEW new \in GivenRoles, BeginSend(r, u, t, email, new)
    PROVE  IndInv'
<1> DEFINE x == [Idle EXCEPT !.pc = "send_member", !.user = u, !.tenant = t, !.email = email, !.role = new]
<1>1. req' = [req EXCEPT ![r] = x] /\ UNCHANGED <<inv, role, mailed, granted, orphans, now, crashes>>
  BY DEF BeginSend, rows, world
<1>2. new \in RoleChoices
  BY MembershipAssumption
<1>3. x \in Request /\ x.pc = "send_member" /\ x.tenant = t /\ x.email = email /\ x.role = new
  BY <1>2, IdleFacts DEF Request, People
<1> HIDE DEF x
<1>4. Sound(x, inv, granted, now)
  BY <1>2, <1>3 DEF Sound, Sending, Accepting, Granting, Revoking
<1> QED BY <1>1, <1>3, <1>4, QuietMove DEF IndInv, TypeOK

\* A new accept_invitation is late exactly if its invitation cannot be used any more.
LEMMA BeginAcceptStep ==
    ASSUME IndInv, NEW r \in Requests, NEW u \in Users, NEW i \in Invites, BeginAccept(r, u, i)
    PROVE  IndInv'
<1> DEFINE late == inv[i].status # "pending" \/ now > inv[i].expires
           x == [Idle EXCEPT !.pc = "accept_read", !.user = u, !.inv = i, !.late = late]
<1>1. /\ req' = [req EXCEPT ![r] = x] /\ UNCHANGED <<inv, role, mailed, granted, orphans, now, crashes>>
      /\ inv[i] # Unsent
  BY DEF BeginAccept, rows, world
<1>2. inv[i].status # "unsent" /\ late \in BOOLEAN
  BY <1>1 DEF IndInv, RowsSound, RowSound
<1>3. late => inv[i].status # "pending" \/ now > inv[i].expires
  OBVIOUS
<1> HIDE DEF late
<1>4. x \in Request /\ x.pc = "accept_read" /\ x.user = u /\ x.inv = i /\ x.late = late
  BY <1>2, IdleFacts DEF Request, People
<1> HIDE DEF x
<1>5. Sound(x, inv, granted, now)
  BY <1>2, <1>3, <1>4 DEF Sound, Sending, Accepting, Granting, Revoking
<1> QED BY <1>1, <1>4, <1>5, QuietMove DEF IndInv, TypeOK

\* The row that a new revoke_invitation names was created.
LEMMA BeginRevokeStep ==
    ASSUME IndInv, NEW r \in Requests, NEW u \in Users, NEW t \in Tenants, NEW i \in Invites,
           BeginRevoke(r, u, t, i)
    PROVE  IndInv'
<1> DEFINE x == [Idle EXCEPT !.pc = "revoke_read", !.user = u, !.tenant = t, !.inv = i]
<1>1. /\ req' = [req EXCEPT ![r] = x] /\ UNCHANGED <<inv, role, mailed, granted, orphans, now, crashes>>
      /\ inv[i] # Unsent
  BY DEF BeginRevoke, rows, world
<1>2. inv[i].status # "unsent"
  BY <1>1 DEF IndInv, RowsSound, RowSound
<1>3. x \in Request /\ x.pc = "revoke_read" /\ x.inv = i
  BY IdleFacts DEF Request, People
<1> HIDE DEF x
<1>4. Sound(x, inv, granted, now)
  BY <1>2, <1>3 DEF Sound, Sending, Accepting, Granting, Revoking
<1> QED BY <1>1, <1>3, <1>4, QuietMove DEF IndInv, TypeOK

\* A request of the role view has its tenant and its user.
LEMMA BeginRoleStep ==
    ASSUME IndInv, NEW r \in Requests, NEW u \in Users, NEW t \in Tenants, NEW v \in Users,
           NEW new \in GivenRoles \cup {NoRole}, BeginRole(r, u, t, v, new)
    PROVE  IndInv'
<1> DEFINE x == [Idle EXCEPT !.pc = "role", !.user = v, !.tenant = t, !.role = new]
<1>1. req' = [req EXCEPT ![r] = x] /\ UNCHANGED <<inv, role, mailed, granted, orphans, now, crashes>>
  BY DEF BeginRole, rows, world
<1>2. new \in RoleChoices \cup {NoRole}
  BY MembershipAssumption
<1>3. x \in Request /\ x.pc = "role" /\ x.user = v /\ x.tenant = t
  BY <1>2, IdleFacts DEF Request, People
<1> HIDE DEF x
<1>4. Sound(x, inv, granted, now)
  BY <1>3 DEF Sound, Sending, Accepting, Granting, Revoking
<1> QED BY <1>1, <1>3, <1>4, QuietMove DEF IndInv, TypeOK

\* The steps that read: the request goes on, knowing what it read, or ends.
LEMMA ReadStep ==
    ASSUME IndInv, NEW r \in Requests,
           SendMember(r) \/ SendPending(r) \/ SendLimit(r) \/ AcceptRead(r) \/ AcceptMember(r) \/ RevokeRead(r)
    PROVE  IndInv'
<1> DEFINE x == req[r]
<1>1. /\ UNCHANGED <<inv, role, mailed, granted, orphans, now, crashes>>
      /\ x \in Request /\ Sound(x, inv, granted, now)
      /\ mailed \subseteq Invites /\ orphans \subseteq Invites \X Users /\ crashes \in Nat
  BY DEF SendMember, SendPending, SendLimit, AcceptRead, AcceptMember, RevokeRead, rows, world,
     IndInv, TypeOK, Request, RequestsSound
<1>2. CASE Done(r)
  BY <1>1, <1>2, DoneStep
<1>3. ASSUME NEW pc \in {"send_pending", "send_limit", "send_create", "accept_expire", "accept_member",
                         "accept_assign", "revoke_save"},
             Goto(r, pc),
             pc \in Sending => x.pc \in Sending,
             pc \in Accepting => x.pc \in Accepting /\ (pc \in Granting => ~x.late),
             pc \in Revoking => x.pc \in Revoking
      PROVE  IndInv'
  <2>1. PICK new \in Request :
           /\ req' = [req EXCEPT ![r] = new] /\ new.pc = pc
           /\ new.user = x.user /\ new.tenant = x.tenant /\ new.inv = x.inv
           /\ new.email = x.email /\ new.role = x.role /\ new.late = x.late
    BY <1>3, GotoFacts
  <2> HIDE DEF x
  <2>2. Sound(new, inv, granted, now)
    BY <1>1, <1>3, <2>1 DEF Sound, Sending, Accepting, Granting, Revoking
  <2> QED BY <1>1, <2>1, <2>2, QuietMove
<1>4. ASSUME NEW pc \in {"send_limit", "accept_member"}, NEW users \in SUBSET People, Pass(r, pc, users),
             pc = "send_limit" => x.pc \in Sending,
             pc = "accept_member" => x.pc \in Accepting /\ ~x.late
      PROVE  IndInv'
  <2>1. PICK new \in Request :
           /\ req' = [req EXCEPT ![r] = new] /\ new.pc = pc
           /\ new.user = x.user /\ new.tenant = x.tenant /\ new.inv = x.inv
           /\ new.email = x.email /\ new.role = x.role /\ new.late = x.late
    BY <1>4, PassFacts
  <2> HIDE DEF x
  <2>2. Sound(new, inv, granted, now)
    BY <1>1, <1>4, <2>1 DEF Sound, Sending, Accepting, Granting, Revoking
  <2> QED BY <1>1, <2>1, <2>2, QuietMove
<1>5. CASE SendMember(r) \/ SendLimit(r)
  BY <1>2, <1>3, <1>5 DEF SendMember, SendLimit, At, Sending, Accepting, Granting, Revoking
<1>6. CASE SendPending(r)
  BY <1>2, <1>4, <1>6, BesideTyped DEF SendPending, At, Sending, IndInv
<1>7. CASE AcceptRead(r)
  <2>1. x.pc = "accept_read" /\ x.inv \in Invites
    BY <1>1, <1>7 DEF AcceptRead, At, Sound, Accepting
  <2>2. CASE Goto(r, "accept_expire")
    BY <1>3, <2>1, <2>2 DEF Sending, Accepting, Granting, Revoking
  <2>3. CASE Pass(r, "accept_member", GranteesOf(x.inv)) /\ inv[x.inv].status = "pending" /\ ~IsExpired(x.inv)
    <3>1. now \in Nat /\ inv[x.inv].expires \in Nat
      BY <2>1 DEF IndInv, TypeOK
    <3>2. ~x.late
      BY <1>1, <2>1, <2>3, <3>1 DEF Sound, IsExpired, Request, People
    <3> QED BY <1>4, <2>1, <2>3, <3>2, BesideTyped DEF Accepting, IndInv
  <2> QED BY <1>2, <1>7, <2>2, <2>3 DEF AcceptRead
<1>8. CASE AcceptMember(r)
  <2>1. x.pc = "accept_member" /\ ~x.late
    BY <1>1, <1>8 DEF AcceptMember, At, Sound, Granting
  <2> QED BY <1>2, <1>3, <1>8, <2>1 DEF AcceptMember, Sending, Accepting, Granting, Revoking
<1>9. CASE RevokeRead(r)
  BY <1>2, <1>3, <1>9 DEF RevokeRead, At, Sending, Accepting, Granting, Revoking
<1> QED BY <1>4, <1>5, <1>6, <1>7, <1>8, <1>9

\* send_invitation creates a row nobody else relies on yet.
LEMMA SendCreateStep ==
    ASSUME IndInv, NEW r \in Requests, NEW i \in Invites, SendCreate(r, i)
    PROVE  Moves /\ IndInv'
<1> DEFINE x == req[r]
           row == [status |-> "pending", tenant |-> x.tenant, email |-> x.email, role |-> x.role,
                   expires |-> now + Expiry, invitedBy |-> x.user, acceptedBy |-> NoUser,
                   beside |-> x.beside]
           new == [x EXCEPT !.pc = "send_mail", !.inv = i, !.beside = {}]
<1>1. /\ x \in Request /\ x.pc = "send_create" /\ inv[i] = Unsent
      /\ x.tenant \in Tenants /\ x.role \in RoleChoices
      /\ inv' = [inv EXCEPT ![i] = row] /\ UNCHANGED <<role, mailed, granted, orphans, now, crashes>>
  BY DEF SendCreate, At, world, IndInv, TypeOK, Request, People, RequestsSound, Sound, Sending
<1>2. req' = [req EXCEPT ![r] = new]
  BY DEF SendCreate, IndInv, TypeOK, Request, People
<1>3. now + Expiry \in Nat
  BY MembershipAssumption DEF IndInv, TypeOK
<1>4. row \in InviteRow /\ RowSound(row) /\ row.status = "pending"
  BY <1>1, <1>3 DEF InviteRow, People, RowSound, Request
<1> HIDE DEF x
<1>5. new \in Request /\ new.pc = "send_mail" /\ new.inv = i
  BY <1>1 DEF Request, People
<1> HIDE DEF row, new
<1>6. Sound(new, inv', granted', now')
  BY <1>5 DEF Sound, Sending, Accepting, Granting, Revoking
<1>7. inv' \in [Invites -> InviteRow] /\ \A j \in Invites : inv'[j] = IF j = i THEN row ELSE inv[j]
  BY <1>1, <1>4 DEF IndInv, TypeOK, InviteRow, People
<1>8. Moves /\ now' \in Nat
  BY <1>1, <1>7, UnsentFacts DEF Moves, Advances, IndInv, TypeOK
<1>9. req' \in [Requests -> Request] /\ RequestsSound'
  BY <1>2, <1>5, <1>6, <1>8, RequestMoves
<1>10. TypeOK'
  BY <1>1, <1>7, <1>9 DEF IndInv, TypeOK, InviteRow, People, Request
<1>11. RowsSound' /\ AcceptedBacked' /\ LateGetsNothing'
  BY <1>1, <1>4, <1>7 DEF IndInv, RowsSound, AcceptedBacked, LateGetsNothing
<1> QED BY <1>8, <1>9, <1>10, <1>11 DEF IndInv

\* Calling delay ends the request and changes no row.
LEMMA SendMailStep == ASSUME IndInv, NEW r \in Requests, SendMail(r) PROVE IndInv'
<1>1. /\ UNCHANGED <<inv, role, granted, orphans, now, crashes>> /\ Done(r)
      /\ mailed' = mailed \cup {req[r].inv} /\ req[r].pc = "send_mail"
  BY DEF SendMail, At, rows
<1>2. req[r].inv \in Invites
  BY <1>1 DEF IndInv, RequestsSound, Sound
<1>3. mailed' \subseteq Invites /\ orphans' \subseteq Invites \X Users /\ crashes' \in Nat
  BY <1>1, <1>2 DEF IndInv, TypeOK
<1> QED BY <1>1, <1>3, DoneStep

\* A request closes its row and ends; what it closed was accepted only with a grant.
LEMMA CloseStep ==
    ASSUME IndInv, NEW r \in Requests, req[r].pc \in Accepting \cup Revoking, Done(r),
           UNCHANGED <<role, mailed, granted, orphans, now, crashes>>,
           NEW row \in InviteRow, inv' = [inv EXCEPT ![req[r].inv] = row],
           Advances(inv[req[r].inv], row), row.status \in Closed,
           row.status = "accepted" =>
               \E g \in granted : g.inv = req[r].inv /\ g.user = row.acceptedBy
    PROVE  Moves /\ IndInv'
<1> DEFINE i == req[r].inv
<1>1. i \in Invites /\ inv[i].status # "unsent"
  BY DEF IndInv, RequestsSound, Sound
<1>2. inv' \in [Invites -> InviteRow] /\ \A j \in Invites : inv'[j] = IF j = i THEN row ELSE inv[j]
  BY <1>1 DEF IndInv, TypeOK, InviteRow, People
<1>3. Moves /\ now' \in Nat
  BY <1>1, <1>2 DEF Moves, Advances, IndInv, TypeOK
<1>4. req' \in [Requests -> Request] /\ RequestsSound'
  BY <1>3, IdleFacts, IdleSound, RequestMoves DEF Done
<1>5. TypeOK'
  BY <1>2, <1>4 DEF IndInv, TypeOK, InviteRow, People, Request
<1>6. RowSound(row)
  BY <1>1 DEF IndInv, RowsSound, RowSound, Advances, Closed
<1>7. RowsSound' /\ AcceptedBacked' /\ LateGetsNothing'
  BY <1>2, <1>6 DEF IndInv, RowsSound, AcceptedBacked, LateGetsNothing
<1> QED BY <1>3, <1>4, <1>5, <1>7 DEF IndInv

\* Saving EXPIRED closes the row and grants nothing.
LEMMA AcceptExpireStep == ASSUME IndInv, NEW r \in Requests, AcceptExpire(r) PROVE Moves /\ IndInv'
<1> DEFINE old == inv[req[r].inv]
           row == [old EXCEPT !.status = "expired"]
<1>1. /\ req[r].pc \in Accepting /\ Done(r) /\ UNCHANGED <<role, mailed, granted, orphans, now, crashes>>
      /\ req[r].inv \in Invites /\ old.status # "unsent" /\ old \in InviteRow
      /\ inv' = [inv EXCEPT ![req[r].inv] = row]
  BY DEF AcceptExpire, At, Accepting, world, IndInv, TypeOK, InviteRow, People, RequestsSound, Sound
<1> HIDE DEF old
<1>2. row \in InviteRow /\ row.status = "expired" /\ Advances(old, row)
  BY <1>1 DEF InviteRow, People, Advances, Closed
<1> HIDE DEF row
<1> QED BY <1>1, <1>2, CloseStep DEF old, Closed

\* Saving ACCEPTED closes the row in favour of a user who has been given its role.
LEMMA AcceptSaveStep == ASSUME IndInv, NEW r \in Requests, AcceptSave(r) PROVE Moves /\ IndInv'
<1> DEFINE u == req[r].user
           old == inv[req[r].inv]
           row == [old EXCEPT !.status = "accepted", !.acceptedBy = u]
<1>1. /\ req[r].pc = "accept_save" /\ Done(r) /\ UNCHANGED <<role, mailed, granted, orphans, now, crashes>>
      /\ inv' = [inv EXCEPT ![req[r].inv].status = "accepted", ![req[r].inv].acceptedBy = u]
  BY DEF AcceptSave, At, world
<1>2. /\ req[r].inv \in Invites /\ old.status # "unsent" /\ old \in InviteRow /\ u \in Users
      /\ \E g \in granted : g.inv = req[r].inv /\ g.user = u
  BY <1>1 DEF Accepting, Granting, IndInv, TypeOK, InviteRow, People, RequestsSound, Sound
<1>3. inv' = [inv EXCEPT ![req[r].inv] = row]
  BY <1>1, <1>2 DEF IndInv, TypeOK, InviteRow, People
<1> HIDE DEF old, u
<1>4. row \in InviteRow /\ row.status = "accepted" /\ row.acceptedBy = u /\ Advances(old, row)
  BY <1>2 DEF InviteRow, People, Advances, Closed
<1> HIDE DEF row
<1> QED BY <1>1, <1>2, <1>3, <1>4, CloseStep DEF old, Closed, Accepting, Granting

\* Saving REVOKED closes the row, even one accepted meanwhile, and backs nothing.
LEMMA RevokeSaveStep == ASSUME IndInv, NEW r \in Requests, RevokeSave(r) PROVE Moves /\ IndInv'
<1> DEFINE old == inv[req[r].inv]
           row == [old EXCEPT !.status = "revoked"]
<1>1. /\ req[r].pc \in Revoking /\ Done(r) /\ UNCHANGED <<role, mailed, granted, orphans, now, crashes>>
      /\ req[r].inv \in Invites /\ old.status # "unsent" /\ old \in InviteRow
      /\ inv' = [inv EXCEPT ![req[r].inv] = row]
  BY DEF RevokeSave, At, Revoking, world, IndInv, TypeOK, InviteRow, People, RequestsSound, Sound
<1> HIDE DEF old
<1>2. row \in InviteRow /\ row.status = "revoked" /\ Advances(old, row)
  BY <1>1 DEF InviteRow, People, Advances, Closed
<1> HIDE DEF row
<1> QED BY <1>1, <1>2, CloseStep DEF old, Closed

\* What assign_role writes: the user at a tenant gets a role, and nothing else changes.
LEMMA RoleWritten ==
    ASSUME TypeOK, NEW t \in Tenants, NEW u \in Users, NEW new \in RoleChoices \cup {NoRole},
           role' = [role EXCEPT ![t][u] = new]
    PROVE  /\ role' \in [Tenants -> [Users -> RoleChoices \cup {NoRole}]]
           /\ \A s \in Tenants, v \in Users : role'[s][v] = IF s = t /\ v = u THEN new ELSE role[s][v]
<1> DEFINE row == [role[t] EXCEPT ![u] = new]
<1>1. role' = [role EXCEPT ![t] = row]
  BY DEF TypeOK
<1>2. row \in [Users -> RoleChoices \cup {NoRole}] /\ \A v \in Users : row[v] = IF v = u THEN new ELSE role[t][v]
  BY DEF TypeOK
<1> HIDE DEF row
<1> QED BY <1>1, <1>2 DEF TypeOK

\* assign_role grants to a request that did not come late.
LEMMA AcceptAssignStep == ASSUME IndInv, NEW r \in Requests, AcceptAssign(r) PROVE Moves /\ IndInv'
<1> DEFINE x == req[r]
           i == x.inv
           grant == GrantTo(x)
<1>1. /\ x \in Request /\ x.pc = "accept_assign" /\ Sound(x, inv, granted, now)
      /\ UNCHANGED <<inv, mailed, orphans, now, crashes>> /\ granted' = granted \cup {grant}
      /\ role' = [role EXCEPT ![inv[i].tenant][x.user] = inv[i].role]
      /\ Goto(r, "accept_save")
  BY DEF AcceptAssign, At, IndInv, TypeOK, Request, People, RequestsSound
<1>2. /\ i \in Invites /\ x.user \in Users /\ ~x.late /\ inv[i].status # "unsent"
      /\ inv[i].tenant \in Tenants /\ inv[i].role \in RoleChoices
  BY <1>1 DEF Sound, Accepting, Granting, IndInv, RowsSound, RowSound
<1>3. role' \in [Tenants -> [Users -> RoleChoices \cup {NoRole}]]
  BY <1>1, <1>2, RoleWritten DEF IndInv
<1>4. /\ granted' \subseteq Grant
      /\ grant.inv = i /\ grant.user = x.user /\ ~grant.late
  BY <1>1, <1>2 DEF IndInv, TypeOK, Request, People, Grant, GrantTo
<1>5. PICK new \in Request :
         /\ req' = [req EXCEPT ![r] = new] /\ new.pc = "accept_save"
         /\ new.user = x.user /\ new.inv = x.inv /\ new.late = x.late
  BY <1>1, GotoFacts
<1> HIDE DEF x, grant
<1>6. Moves /\ now' \in Nat
  BY <1>1 DEF Moves, Advances, IndInv, TypeOK
<1>7. Sound(new, inv', granted', now')
  BY <1>1, <1>2, <1>4, <1>5 DEF Sound, Sending, Accepting, Granting, Revoking
<1>8. req' \in [Requests -> Request] /\ RequestsSound'
  BY <1>5, <1>6, <1>7, RequestMoves
<1>9. TypeOK'
  BY <1>1, <1>3, <1>4, <1>8 DEF IndInv, TypeOK, Request, People, Grant
<1>10. RowsSound' /\ AcceptedBacked' /\ LateGetsNothing'
  BY <1>1, <1>4 DEF IndInv, RowsSound, AcceptedBacked, LateGetsNothing
<1> QED BY <1>6, <1>8, <1>9, <1>10 DEF IndInv

\* The role view touches no invitation.
LEMMA WriteRoleStep == ASSUME IndInv, NEW r \in Requests, WriteRole(r) PROVE Moves /\ IndInv'
<1>1. /\ UNCHANGED <<inv, mailed, granted, orphans, now, crashes>> /\ Done(r) /\ req[r].pc = "role"
      /\ role' = [role EXCEPT ![req[r].tenant][req[r].user] = req[r].role]
  BY DEF WriteRole, At, world
<1>2. req[r].tenant \in Tenants /\ req[r].user \in Users /\ req[r].role \in RoleChoices \cup {NoRole}
  BY <1>1 DEF IndInv, TypeOK, RequestsSound, Sound
<1>3. role' \in [Tenants -> [Users -> RoleChoices \cup {NoRole}]]
  BY <1>1, <1>2, RoleWritten DEF IndInv
<1>4. Moves /\ now' \in Nat
  BY <1>1 DEF Moves, Advances, IndInv, TypeOK
<1>5. req' \in [Requests -> Request] /\ RequestsSound'
  BY <1>1, <1>4, IdleFacts, IdleSound, RequestMoves DEF Done
<1> QED BY <1>1, <1>3, <1>4, <1>5 DEF IndInv, TypeOK, Request, People, RowsSound, AcceptedBacked, LateGetsNothing

\* A request that dies leaves the rows as they are.
LEMMA CrashStep == ASSUME IndInv, NEW r \in Requests, Crash(r) PROVE IndInv'
<1>1. /\ UNCHANGED <<inv, role, mailed, granted, now>> /\ Done(r) /\ crashes' = crashes + 1
      /\ orphans' = IF At(r, "accept_save") THEN orphans \cup {<<req[r].inv, req[r].user>>} ELSE orphans
  BY DEF Crash, rows
<1>2. mailed' \subseteq Invites /\ crashes' \in Nat
  BY <1>1 DEF IndInv, TypeOK
<1>3. At(r, "accept_save") => req[r].inv \in Invites /\ req[r].user \in Users
  BY DEF At, Accepting, Granting, IndInv, RequestsSound, Sound
<1>4. orphans' \subseteq Invites \X Users
  BY <1>1, <1>3 DEF IndInv, TypeOK
<1> QED BY <1>1, <1>2, <1>4, DoneStep

\* Time only makes invitations expire, so who was late stays late.
LEMMA TickStep == ASSUME IndInv, Tick PROVE Moves /\ IndInv'
<1>1. UNCHANGED <<inv, role, req, mailed, granted, orphans, crashes>> /\ now' = now + 1 /\ now \in Nat
  BY DEF Tick, rows, IndInv, TypeOK
<1>2. Moves /\ now' \in Nat
  BY <1>1 DEF Moves, Advances
<1>3. RequestsSound'
  <2>1. ASSUME NEW q \in Requests PROVE Sound(req'[q], inv', granted', now')
    <3>1. req'[q] = req[q] /\ req[q] \in Request /\ Sound(req[q], inv, granted, now)
      BY <1>1 DEF IndInv, TypeOK, Request, People, RequestsSound
    <3> QED BY <1>2, <3>1, SoundKept
  <2> QED BY <2>1 DEF RequestsSound
<1> QED BY <1>1, <1>2, <1>3 DEF IndInv, TypeOK, RowsSound, AcceptedBacked, LateGetsNothing

\* Every step keeps the invariant, and only creates or closes rows.
LEMMA IndInvStep == IndInv /\ [Next]_vars => Moves /\ IndInv'
<1> SUFFICES ASSUME IndInv, [Next]_vars PROVE Moves /\ IndInv'
  OBVIOUS
<1>1. ASSUME UNCHANGED <<inv, granted, now>> PROVE Moves
  BY <1>1 DEF Moves, Advances, IndInv, TypeOK
<1>2. CASE UNCHANGED vars
  <2>1. RequestsSound'
    BY <1>2 DEF vars, IndInv, RequestsSound
  <2> QED BY <1>1, <1>2, <2>1 DEF vars, IndInv, TypeOK, RowsSound, AcceptedBacked, LateGetsNothing
<1>3. ASSUME NEW r \in Requests, Begin(r) PROVE Moves /\ IndInv'
  <2>1. UNCHANGED <<inv, granted, now>>
    BY <1>3 DEF Begin, BeginSend, BeginRevoke, BeginRole, rows, world
  <2> QED BY <1>1, <1>3, <2>1, BeginSendStep, BeginRevokeStep, BeginRoleStep DEF Begin
<1>4. ASSUME NEW r \in Requests, NEW u \in Users, NEW i \in Invites, BeginAccept(r, u, i)
      PROVE  Moves /\ IndInv'
  <2>1. UNCHANGED <<inv, granted, now>>
    BY <1>4 DEF BeginAccept, rows, world
  <2> QED BY <1>1, <1>4, <2>1, BeginAcceptStep
<1>5. ASSUME NEW r \in Requests,
             \/ SendMember(r) \/ SendPending(r) \/ SendLimit(r) \/ AcceptRead(r) \/ AcceptMember(r)
             \/ RevokeRead(r)
      PROVE  Moves /\ IndInv'
  <2>1. UNCHANGED <<inv, granted, now>>
    BY <1>5 DEF SendMember, SendPending, SendLimit, AcceptRead, AcceptMember, RevokeRead, rows, world
  <2> QED BY <1>1, <1>5, <2>1, ReadStep
<1>6. ASSUME NEW r \in Requests, SendMail(r) \/ Crash(r) PROVE Moves /\ IndInv'
  <2>1. UNCHANGED <<inv, granted, now>>
    BY <1>6 DEF SendMail, Crash, rows
  <2> QED BY <1>1, <1>6, <2>1, SendMailStep, CrashStep
<1> QED BY <1>2, <1>3, <1>4, <1>5, <1>6, SendCreateStep, AcceptExpireStep, AcceptAssignStep, AcceptSaveStep,
           RevokeSaveStep, WriteRoleStep, TickStep DEF Next, Serve

\* The types of the variables hold in every reachable state, for any users, tenants,
\* invitations and overlapping or dying requests.
THEOREM TypeCorrect == Spec => []TypeOK
<1>1. IndInv => TypeOK
  BY DEF IndInv
<1> QED BY <1>1, InitEstablishes, IndInvStep, PTL DEF Spec

\* An accepted invitation did give its acceptor a role: accept_invitation assigns
\* before it saves, and a kill between the two leaves no "accepted" behind.
THEOREM AcceptedIsBacked == Spec => []AcceptedBacked
<1>1. IndInv => AcceptedBacked
  BY DEF IndInv
<1> QED BY <1>1, InitEstablishes, IndInvStep, PTL DEF Spec

\* Whoever comes after the invitation was used, revoked or expired gets nothing from it.
THEOREM LateIsRefused == Spec => []LateGetsNothing
<1>1. IndInv => LateGetsNothing
  BY DEF IndInv
<1> QED BY <1>1, InitEstablishes, IndInvStep, PTL DEF Spec

\* No step makes a closed invitation pending again, whatever old copy it decides on.
THEOREM ClosedIsFinal == Spec => ClosedStaysClosed
<1>1. IndInv /\ [Next]_vars => [\A i \in Invites : inv[i].status \in Closed => inv'[i].status \in Closed]_vars
  <2> SUFFICES ASSUME IndInv, [Next]_vars, NEW i \in Invites, inv[i].status \in Closed
               PROVE  inv'[i].status \in Closed
    OBVIOUS
  <2>1. Advances(inv[i], inv'[i])
    BY IndInvStep DEF Moves
  <2> QED BY <2>1 DEF Advances, Closed
<1> QED BY <1>1, InitEstablishes, IndInvStep, PTL DEF Spec, ClosedStaysClosed

-----------------------------------------------------------------------------
(* What a step may be, seen from the request that takes it. *)

Waits(email, t) == \E i \in Invites : inv[i].status = "pending" /\ inv[i].email = email /\ inv[i].tenant = t

\* A request passes a check of send_invitation or of accept_invitation, or the next one.
Passes(x, new) ==
    /\ new.user = x.user /\ new.tenant = x.tenant /\ new.inv = x.inv /\ new.email = x.email
    /\ \/ /\ new.pc = "send_limit" /\ x.pc = "send_pending"
          /\ ~Waits(new.email, new.tenant) /\ new.beside = InvitersOf(new.email, new.tenant)
       \/ new.pc = "send_create" /\ x.pc = "send_limit" /\ new.beside = x.beside
       \/ /\ new.pc = "accept_member" /\ x.pc = "accept_read"
          /\ new.inv \in Open /\ new.beside = GranteesOf(new.inv)
       \/ /\ new.pc = "accept_assign" /\ x.pc = "accept_member" /\ new.beside = x.beside
          /\ ~IsMember(new.user, inv[new.inv].tenant)

\* A request begins, ends, dies or reads.
Reads(r, new) ==
    /\ UNCHANGED <<inv, role, granted>>
    /\ orphans' = IF At(r, "accept_save") THEN orphans \cup {<<req[r].inv, req[r].user>>} ELSE orphans
    /\ new.pc \notin Inviting \cup Granting \/ Passes(req[r], new)

\* One request steps, to the record new, or none does.
StepTo(r, new) ==
    /\ req' = [req EXCEPT ![r] = new] /\ UNCHANGED now
    /\ \/ Reads(r, new)
       \/ new.pc = "send_mail" /\ \E i \in Invites : SendCreate(r, i)
       \/ /\ new.pc = "accept_save" /\ AcceptAssign(r)
          /\ new.inv = req[r].inv /\ new.user = req[r].user /\ new.beside = req[r].beside
       \/ new.pc = "idle" /\ (AcceptExpire(r) \/ AcceptSave(r) \/ RevokeSave(r) \/ WriteRole(r))

\* A request that begins has passed no check yet.
LEMMA BeginIs ==
    ASSUME IndInv, NEW r \in Requests,
           Begin(r) \/ \E u \in Users, i \in Invites : BeginAccept(r, u, i)
    PROVE  \E new \in Request : StepTo(r, new)
<1>1. UNCHANGED <<inv, role, granted, orphans, now>> /\ ~At(r, "accept_save")
  BY DEF Begin, BeginSend, BeginRevoke, BeginRole, BeginAccept, rows, world, At
<1>2. ASSUME NEW new \in Request, req' = [req EXCEPT ![r] = new],
             new.pc \in {"send_member", "revoke_read", "role", "accept_read"}
      PROVE  \E x \in Request : StepTo(r, x)
  BY <1>1, <1>2 DEF StepTo, Reads, Inviting, Granting
<1>3. ASSUME NEW u \in Users, NEW t \in Tenants, NEW email \in Emails, NEW given \in GivenRoles,
             BeginSend(r, u, t, email, given)
      PROVE  \E x \in Request : StepTo(r, x)
  <2> DEFINE new == [Idle EXCEPT !.pc = "send_member", !.user = u, !.tenant = t, !.email = email, !.role = given]
  <2>1. req' = [req EXCEPT ![r] = new] /\ given \in RoleChoices
    BY <1>3, MembershipAssumption DEF BeginSend
  <2>2. new \in Request /\ new.pc = "send_member"
    BY <2>1, IdleFacts DEF Request, People
  <2> HIDE DEF new
  <2> QED BY <1>2, <2>1, <2>2
<1>4. ASSUME NEW u \in Users, NEW t \in Tenants, NEW i \in Invites, BeginRevoke(r, u, t, i)
      PROVE  \E x \in Request : StepTo(r, x)
  <2> DEFINE new == [Idle EXCEPT !.pc = "revoke_read", !.user = u, !.tenant = t, !.inv = i]
  <2>1. req' = [req EXCEPT ![r] = new]
    BY <1>4 DEF BeginRevoke
  <2>2. new \in Request /\ new.pc = "revoke_read"
    BY IdleFacts DEF Request, People
  <2> HIDE DEF new
  <2> QED BY <1>2, <2>1, <2>2
<1>5. ASSUME NEW u \in Users, NEW t \in Tenants, NEW v \in Users, NEW given \in GivenRoles \cup {NoRole},
             BeginRole(r, u, t, v, given)
      PROVE  \E x \in Request : StepTo(r, x)
  <2> DEFINE new == [Idle EXCEPT !.pc = "role", !.user = v, !.tenant = t, !.role = given]
  <2>1. req' = [req EXCEPT ![r] = new] /\ given \in RoleChoices \cup {NoRole}
    BY <1>5, MembershipAssumption DEF BeginRole
  <2>2. new \in Request /\ new.pc = "role"
    BY <2>1, IdleFacts DEF Request, People
  <2> HIDE DEF new
  <2> QED BY <1>2, <2>1, <2>2
<1>6. ASSUME NEW u \in Users, NEW i \in Invites, BeginAccept(r, u, i)
      PROVE  \E x \in Request : StepTo(r, x)
  <2> DEFINE late == inv[i].status # "pending" \/ now > inv[i].expires
             new == [Idle EXCEPT !.pc = "accept_read", !.user = u, !.inv = i, !.late = late]
  <2>1. req' = [req EXCEPT ![r] = new]
    BY <1>6 DEF BeginAccept
  <2>2. late \in BOOLEAN
    OBVIOUS
  <2> HIDE DEF late
  <2>3. new \in Request /\ new.pc = "accept_read"
    BY <2>2, IdleFacts DEF Request, People
  <2> HIDE DEF new
  <2> QED BY <1>2, <2>1, <2>3
<1> QED BY <1>3, <1>4, <1>5, <1>6 DEF Begin

\* A request that goes on has passed the check it came to, or has no check behind it.
LEMMA ReadIs ==
    ASSUME IndInv, NEW r \in Requests,
           SendMember(r) \/ SendPending(r) \/ SendLimit(r) \/ AcceptRead(r) \/ AcceptMember(r) \/ RevokeRead(r)
    PROVE  \E new \in Request : StepTo(r, new)
<1> DEFINE x == req[r]
<1>1. UNCHANGED <<inv, role, granted, orphans, now>> /\ ~At(r, "accept_save")
  BY DEF SendMember, SendPending, SendLimit, AcceptRead, AcceptMember, RevokeRead, rows, world, At
<1>2. CASE Done(r)
  BY <1>1, <1>2, IdleFacts DEF Done, StepTo, Reads, Inviting, Granting
<1>3. ASSUME NEW pc \in {"send_pending", "send_create", "accept_expire", "accept_assign", "revoke_save"},
             Goto(r, pc),
             pc = "send_create" => x.pc = "send_limit",
             pc = "accept_assign" => x.pc = "accept_member" /\ ~IsMember(x.user, inv[x.inv].tenant)
      PROVE  \E new \in Request : StepTo(r, new)
  <2>1. PICK new \in Request :
           /\ req' = [req EXCEPT ![r] = new] /\ new.pc = pc /\ new.beside = x.beside
           /\ new.user = x.user /\ new.tenant = x.tenant /\ new.inv = x.inv /\ new.email = x.email
    BY <1>3, GotoFacts
  <2>2. Reads(r, new)
    BY <1>1, <1>3, <2>1 DEF Reads, Passes, Inviting, Granting
  <2> QED BY <1>1, <2>1, <2>2 DEF StepTo
<1>4. CASE SendMember(r)
  BY <1>2, <1>3, <1>4 DEF SendMember
<1>5. CASE SendPending(r)
  <2>1. CASE ~Done(r)
    <3>1. Pass(r, "send_limit", InvitersOf(x.email, x.tenant)) /\ ~Waits(x.email, x.tenant) /\ x.pc = "send_pending"
      BY <1>5, <2>1 DEF SendPending, Waits, At
    <3>2. InvitersOf(x.email, x.tenant) \in SUBSET People
      BY BesideTyped DEF IndInv
    <3>3. PICK new \in Request :
             /\ req' = [req EXCEPT ![r] = new] /\ new.pc = "send_limit"
             /\ new.beside = InvitersOf(x.email, x.tenant)
             /\ new.user = x.user /\ new.tenant = x.tenant /\ new.inv = x.inv /\ new.email = x.email
      BY <3>1, <3>2, PassFacts
    <3>4. Passes(x, new)
      <4> HIDE DEF x
      <4> QED BY <3>1, <3>3 DEF Passes
    <3> QED BY <1>1, <3>3, <3>4 DEF StepTo, Reads
  <2> QED BY <1>2, <2>1
<1>6. CASE SendLimit(r)
  BY <1>2, <1>3, <1>6 DEF SendLimit, At
<1>7. CASE AcceptRead(r)
  <2>1. CASE Pass(r, "accept_member", GranteesOf(x.inv)) /\ inv[x.inv].status = "pending" /\ ~IsExpired(x.inv)
    <3>1. x.pc = "accept_read" /\ x.inv \in Invites
      BY <1>7 DEF AcceptRead, At, IndInv, RequestsSound, Sound, Accepting
    <3>2. GranteesOf(x.inv) \in SUBSET People
      BY BesideTyped DEF IndInv
    <3>3. PICK new \in Request :
             /\ req' = [req EXCEPT ![r] = new] /\ new.pc = "accept_member" /\ new.beside = GranteesOf(x.inv)
             /\ new.user = x.user /\ new.tenant = x.tenant /\ new.inv = x.inv /\ new.email = x.email
      BY <2>1, <3>2, PassFacts
    <3>4. x.inv \in Open
      BY <2>1, <3>1 DEF Open, IsExpired, IndInv, TypeOK
    <3>5. Passes(x, new)
      <4> HIDE DEF x
      <4> QED BY <3>1, <3>3, <3>4 DEF Passes
    <3> QED BY <1>1, <3>3, <3>5 DEF StepTo, Reads
  <2> QED BY <1>2, <1>3, <1>7, <2>1 DEF AcceptRead
<1>8. CASE AcceptMember(r)
  BY <1>2, <1>3, <1>8 DEF AcceptMember, At
<1>9. CASE RevokeRead(r)
  BY <1>2, <1>3, <1>9 DEF RevokeRead
<1> QED BY <1>4, <1>5, <1>6, <1>7, <1>8, <1>9

\* Every step is one request's, or only time passes.
LEMMA Steps ==
    ASSUME IndInv, [Next]_vars
    PROVE  \/ UNCHANGED <<inv, role, req, granted, orphans>>
           \/ \E r \in Requests, new \in Request : StepTo(r, new)
<1>1. CASE UNCHANGED vars \/ Tick
  BY <1>1 DEF vars, Tick, rows
<1>2. ASSUME NEW r \in Requests, SendMail(r) \/ Crash(r) PROVE \E new \in Request : StepTo(r, new)
  <2>1. /\ Done(r) /\ UNCHANGED <<inv, role, granted, now>>
        /\ orphans' = IF At(r, "accept_save") THEN orphans \cup {<<req[r].inv, req[r].user>>} ELSE orphans
    BY <1>2 DEF SendMail, Crash, rows, At
  <2> QED BY <2>1, IdleFacts DEF Done, StepTo, Reads, Inviting, Granting
<1>3. ASSUME NEW r \in Requests, NEW i \in Invites, SendCreate(r, i) PROVE \E new \in Request : StepTo(r, new)
  <2> DEFINE x == req[r]
             new == [x EXCEPT !.pc = "send_mail", !.inv = i, !.beside = {}]
  <2>1. x \in Request /\ req' = [req EXCEPT ![r] = new] /\ UNCHANGED now
    BY <1>3 DEF SendCreate, world, IndInv, TypeOK, Request, People
  <2> HIDE DEF x
  <2>2. new \in Request /\ new.pc = "send_mail"
    BY <2>1 DEF Request
  <2> HIDE DEF new
  <2> QED BY <1>3, <2>1, <2>2 DEF StepTo
<1>4. ASSUME NEW r \in Requests, AcceptAssign(r) PROVE \E new \in Request : StepTo(r, new)
  <2>1. Goto(r, "accept_save") /\ UNCHANGED now
    BY <1>4 DEF AcceptAssign
  <2>2. PICK new \in Request :
           /\ req' = [req EXCEPT ![r] = new] /\ new.pc = "accept_save"
           /\ new.inv = req[r].inv /\ new.user = req[r].user /\ new.beside = req[r].beside
    BY <2>1, GotoFacts
  <2> QED BY <1>4, <2>1, <2>2 DEF StepTo
<1>5. ASSUME NEW r \in Requests, AcceptExpire(r) \/ AcceptSave(r) \/ RevokeSave(r) \/ WriteRole(r)
      PROVE  \E new \in Request : StepTo(r, new)
  <2>1. Done(r) /\ UNCHANGED now
    BY <1>5 DEF AcceptExpire, AcceptSave, RevokeSave, WriteRole, world
  <2> QED BY <1>5, <2>1, IdleFacts DEF Done, StepTo
<1> QED BY <1>1, <1>2, <1>3, <1>4, <1>5, BeginIs, ReadIs DEF Next, Serve

\* What the writes do to the rows: a new one is pending, with the terms of its request.
LEMMA Created ==
    ASSUME IndInv, NEW r \in Requests, NEW i \in Invites, SendCreate(r, i)
    PROVE  /\ req[r].pc = "send_create" /\ inv[i].status = "unsent"
           /\ inv'[i].status = "pending" /\ inv'[i].tenant = req[r].tenant
           /\ inv'[i].email = req[r].email /\ inv'[i].role = req[r].role
           /\ inv'[i].expires = now + Expiry
           /\ inv'[i].invitedBy = req[r].user /\ inv'[i].beside = req[r].beside
           /\ \A j \in Invites \ {i} : inv'[j] = inv[j]
           /\ UNCHANGED <<role, granted, orphans, now>>
<1> DEFINE row == [status |-> "pending", tenant |-> req[r].tenant, email |-> req[r].email,
                   role |-> req[r].role, expires |-> now + Expiry, invitedBy |-> req[r].user,
                   acceptedBy |-> NoUser, beside |-> req[r].beside]
<1>1. /\ inv' = [inv EXCEPT ![i] = row] /\ req[r].pc = "send_create" /\ inv[i] = Unsent
      /\ UNCHANGED <<role, granted, orphans, now>>
  BY DEF SendCreate, At, world
<1>2. inv'[i] = row /\ \A j \in Invites \ {i} : inv'[j] = inv[j]
  BY <1>1 DEF IndInv, TypeOK
<1> QED BY <1>1, <1>2, UnsentFacts

\* Who closes a row closes the one it holds, and no other.
LEMMA Closes ==
    ASSUME IndInv, NEW r \in Requests, AcceptExpire(r) \/ AcceptSave(r) \/ RevokeSave(r)
    PROVE  /\ req[r].inv \in Invites /\ inv'[req[r].inv].status \in Closed
           /\ \A j \in Invites \ {req[r].inv} : inv'[j] = inv[j]
           /\ UNCHANGED <<role, granted, orphans, now>>
           /\ \/ req[r].pc \in {"accept_expire", "revoke_save"}
              \/ req[r].pc = "accept_save" /\ AcceptSave(r)
<1>1. req[r].inv \in Invites /\ UNCHANGED <<role, granted, orphans, now>>
  BY DEF AcceptExpire, AcceptSave, RevokeSave, At, world, IndInv, RequestsSound, Sound, Accepting, Revoking, Granting
<1>2. inv \in [Invites -> InviteRow]
  BY DEF IndInv, TypeOK, InviteRow
<1> QED BY <1>1, <1>2 DEF AcceptExpire, AcceptSave, RevokeSave, At, InviteRow, Closed

\* assign_role gives the invitation's role, in its tenant, to the user of the request.
LEMMA Assigned ==
    ASSUME IndInv, NEW r \in Requests, AcceptAssign(r)
    PROVE  /\ req[r].pc = "accept_assign" /\ req[r].inv \in Invites /\ req[r].user \in Users
           /\ role' = [role EXCEPT ![inv[req[r].inv].tenant][req[r].user] = inv[req[r].inv].role]
           /\ \E g \in Grant : /\ granted' = granted \cup {g} /\ g.inv = req[r].inv
                               /\ g.user = req[r].user /\ g.beside = req[r].beside
           /\ UNCHANGED <<inv, orphans, now>>
<1> DEFINE g == GrantTo(req[r])
<1>1. /\ req[r].pc = "accept_assign" /\ UNCHANGED <<inv, orphans, now>>
      /\ role' = [role EXCEPT ![inv[req[r].inv].tenant][req[r].user] = inv[req[r].inv].role]
      /\ granted' = granted \cup {g}
  BY DEF AcceptAssign, At
<1>2. Sound(req[r], inv, granted, now) /\ req[r] \in Request
  BY DEF IndInv, RequestsSound, TypeOK, Request, People
<1>3. req[r].inv \in Invites /\ req[r].user \in Users
  BY <1>1, <1>2 DEF Sound, Accepting, Granting
<1>4. g.inv = req[r].inv /\ g.user = req[r].user /\ g.beside = req[r].beside /\ g \in Grant
  BY <1>2, <1>3 DEF GrantTo, Grant, Request, People
<1> QED BY <1>1, <1>3, <1>4

\* A role request writes one role.
LEMMA RoleSet ==
    ASSUME IndInv, NEW r \in Requests, WriteRole(r)
    PROVE  /\ req[r].pc = "role" /\ req[r].tenant \in Tenants /\ req[r].user \in Users
           /\ req[r].role \in RoleChoices \cup {NoRole}
           /\ role' = [role EXCEPT ![req[r].tenant][req[r].user] = req[r].role]
           /\ UNCHANGED <<inv, granted, orphans, now>>
<1>1. /\ req[r].pc = "role" /\ UNCHANGED <<inv, granted, orphans, now>>
      /\ role' = [role EXCEPT ![req[r].tenant][req[r].user] = req[r].role]
  BY DEF WriteRole, At, world
<1>2. req[r].tenant \in Tenants /\ req[r].user \in Users /\ req[r].role \in RoleChoices \cup {NoRole}
  BY <1>1 DEF IndInv, TypeOK, RequestsSound, Sound
<1> QED BY <1>1, <1>2

\* The record of a request that steps, and those of the others.
LEMMA Stepped ==
    ASSUME IndInv, NEW r \in Requests, NEW new \in Request, StepTo(r, new)
    PROVE  req'[r] = new /\ \A q \in Requests \ {r} : req'[q] = req[q]
  BY DEF StepTo, IndInv, TypeOK

-----------------------------------------------------------------------------
(* Who sent the second invitation of an address. *)

SameTarget(x, y) == x.email = y.email /\ x.tenant = y.tenant

\* Of two that are past the check for an address one saw the other, and so did one of a
\* pending invitation's sender and a request that is past the check since.
SendsKnown ==
    /\ \A q, r \in Requests :
          /\ q # r /\ req[q].pc \in Inviting /\ req[r].pc \in Inviting /\ SameTarget(req[q], req[r])
          => req[q].user \in req[r].beside \/ req[r].user \in req[q].beside
    /\ \A r \in Requests, i \in Invites :
          /\ req[r].pc \in Inviting /\ inv[i].status = "pending" /\ SameTarget(req[r], inv[i])
          => inv[i].invitedBy \in req[r].beside \/ req[r].user \in inv[i].beside

SendInv == IndInv /\ SendsKnown /\ PendingExplained

\* A step keeps SendsKnown and PendingExplained: a request passes the check only when no
\* invitation of the address is pending, and then it sees all who are past it.
LEMMA SendInvStep == ASSUME SendInv, [Next]_vars PROVE SendInv'
<1>1. IndInv /\ IndInv' /\ SendsKnown /\ PendingExplained
  BY IndInvStep DEF SendInv
<1>2. CASE UNCHANGED <<inv, role, req, granted, orphans>>
  BY <1>1, <1>2 DEF SendInv, SendsKnown, PendingExplained, BothPending, SameAddress, SameTarget
<1>3. ASSUME NEW r \in Requests, NEW new \in Request, StepTo(r, new) PROVE SendInv'
  <2>1. req'[r] = new /\ \A q \in Requests \ {r} : req'[q] = req[q]
    BY <1>1, <1>3, Stepped
  \* What is to be shown when no row becomes pending.
  <2>2. ASSUME \A j \in Invites : inv'[j] = inv[j] \/ inv'[j].status # "pending",
               new.pc \notin Inviting \/ Passes(req[r], new)
        PROVE  SendInv'
    <3>1. ASSUME NEW q \in Requests \ {r}, req[q].pc \in Inviting, new.pc \in Inviting, SameTarget(req[q], new)
          PROVE  req[q].user \in new.beside \/ new.user \in req[q].beside
      <4>1. CASE new.pc = "send_limit"
        <5>1. new.beside = InvitersOf(new.email, new.tenant)
          BY <2>2, <4>1 DEF Passes, Inviting
        <5> QED BY <3>1, <5>1 DEF InvitersOf, SameTarget
      <4>2. CASE new.pc = "send_create"
        <5>1. /\ req[r].pc \in Inviting /\ new.user = req[r].user /\ new.beside = req[r].beside
              /\ SameTarget(req[q], req[r])
          BY <2>2, <3>1, <4>2 DEF Passes, Inviting, SameTarget
        <5> QED BY <1>1, <3>1, <5>1 DEF SendsKnown
      <4> QED BY <3>1, <4>1, <4>2 DEF Inviting
    <3>2. ASSUME NEW i \in Invites, new.pc \in Inviting, inv[i].status = "pending", SameTarget(new, inv[i])
          PROVE  inv[i].invitedBy \in new.beside \/ new.user \in inv[i].beside
      <4>1. new.pc # "send_limit"
        BY <2>2, <3>2 DEF Passes, Inviting, Waits, SameTarget
      <4>2. /\ req[r].pc \in Inviting /\ new.user = req[r].user /\ new.beside = req[r].beside
            /\ SameTarget(req[r], inv[i])
        BY <2>2, <3>2, <4>1 DEF Passes, Inviting, SameTarget
      <4> QED BY <1>1, <3>2, <4>2 DEF SendsKnown
    <3>3. ASSUME NEW p \in Requests, NEW q \in Requests, p # q, req'[p].pc \in Inviting, req'[q].pc \in Inviting,
                 SameTarget(req'[p], req'[q])
          PROVE  req'[p].user \in req'[q].beside \/ req'[q].user \in req'[p].beside
      <4>1. SameTarget(req'[q], req'[p])
        BY <3>3 DEF SameTarget
      <4>2. CASE p # r /\ q # r
        <5>1. req'[p] = req[p] /\ req'[q] = req[q]
          BY <2>1, <4>2
        <5> QED BY <1>1, <3>3, <5>1 DEF SendsKnown
      <4>3. CASE p = r
        <5>1. q \in Requests \ {r} /\ req'[q] = req[q] /\ req'[p] = new
          BY <2>1, <3>3, <4>3
        <5> QED BY <3>1, <3>3, <4>1, <5>1
      <4>4. CASE q = r
        <5>1. p \in Requests \ {r} /\ req'[p] = req[p] /\ req'[q] = new
          BY <2>1, <3>3, <4>4
        <5> QED BY <3>1, <3>3, <5>1
      <4> QED BY <4>2, <4>3, <4>4
    <3>4. ASSUME NEW q \in Requests, NEW i \in Invites, req'[q].pc \in Inviting, inv'[i].status = "pending",
                 SameTarget(req'[q], inv'[i])
          PROVE  inv'[i].invitedBy \in req'[q].beside \/ req'[q].user \in inv'[i].beside
      <4>1. inv'[i] = inv[i]
        BY <2>2, <3>4
      <4>2. CASE q = r
        BY <2>1, <3>2, <3>4, <4>1, <4>2
      <4>3. CASE q # r
        <5>1. req'[q] = req[q]
          BY <2>1, <4>3
        <5> QED BY <1>1, <3>4, <4>1, <5>1 DEF SendsKnown
      <4> QED BY <4>2, <4>3
    <3>5. SendsKnown'
      BY <3>3, <3>4 DEF SendsKnown
    <3>6. PendingExplained'
      BY <1>1, <2>2 DEF PendingExplained, BothPending, SameAddress
    <3> QED BY <1>1, <3>5, <3>6 DEF SendInv
  <2>3. CASE Reads(r, new)
    <3>1. (\A j \in Invites : inv'[j] = inv[j]) /\ (new.pc \notin Inviting \/ Passes(req[r], new))
      BY <2>3 DEF Reads, Inviting, Granting
    <3> QED BY <2>2, <3>1
  <2>4. ASSUME NEW i \in Invites, SendCreate(r, i), new.pc = "send_mail" PROVE SendInv'
    <3>1. /\ req[r].pc \in Inviting /\ inv'[i].tenant = req[r].tenant /\ inv'[i].email = req[r].email
          /\ inv'[i].invitedBy = req[r].user /\ inv'[i].beside = req[r].beside
          /\ \A j \in Invites \ {i} : inv'[j] = inv[j]
      BY <1>1, <2>4, Created DEF Inviting
    <3>2. ASSUME NEW j \in Invites \ {i}, inv[j].status = "pending", SameTarget(inv[j], inv'[i])
          PROVE  inv[j].invitedBy \in inv'[i].beside \/ inv'[i].invitedBy \in inv[j].beside
      BY <1>1, <3>1, <3>2 DEF SendsKnown, SameTarget
    <3>3. ASSUME NEW j \in Invites, NEW k \in Invites, j # k, BothPending(j, k)', SameAddress(j, k)'
          PROVE  inv'[j].invitedBy \in inv'[k].beside \/ inv'[k].invitedBy \in inv'[j].beside
      <4>1. CASE j # i /\ k # i
        BY <1>1, <3>1, <3>3, <4>1 DEF PendingExplained, BothPending, SameAddress
      <4>2. CASE k = i
        BY <3>1, <3>2, <3>3, <4>2 DEF BothPending, SameAddress, SameTarget
      <4>3. CASE j = i
        BY <3>1, <3>2, <3>3, <4>3 DEF BothPending, SameAddress, SameTarget
      <4> QED BY <4>1, <4>2, <4>3
    <3>4. PendingExplained'
      BY <3>3 DEF PendingExplained
    <3>5. ASSUME NEW q \in Requests, req'[q].pc \in Inviting
          PROVE  q # r /\ req'[q] = req[q] /\ req[q].pc \in Inviting
      BY <2>1, <2>4, <3>5 DEF Inviting
    <3>6. ASSUME NEW p \in Requests, NEW q \in Requests, p # q, req'[p].pc \in Inviting, req'[q].pc \in Inviting,
                 SameTarget(req'[p], req'[q])
          PROVE  req'[p].user \in req'[q].beside \/ req'[q].user \in req'[p].beside
      <4>1. req'[p] = req[p] /\ req'[q] = req[q] /\ req[p].pc \in Inviting /\ req[q].pc \in Inviting
        BY <3>5, <3>6
      <4> QED BY <1>1, <3>6, <4>1 DEF SendsKnown
    <3>7. ASSUME NEW q \in Requests, NEW j \in Invites, req'[q].pc \in Inviting, inv'[j].status = "pending",
                 SameTarget(req'[q], inv'[j])
          PROVE  inv'[j].invitedBy \in req'[q].beside \/ req'[q].user \in inv'[j].beside
      <4>1. q # r /\ req'[q] = req[q] /\ req[q].pc \in Inviting
        BY <3>5, <3>7
      <4>2. CASE j # i
        <5>1. inv'[j] = inv[j]
          BY <3>1, <4>2
        <5> QED BY <1>1, <3>7, <4>1, <5>1 DEF SendsKnown
      <4>3. CASE j = i
        <5>1. SameTarget(req[q], req[r])
          BY <3>1, <3>7, <4>1, <4>3 DEF SameTarget
        <5>2. req[q].user \in req[r].beside \/ req[r].user \in req[q].beside
          BY <1>1, <3>1, <4>1, <5>1 DEF SendsKnown
        <5> QED BY <3>1, <4>1, <4>3, <5>2
      <4> QED BY <4>2, <4>3
    <3>8. SendsKnown'
      BY <3>6, <3>7 DEF SendsKnown
    <3> QED BY <1>1, <3>4, <3>8 DEF SendInv
  <2>5. CASE AcceptAssign(r) /\ new.pc = "accept_save"
    BY <1>1, <2>2, <2>5, Assigned DEF Inviting
  <2>6. CASE WriteRole(r) /\ new.pc = "idle"
    BY <1>1, <2>2, <2>6, RoleSet DEF Inviting
  <2>7. CASE (AcceptExpire(r) \/ AcceptSave(r) \/ RevokeSave(r)) /\ new.pc = "idle"
    <3>1. \A j \in Invites : inv'[j] = inv[j] \/ inv'[j].status # "pending"
      BY <1>1, <2>7, Closes DEF Closed
    <3> QED BY <2>2, <2>7, <3>1 DEF Inviting
  <2> QED BY <1>3, <2>3, <2>4, <2>5, <2>6, <2>7 DEF StepTo
<1> QED BY <1>1, <1>2, <1>3, Steps

\* Two invitations of one address to a tenant are pending only when the sender of one was past
\* the check of send_invitation, and had created no row, as the sender of the other passed it.
THEOREM PendingAreExplained == Spec => []PendingExplained
<1>1. Init => SendInv
  <2> SUFFICES ASSUME Init PROVE SendInv
    OBVIOUS
  <2>1. IndInv /\ (\A r \in Requests : req[r].pc = "idle") /\ (\A i \in Invites : inv[i].status = "unsent")
    BY InitEstablishes, IdleFacts, UnsentFacts DEF Init
  <2> QED BY <2>1 DEF SendInv, SendsKnown, PendingExplained, BothPending, Inviting
<1>2. SendInv /\ [Next]_vars => SendInv'
  BY SendInvStep
<1>3. SendInv => PendingExplained
  BY DEF SendInv
<1> QED BY <1>1, <1>2, <1>3, PTL DEF Spec

-----------------------------------------------------------------------------
(* Whom an invitation brought in, and what became of it. *)

\* One of two acceptances of an invitation saw the other, or they are of the same user.
Knows(x, y) == x.user = y.user \/ x.user \in y.beside \/ y.user \in x.beside

\* Of two requests that accept one invitation one saw the other; and a request that has found
\* an invitation usable, after it gave a role, saw who got it, or that request is dead.
AcceptsKnown ==
    /\ \A q, r \in Requests :
          req[q].pc \in Granting /\ req[r].pc \in Granting /\ req[q].inv = req[r].inv => Knows(req[q], req[r])
    /\ \A r \in Requests, g \in granted :
          req[r].pc \in Granting /\ g.inv = req[r].inv => Knows(req[r], g) \/ Orphaned(g)

GrantInv == IndInv /\ GrantsSpent /\ AcceptsKnown /\ UsersExplained

\* A step keeps the grants spent and explained: a request that finds an invitation usable which
\* gave a role already meets the request that gave it, still at its save, or that one is dead.
LEMMA GrantInvStep == ASSUME GrantInv, [Next]_vars PROVE GrantInv'
<1>1. IndInv /\ IndInv' /\ GrantsSpent /\ AcceptsKnown /\ UsersExplained /\ Moves
  BY IndInvStep DEF GrantInv
<1>2. CASE UNCHANGED <<inv, role, req, granted, orphans>>
  BY <1>1, <1>2 DEF GrantInv, GrantsSpent, AcceptsKnown, UsersExplained, Orphaned, At
<1>3. ASSUME NEW r \in Requests, NEW new \in Request, StepTo(r, new) PROVE GrantInv'
  <2>1. req'[r] = new /\ \A q \in Requests \ {r} : req'[q] = req[q]
    BY <1>1, <1>3, Stepped
  <2>2. ASSUME NEW g \in granted PROVE g.inv \in Invites
    BY <1>1, <2>2 DEF IndInv, TypeOK
  <2>3. ASSUME NEW g \in granted, inv[g.inv].status \in Closed PROVE inv'[g.inv].status \in Closed
    BY <1>1, <2>2, <2>3 DEF Moves, Advances, Closed
  \* What is to be shown of a step that gives no role.
  <2>4. ASSUME UNCHANGED granted, orphans \subseteq orphans',
               At(r, "accept_save") => \/ inv'[req[r].inv].status \in Closed
                                       \/ <<req[r].inv, req[r].user>> \in orphans',
               new.pc \notin Granting \/ (Passes(req[r], new) /\ UNCHANGED inv)
        PROVE  GrantInv'
    <3>1. ASSUME NEW g \in granted, Orphaned(g) PROVE Orphaned(g)'
      BY <2>4, <3>1 DEF Orphaned
    <3>2. GrantsSpent'
      <4> SUFFICES ASSUME NEW g \in granted, inv'[g.inv].status \notin Closed, ~Orphaned(g)'
                   PROVE  \E q \in Requests : /\ At(q, "accept_save")'
                                              /\ req'[q].inv = g.inv /\ req'[q].user = g.user
        BY <2>4 DEF GrantsSpent
      <4>1. PICK q \in Requests : At(q, "accept_save") /\ req[q].inv = g.inv /\ req[q].user = g.user
        BY <1>1, <2>3, <3>1 DEF GrantsSpent
      <4>2. q # r
        BY <2>4, <4>1 DEF Orphaned
      <4> QED BY <2>1, <4>1, <4>2 DEF At
    <3>3. ASSUME NEW q \in Requests \ {r}, req[q].pc \in Granting, new.pc \in Granting, req[q].inv = new.inv
          PROVE  Knows(req[q], new)
      <4>1. CASE new.pc = "accept_member"
        <5>1. new.beside = GranteesOf(new.inv)
          BY <2>4, <4>1 DEF Passes, Granting
        <5> QED BY <3>3, <5>1 DEF GranteesOf, Knows
      <4>2. CASE new.pc = "accept_assign"
        <5>1. /\ req[r].pc \in Granting /\ new.inv = req[r].inv
              /\ new.user = req[r].user /\ new.beside = req[r].beside
          BY <2>4, <4>2 DEF Passes, Granting
        <5>2. Knows(req[q], req[r])
          BY <1>1, <3>3, <5>1 DEF AcceptsKnown
        <5> QED BY <5>1, <5>2 DEF Knows
      <4> QED BY <2>4, <3>3, <4>1, <4>2 DEF Passes, Granting
    <3>4. ASSUME NEW g \in granted, new.pc \in Granting, g.inv = new.inv
          PROVE  Knows(new, g) \/ Orphaned(g)
      <4>1. CASE new.pc = "accept_member"
        <5>1. new.beside = GranteesOf(new.inv) /\ inv[g.inv].status = "pending"
          BY <2>4, <3>4, <4>1 DEF Passes, Granting, Open
        <5>2. Orphaned(g) \/ \E q \in Requests : At(q, "accept_save") /\ req[q].inv = g.inv /\ req[q].user = g.user
          BY <1>1, <5>1 DEF GrantsSpent, Closed
        <5> QED BY <3>4, <5>1, <5>2 DEF Knows, GranteesOf, At, Granting
      <4>2. CASE new.pc = "accept_assign"
        <5>1. /\ req[r].pc \in Granting /\ new.inv = req[r].inv
              /\ new.user = req[r].user /\ new.beside = req[r].beside
          BY <2>4, <4>2 DEF Passes, Granting
        <5>2. Knows(req[r], g) \/ Orphaned(g)
          BY <1>1, <3>4, <5>1 DEF AcceptsKnown
        <5> QED BY <5>1, <5>2 DEF Knows
      <4> QED BY <2>4, <3>4, <4>1, <4>2 DEF Passes, Granting
    <3>5. ASSUME NEW p \in Requests, NEW q \in Requests, req'[p].pc \in Granting, req'[q].pc \in Granting,
                 req'[p].inv = req'[q].inv
          PROVE  Knows(req'[p], req'[q])
      <4>1. CASE p # r /\ q # r
        <5>1. req'[p] = req[p] /\ req'[q] = req[q]
          BY <2>1, <4>1
        <5> QED BY <1>1, <3>5, <5>1 DEF AcceptsKnown
      <4>2. CASE p = q
        BY <4>2 DEF Knows
      <4>3. CASE p = r /\ q # r
        <5>1. q \in Requests \ {r} /\ req'[q] = req[q] /\ req'[p] = new
          BY <2>1, <4>3
        <5>2. Knows(req[q], new)
          BY <3>3, <3>5, <5>1
        <5> QED BY <5>1, <5>2 DEF Knows
      <4>4. CASE q = r /\ p # r
        <5>1. p \in Requests \ {r} /\ req'[p] = req[p] /\ req'[q] = new
          BY <2>1, <4>4
        <5> QED BY <3>3, <3>5, <5>1
      <4> QED BY <4>1, <4>2, <4>3, <4>4
    <3>6. ASSUME NEW q \in Requests, NEW g \in granted, req'[q].pc \in Granting, g.inv = req'[q].inv
          PROVE  Knows(req'[q], g) \/ Orphaned(g)'
      <4>1. CASE q = r
        BY <2>1, <3>1, <3>4, <3>6, <4>1
      <4>2. CASE q # r
        <5>1. req'[q] = req[q]
          BY <2>1, <4>2
        <5> QED BY <1>1, <3>1, <3>6, <5>1 DEF AcceptsKnown
      <4> QED BY <4>1, <4>2
    <3>7. AcceptsKnown'
      BY <2>4, <3>5, <3>6 DEF AcceptsKnown
    <3>8. UsersExplained'
      BY <1>1, <2>4, <3>1 DEF UsersExplained
    <3> QED BY <1>1, <3>2, <3>7, <3>8 DEF GrantInv
  <2>5. CASE Reads(r, new)
    <3>1. /\ UNCHANGED <<inv, granted>> /\ orphans \subseteq orphans'
          /\ At(r, "accept_save") => <<req[r].inv, req[r].user>> \in orphans'
          /\ new.pc \notin Granting \/ Passes(req[r], new)
      BY <2>5 DEF Reads
    <3> QED BY <2>4, <3>1
  <2>6. ASSUME NEW i \in Invites, SendCreate(r, i), new.pc = "send_mail" PROVE GrantInv'
    <3>1. UNCHANGED <<granted, orphans>> /\ ~At(r, "accept_save") /\ new.pc \notin Granting
      BY <1>1, <2>6, Created DEF At, Granting
    <3> QED BY <2>4, <3>1
  <2>7. CASE /\ AcceptAssign(r) /\ new.pc = "accept_save"
             /\ new.inv = req[r].inv /\ new.user = req[r].user /\ new.beside = req[r].beside
    <3>1. req[r].pc = "accept_assign" /\ UNCHANGED <<inv, orphans>>
      BY <1>1, <2>7, Assigned
    <3>2. PICK g : /\ granted' = granted \cup {g} /\ g.inv = req[r].inv
                   /\ g.user = req[r].user /\ g.beside = req[r].beside
      BY <1>1, <2>7, Assigned
    <3>3. \A h : Orphaned(h)' <=> Orphaned(h)
      BY <3>1 DEF Orphaned
    <3>4. ASSUME NEW h \in granted' PROVE h \in granted \/ h = g
      BY <3>2, <3>4
    <3>5. ASSUME NEW h \in granted, h.inv = g.inv PROVE Knows(g, h) \/ Orphaned(h)
      <4>1. Knows(req[r], h) \/ Orphaned(h)
        BY <1>1, <3>1, <3>2, <3>5 DEF AcceptsKnown, Granting
      <4> QED BY <3>2, <4>1 DEF Knows
    <3>6. UsersExplained'
      <4> SUFFICES ASSUME NEW h \in granted', NEW k \in granted', h.inv = k.inv
                   PROVE  Knows(h, k) \/ Orphaned(h) \/ Orphaned(k)
        BY <3>3 DEF UsersExplained, Knows
      <4>1. CASE h \in granted /\ k \in granted
        BY <1>1, <4>1 DEF UsersExplained, Knows
      <4>2. CASE h = g /\ k \in granted
        BY <3>5, <4>2
      <4>3. CASE k = g /\ h \in granted
        <5>1. Knows(g, h) \/ Orphaned(h)
          BY <3>5, <4>3
        <5> QED BY <4>3, <5>1 DEF Knows
      <4>4. CASE h = g /\ k = g
        BY <4>4 DEF Knows
      <4> QED BY <3>4, <4>1, <4>2, <4>3, <4>4
    <3>7. GrantsSpent'
      <4> SUFFICES ASSUME NEW h \in granted', inv[h.inv].status \notin Closed, ~Orphaned(h)
                   PROVE  \E q \in Requests : At(q, "accept_save")' /\ req'[q].inv = h.inv /\ req'[q].user = h.user
        BY <3>1, <3>3 DEF GrantsSpent
      <4>1. CASE h = g
        BY <2>1, <2>7, <3>2, <4>1 DEF At
      <4>2. CASE h \in granted
        <5>1. PICK q \in Requests : At(q, "accept_save") /\ req[q].inv = h.inv /\ req[q].user = h.user
          BY <1>1, <4>2 DEF GrantsSpent
        <5>2. q # r
          BY <3>1, <5>1 DEF At
        <5> QED BY <2>1, <5>1, <5>2 DEF At
      <4> QED BY <3>4, <4>1, <4>2
    <3>8. ASSUME NEW q \in Requests, req'[q].pc \in Granting
          PROVE  /\ req[q].pc \in Granting /\ req'[q].inv = req[q].inv
                 /\ req'[q].user = req[q].user /\ req'[q].beside = req[q].beside
      BY <2>1, <2>7, <3>1, <3>8 DEF Granting
    <3>9. ASSUME NEW p \in Requests, NEW q \in Requests, req'[p].pc \in Granting, req'[q].pc \in Granting,
                 req'[p].inv = req'[q].inv
          PROVE  Knows(req'[p], req'[q])
      <4>1. Knows(req[p], req[q])
        BY <1>1, <3>8, <3>9 DEF AcceptsKnown
      <4> QED BY <3>8, <3>9, <4>1 DEF Knows
    <3>10. ASSUME NEW q \in Requests, NEW h \in granted', req'[q].pc \in Granting, h.inv = req'[q].inv
           PROVE  Knows(req'[q], h) \/ Orphaned(h)'
      <4>1. CASE h \in granted
        <5>1. Knows(req[q], h) \/ Orphaned(h)
          BY <1>1, <3>8, <3>10, <4>1 DEF AcceptsKnown
        <5> QED BY <3>3, <3>8, <3>10, <5>1 DEF Knows
      <4>2. CASE h = g
        <5>1. Knows(req[q], req[r])
          BY <1>1, <3>1, <3>2, <3>8, <3>10, <4>2 DEF AcceptsKnown, Granting
        <5> QED BY <3>2, <3>8, <3>10, <4>2, <5>1 DEF Knows
      <4> QED BY <3>4, <4>1, <4>2
    <3>11. AcceptsKnown'
      BY <3>9, <3>10 DEF AcceptsKnown
    <3> QED BY <1>1, <3>6, <3>7, <3>11 DEF GrantInv
  <2>8. CASE WriteRole(r) /\ new.pc = "idle"
    BY <1>1, <2>4, <2>8, RoleSet DEF At, Granting
  <2>9. CASE (AcceptExpire(r) \/ AcceptSave(r) \/ RevokeSave(r)) /\ new.pc = "idle"
    BY <1>1, <2>4, <2>9, Closes DEF Granting
  <2> QED BY <1>3, <2>5, <2>6, <2>7, <2>8, <2>9 DEF StepTo
<1> QED BY <1>1, <1>2, <1>3, Steps

\* At the start nobody was given a role by an invitation.
LEMMA InitGrants == Init => GrantInv
<1> SUFFICES ASSUME Init PROVE GrantInv
  OBVIOUS
<1>1. IndInv /\ granted = {} /\ \A r \in Requests : req[r].pc = "idle"
  BY InitEstablishes, IdleFacts DEF Init
<1> QED BY <1>1 DEF GrantInv, GrantsSpent, AcceptsKnown, UsersExplained, Granting

\* A role that an invitation gave leaves it closed, or about to be closed by the request that gave
\* the role, or that request died between assign_role and the save.
THEOREM GrantsAreSpent == Spec => []GrantsSpent
<1>1. GrantInv => GrantsSpent
  BY DEF GrantInv
<1> QED BY <1>1, InitGrants, GrantInvStep, PTL DEF Spec

\* Two users have one invitation only when one of them found it usable while the other, whom its
\* request's history names, was between his own look and his save, or when one's request died there.
THEOREM UsersAreExplained == Spec => []UsersExplained
<1>1. GrantInv => UsersExplained
  BY DEF GrantInv
<1> QED BY <1>1, InitGrants, GrantInvStep, PTL DEF Spec

-----------------------------------------------------------------------------
(* The requests implement TenantMembers. *)

OpenTerms == {TermsOf(i) : i \in Open}
Claims == [r \in Requests |-> ClaimOf(r)]

\* The terms of an invitation never change once it is sent.
LEMMA TermsKept ==
    ASSUME Moves, NEW i \in Invites, inv[i].status # "unsent"
    PROVE  TermsOf(i)' = TermsOf(i)
  BY DEF Moves, Advances, TermsOf

\* The claim that a request in state x holds.
LEMMA ClaimCases ==
    ASSUME NEW r \in Requests
    PROVE  /\ req[r].pc = "accept_member" =>
                 ClaimOf(r) = [terms |-> TermsOf(req[r].inv), user |-> req[r].user, stage |-> "made"]
           /\ req[r].pc = "accept_assign" =>
                 ClaimOf(r) = [terms |-> TermsOf(req[r].inv), user |-> req[r].user, stage |-> "vetted"]
           /\ req[r].pc = "accept_save" =>
                 ClaimOf(r) = [terms |-> TermsOf(req[r].inv), user |-> req[r].user, stage |-> "joined"]
           /\ req[r].pc \notin Granting => ClaimOf(r) = [stage |-> "none"]
  BY DEF ClaimOf, Stage, Granting

\* So a claim's stage tells where its request is.
LEMMA ClaimStages ==
    ASSUME NEW r \in Requests
    PROVE  /\ ClaimOf(r).stage = "none" <=> req[r].pc \notin Granting
           /\ ClaimOf(r).stage = "made" <=> req[r].pc = "accept_member"
           /\ ClaimOf(r).stage = "vetted" <=> req[r].pc = "accept_assign"
           /\ ClaimOf(r).stage = "joined" <=> req[r].pc = "accept_save"
<1>1. CASE req[r].pc = "accept_member"
  BY <1>1, ClaimCases DEF Granting
<1>2. CASE req[r].pc = "accept_assign"
  BY <1>2, ClaimCases DEF Granting
<1>3. CASE req[r].pc = "accept_save"
  BY <1>3, ClaimCases DEF Granting
<1>4. CASE req[r].pc \notin Granting
  BY <1>4, ClaimCases DEF Granting
<1> QED BY <1>1, <1>2, <1>3, <1>4 DEF Granting

\* A request moves its own claim.
LEMMA ClaimMoves ==
    ASSUME IndInv, Moves, NEW r \in Requests, NEW new \in Request, StepTo(r, new)
    PROVE  Claims' = [Claims EXCEPT ![r] = ClaimOf(r)']
<1>1. req'[r] = new /\ \A q \in Requests \ {r} : req'[q] = req[q]
  BY Stepped
<1>2. ASSUME NEW q \in Requests \ {r} PROVE ClaimOf(q)' = ClaimOf(q)
  <2>1. CASE req[q].pc \in Granting
    <3>1. req[q].inv \in Invites /\ inv[req[q].inv].status # "unsent"
      BY <2>1 DEF IndInv, RequestsSound, Sound, Accepting
    <3>2. PICK j \in Invites : j = req[q].inv
      BY <3>1
    <3>3. req'[q] = req[q] /\ req'[q].inv = j
      BY <1>1, <3>2
    <3>4. TermsOf(j)' = TermsOf(j)
      BY <3>1, <3>2, TermsKept
    <3>5. TermsOf(req[q].inv)' = TermsOf(req[q].inv)
      BY <3>2, <3>3, <3>4 DEF TermsOf
    <3> QED BY <2>1, <3>3, <3>5 DEF ClaimOf
  <2>2. CASE req[q].pc \notin Granting
    BY <1>1, <2>2 DEF ClaimOf
  <2> QED BY <2>1, <2>2
<1> QED BY <1>2 DEF Claims

\* A step that leaves rows and time alone leaves the invitations as they are.
LEMMA OpenKept ==
    ASSUME UNCHANGED <<inv, now>>
    PROVE  OpenTerms' = OpenTerms /\ Offered' = Offered /\ \A i : TermsOf(i)' = TermsOf(i)
  BY DEF OpenTerms, Open, Offered, TermsOf

\* The steps that read: a claim is made, vetted or abandoned, or nothing happens.
LEMMA ReadRefines ==
    ASSUME IndInv, Moves, NEW r \in Requests, NEW new \in Request, StepTo(r, new), Reads(r, new)
    PROVE  [Members!Next]_(Members!vars)
<1> DEFINE i == req[r].inv
           u == req[r].user
<1>1. /\ UNCHANGED <<inv, role, granted, now>> /\ req'[r] = new
      /\ Claims' = [Claims EXCEPT ![r] = ClaimOf(r)']
  BY Stepped, ClaimMoves DEF StepTo, Reads
<1>2. OpenTerms' = OpenTerms /\ Offered' = Offered /\ Joined' = Joined /\ \A j : TermsOf(j)' = TermsOf(j)
  BY <1>1, OpenKept DEF Joined
<1>3. Claims[r] = ClaimOf(r)
  BY DEF Claims
<1>4. CASE new.pc \notin Granting
  <2>1. ClaimOf(r)' = [stage |-> "none"]
    BY <1>1, <1>4 DEF ClaimOf
  <2>2. CASE req[r].pc \notin Granting
    <3>1. ClaimOf(r) = [stage |-> "none"] /\ UNCHANGED orphans
      BY <2>2, ClaimCases DEF Reads, At, Granting
    <3>2. Claims' = Claims
      BY <1>1, <2>1, <3>1 DEF Claims
    <3> QED BY <1>1, <1>2, <3>1, <3>2 DEF Members!vars, OpenTerms, Claims
  <2>3. CASE req[r].pc \in Granting
    <3>1. Claims[r].stage # "none" /\ (Claims[r].stage = "joined" <=> At(r, "accept_save"))
      BY <1>3, <2>3, ClaimStages DEF At
    <3>2. At(r, "accept_save") => Claims[r].terms.inv = i /\ Claims[r].user = u
      BY <1>3, ClaimCases DEF At, TermsOf
    <3>3. orphans' = IF At(r, "accept_save") THEN orphans \cup {<<i, u>>} ELSE orphans
      BY DEF Reads
    <3>4. Members!Abandon(r)
      BY <1>1, <1>2, <2>1, <3>1, <3>2, <3>3
      DEF Members!Abandon, Members!Held, Members!Pair, Members!NoClaim, OpenTerms, Claims
    <3> QED BY <3>4 DEF Members!Next
  <2> QED BY <2>2, <2>3
<1>5. CASE new.pc \in Granting
  <2>1. Passes(req[r], new) /\ ~At(r, "accept_save") /\ UNCHANGED orphans /\ new.inv = i /\ new.user = u
    BY <1>5 DEF Reads, Passes, At, Inviting, Granting
  <2>2. CASE new.pc = "accept_member"
    <3>1. req[r].pc = "accept_read" /\ i \in Open /\ u \in Users
      BY <2>1, <2>2 DEF Passes, IndInv, RequestsSound, Sound, Accepting
    <3>2. Claims[r].stage = "none"
      BY <1>3, <3>1, ClaimStages DEF Granting
    <3>3. ClaimOf(r)' = [terms |-> TermsOf(i), user |-> u, stage |-> "made"]
      BY <1>1, <1>2, <2>1, <2>2 DEF ClaimOf, Stage, Granting
    <3>4. TermsOf(i) \in OpenTerms
      BY <3>1 DEF OpenTerms
    <3> HIDE DEF i, u
    <3>5. Members!Claim(r, TermsOf(i), u)
      BY <1>1, <1>2, <2>1, <3>2, <3>3 DEF Members!Claim, Members!Held, OpenTerms, Claims
    <3> QED BY <3>1, <3>4, <3>5 DEF Members!Next, OpenTerms
  <2>3. CASE new.pc = "accept_assign"
    <3>1. req[r].pc = "accept_member" /\ role[inv[i].tenant][u] = NoRole
      BY <2>1, <2>3 DEF Passes, IsMember
    <3>2. Claims[r] = [terms |-> TermsOf(i), user |-> u, stage |-> "made"]
      BY <1>3, <3>1, ClaimCases
    <3>3. ClaimOf(r)' = [terms |-> TermsOf(i), user |-> u, stage |-> "vetted"]
      BY <1>1, <1>2, <2>1, <2>3 DEF ClaimOf, Stage, Granting
    <3>4. TermsOf(i).tenant = inv[i].tenant
      BY DEF TermsOf
    <3> HIDE DEF i, u
    <3>5. ClaimOf(r)' = [Claims[r] EXCEPT !.stage = "vetted"]
      BY <3>2, <3>3
    <3>6. Claims' = [Claims EXCEPT ![r].stage = "vetted"]
      BY <1>1, <3>5
    <3>7. Claims[r].stage = "made" /\ role[Claims[r].terms.tenant][Claims[r].user] = NoRole
      BY <3>1, <3>2, <3>4
    <3>8. Members!Vet(r)
      BY <1>1, <1>2, <2>1, <3>6, <3>7 DEF Members!Vet, Members!Held, OpenTerms, Claims
    <3> QED BY <3>8 DEF Members!Next
  <2> QED BY <1>5, <2>1, <2>2, <2>3 DEF Passes, Granting
<1> QED BY <1>4, <1>5

\* assign_role is the join of a vetted claim.
LEMMA AssignRefines ==
    ASSUME IndInv, Moves, NEW r \in Requests, NEW new \in Request, StepTo(r, new), AcceptAssign(r),
           new.pc = "accept_save", new.inv = req[r].inv, new.user = req[r].user
    PROVE  [Members!Next]_(Members!vars)
<1> DEFINE i == req[r].inv
           u == req[r].user
           pair == <<i, u>>
<1>1. /\ req[r].pc = "accept_assign" /\ UNCHANGED <<inv, orphans, now>>
      /\ role' = [role EXCEPT ![inv[i].tenant][u] = inv[i].role]
      /\ req'[r] = new /\ Claims' = [Claims EXCEPT ![r] = ClaimOf(r)']
  BY Assigned, Stepped, ClaimMoves
<1>2. PICK g : granted' = granted \cup {g} /\ g.inv = i /\ g.user = u
  BY Assigned
<1>3. OpenTerms' = OpenTerms /\ Offered' = Offered /\ \A j : TermsOf(j)' = TermsOf(j)
  BY <1>1, OpenKept
<1>4. Joined' = Joined \cup {pair}
  BY <1>2 DEF Joined
<1>5. Claims[r] = [terms |-> TermsOf(i), user |-> u, stage |-> "vetted"]
  BY <1>1, ClaimCases DEF Claims
<1>6. ClaimOf(r)' = [terms |-> TermsOf(i), user |-> u, stage |-> "joined"]
  BY <1>1, <1>3 DEF ClaimOf, Stage, Granting
<1>7. TermsOf(i).tenant = inv[i].tenant /\ TermsOf(i).role = inv[i].role /\ TermsOf(i).inv = i
  BY DEF TermsOf
<1> HIDE DEF i, u
<1>8. ClaimOf(r)' = [Claims[r] EXCEPT !.stage = "joined"]
  BY <1>5, <1>6
<1>9. Claims' = [Claims EXCEPT ![r].stage = "joined"]
  BY <1>1, <1>8
<1>10. /\ Claims[r].stage = "vetted" /\ pair = <<Claims[r].terms.inv, Claims[r].user>>
       /\ role' = [role EXCEPT ![Claims[r].terms.tenant][Claims[r].user] = Claims[r].terms.role]
  <2>1. Claims[r].stage = "vetted" /\ Claims[r].terms = TermsOf(i) /\ Claims[r].user = u
    BY <1>5
  <2>2. Claims[r].terms.tenant = inv[i].tenant /\ Claims[r].terms.role = inv[i].role /\ Claims[r].terms.inv = i
    BY <2>1, <1>7
  <2>3. role' = [role EXCEPT ![Claims[r].terms.tenant][Claims[r].user] = Claims[r].terms.role]
    BY <1>1, <2>1, <2>2
  <2> QED BY <2>1, <2>2, <2>3
<1> HIDE DEF pair
<1>11. Members!Join(r)
  BY <1>1, <1>3, <1>4, <1>9, <1>10 DEF Members!Join, Members!Held, Members!Pair, OpenTerms, Claims
<1> QED BY <1>11 DEF Members!Next

\* A row that is created is an invitation made.
LEMMA CreateRefines ==
    ASSUME IndInv, Moves, NEW r \in Requests, NEW new \in Request, StepTo(r, new), new.pc = "send_mail",
           NEW i \in Invites, SendCreate(r, i)
    PROVE  [Members!Next]_(Members!vars)
<1> DEFINE o == [inv |-> i, tenant |-> req[r].tenant, email |-> req[r].email, role |-> req[r].role]
<1>1. /\ req[r].pc = "send_create" /\ inv[i].status = "unsent"
      /\ inv'[i].status = "pending" /\ inv'[i].tenant = req[r].tenant
      /\ inv'[i].email = req[r].email /\ inv'[i].role = req[r].role
      /\ inv'[i].expires = now + Expiry
      /\ \A j \in Invites \ {i} : inv'[j] = inv[j]
      /\ UNCHANGED <<role, granted, orphans, now>>
  BY Created
<1>2. /\ Claims' = [Claims EXCEPT ![r] = ClaimOf(r)'] /\ req'[r] = new
      /\ ClaimOf(r) = [stage |-> "none"]
  BY <1>1, ClaimMoves, Stepped, ClaimCases DEF Granting
<1>3. ClaimOf(r)' = [stage |-> "none"]
  BY <1>2 DEF ClaimOf, Granting
<1>4. Claims' = Claims
  BY <1>2, <1>3 DEF Claims
<1>5. now <= now + Expiry
  BY MembershipAssumption DEF IndInv, TypeOK
<1>6. i \notin Offered /\ Offered' = Offered \cup {i} /\ Joined' = Joined
  BY <1>1 DEF Offered, Joined
<1>7. i \notin Open /\ Open' = Open \cup {i}
  BY <1>1, <1>5 DEF Open
<1>8. o \in Members!Terms /\ o.inv = i
  <2>1. req[r].tenant \in Tenants /\ req[r].email \in Emails /\ req[r].role \in RoleChoices
    BY <1>1 DEF IndInv, RequestsSound, Sound, Sending
  <2> QED BY <2>1 DEF Members!Terms
<1>9. TermsOf(i)' = o /\ \A j \in Open : TermsOf(j)' = TermsOf(j)
  <2>1. TermsOf(i)' = o
    BY <1>1 DEF TermsOf
  <2>2. \A j \in Open : inv'[j] = inv[j]
    BY <1>1, <1>7 DEF Open
  <2> QED BY <2>1, <2>2 DEF TermsOf
<1> HIDE DEF o
<1>10. OpenTerms' = OpenTerms \cup {o}
  BY <1>7, <1>9 DEF OpenTerms
<1>11. Members!Invite(o)
  BY <1>1, <1>4, <1>6, <1>8, <1>10 DEF Members!Invite, OpenTerms, Claims
<1> QED BY <1>8, <1>11 DEF Members!Next

\* A row that is closed settles the claim that closes it, or is an invitation closed.
LEMMA CloseRefines ==
    ASSUME IndInv, Moves, NEW r \in Requests, NEW new \in Request, StepTo(r, new), new.pc = "idle",
           AcceptExpire(r) \/ AcceptSave(r) \/ RevokeSave(r)
    PROVE  [Members!Next]_(Members!vars)
<1> DEFINE i == req[r].inv
<1>1. /\ i \in Invites /\ inv'[i].status \in Closed /\ \A j \in Invites \ {i} : inv'[j] = inv[j]
      /\ UNCHANGED <<role, granted, orphans, now>>
      /\ req[r].pc \in {"accept_expire", "revoke_save", "accept_save"}
  BY Closes
<1>2. /\ Claims' = [Claims EXCEPT ![r] = ClaimOf(r)'] /\ req'[r] = new
      /\ inv[i].status # "unsent"
  BY <1>1, ClaimMoves, Stepped DEF IndInv, RequestsSound, Sound, Accepting, Granting, Revoking
<1>3. ClaimOf(r)' = [stage |-> "none"]
  BY <1>2 DEF ClaimOf, Granting
<1>4. CASE req[r].pc = "accept_save"
  <2>1. Claims[r] = [terms |-> TermsOf(i), user |-> req[r].user, stage |-> "joined"]
    BY <1>4, ClaimCases DEF Claims
  <2> HIDE DEF i
  <2>2. Open' = Open \ {i} /\ Offered' = Offered /\ Joined' = Joined
    BY <1>1, <1>2 DEF Open, Offered, Joined, Closed
  <2>3. \A j \in Open \ {i} : TermsOf(j)' = TermsOf(j) /\ TermsOf(j) # TermsOf(i)
    BY <1>1 DEF Open, TermsOf
  <2>4. OpenTerms' = OpenTerms \ {TermsOf(i)}
    BY <2>2, <2>3 DEF OpenTerms
  <2>5. Claims[r].stage = "joined" /\ Claims[r].terms = TermsOf(i)
    BY <2>1
  <2>6. Members!Settle(r)
    BY <1>1, <1>2, <1>3, <2>2, <2>4, <2>5
    DEF Members!Settle, Members!Held, Members!NoClaim, OpenTerms, Claims
  <2> QED BY <2>6 DEF Members!Next
<1>5. CASE req[r].pc \in {"accept_expire", "revoke_save"}
  <2>1. ClaimOf(r) = [stage |-> "none"]
    BY <1>5, ClaimCases DEF Granting
  <2>2. Claims' = Claims
    BY <1>2, <1>3, <2>1 DEF Claims
  <2> HIDE DEF i
  <2>3. Open' = Open \ {i} /\ Offered' = Offered /\ Joined' = Joined
    BY <1>1, <1>2 DEF Open, Offered, Joined, Closed
  <2>4. \A j \in Open \ {i} : TermsOf(j)' = TermsOf(j)
    BY <1>1 DEF Open, TermsOf
  <2>5. OpenTerms' \subseteq OpenTerms
    BY <2>3, <2>4 DEF OpenTerms
  <2>6. Members!Close
    BY <1>1, <2>2, <2>3, <2>5 DEF Members!Close, OpenTerms, Claims
  <2> QED BY <2>6 DEF Members!Next
<1> QED BY <1>1, <1>4, <1>5

\* Every step is one of TenantMembers, or none.
LEMMA StepRefines == ASSUME IndInv, [Next]_vars PROVE [Members!Next]_(Members!vars)
<1>1. Moves
  BY IndInvStep
<1>2. CASE UNCHANGED <<inv, role, req, granted, orphans>>
  <2>1. Claims' = Claims /\ Offered' = Offered /\ Joined' = Joined
    BY <1>2 DEF Claims, ClaimOf, TermsOf, Offered, Joined
  <2>2. Open' \subseteq Open
    <3>1. now \in Nat /\ now' \in Nat /\ now <= now' /\ \A j \in Invites : inv[j].expires \in Nat
      BY <1>1, IndInvStep DEF Moves, IndInv, TypeOK
    <3> QED BY <1>2, <3>1 DEF Open
  <2>3. OpenTerms' \subseteq OpenTerms
    BY <1>2, <2>2 DEF OpenTerms, TermsOf
  <2>4. Members!Close
    BY <1>2, <2>1, <2>3 DEF Members!Close, OpenTerms, Claims
  <2> QED BY <2>4 DEF Members!Next
<1>3. ASSUME NEW r \in Requests, NEW new \in Request, StepTo(r, new) PROVE [Members!Next]_(Members!vars)
  <2>1. ASSUME WriteRole(r), new.pc = "idle" PROVE [Members!Next]_(Members!vars)
    <3>1. /\ req[r].pc = "role" /\ req[r].tenant \in Tenants /\ req[r].user \in Users
          /\ req[r].role \in RoleChoices \cup {NoRole}
          /\ role' = [role EXCEPT ![req[r].tenant][req[r].user] = req[r].role]
          /\ UNCHANGED <<inv, granted, orphans, now>>
      BY <2>1, RoleSet
    <3>2. ClaimOf(r) = [stage |-> "none"] /\ ClaimOf(r)' = [stage |-> "none"]
      BY <1>3, <2>1, <3>1, Stepped, ClaimCases DEF ClaimOf, Granting
    <3>3. Claims' = Claims
      BY <1>1, <1>3, <3>2, ClaimMoves DEF Claims
    <3>4. OpenTerms' = OpenTerms /\ Offered' = Offered /\ Joined' = Joined
      BY <3>1, OpenKept DEF Joined
    <3>5. Members!ChangeRole(req[r].user, req[r].tenant, req[r].role)
      BY <3>1, <3>3, <3>4 DEF Members!ChangeRole, OpenTerms, Claims
    <3> QED BY <3>1, <3>5 DEF Members!Next
  <2> QED BY <1>1, <1>3, <2>1, ReadRefines, AssignRefines, CreateRefines, CloseRefines DEF StepTo
<1> QED BY <1>2, <1>3, Steps

\* The services implement TenantMembers, in every interleaving and with every death of a request:
\* who joins held a claim made while his invitation was open and was seen to have no role, and a
\* claim that brought its user in closes the invitation or is on record as abandoned.
THEOREM ImplementsMembers == Spec => MembersSpec
<1>1. Init => Members!Init
  <2> SUFFICES ASSUME Init PROVE Members!Init
    OBVIOUS
  <2>1. /\ \A i \in Invites : inv[i].status = "unsent"
        /\ \A r \in Requests : req[r].pc = "idle"
        /\ granted = {} /\ orphans = {} /\ role = Founders
    BY UnsentFacts, IdleFacts DEF Init
  <2>2. OpenTerms = {} /\ Offered = {} /\ Joined = {}
    BY <2>1 DEF OpenTerms, Open, Offered, Joined
  <2>3. Claims = [r \in Requests |-> [stage |-> "none"]]
    BY <2>1 DEF Claims, ClaimOf, Granting
  <2> QED BY <2>1, <2>2, <2>3 DEF Members!Init, Members!NoClaim, OpenTerms, Claims
<1>2. IndInv /\ [Next]_vars => [Members!Next]_(Members!vars)
  BY StepRefines
<1> QED BY <1>1, <1>2, InitEstablishes, IndInvStep, PTL DEF Spec, MembersSpec, Members!Spec
=============================================================================
