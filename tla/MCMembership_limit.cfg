SPECIFICATION Spec
CONSTANTS
    Users = {owner, ann, bob}
    Tenants = {t1}
    Emails = {owner, ann, bob}
    Superusers = {}
    EmailOf <- MCEmailOf
    MaxMembers <- MCMaxMembers
    Founders <- MCFounders
    Invites = {i1, i2}
    Requests = {r1}
    GivenRoles = {"member", "admin"}
    Expiry = 1
    MaxTime = 1
    MaxCrashes = 0
    owner = owner ann = ann bob = bob t1 = t1 i1 = i1 i2 = i2 r1 = r1 r2 = r2
    NoUser = NoUser NoTenant = NoTenant NoEmail = NoEmail NoInvite = NoInvite NoRole = NoRole
SYMMETRY Symmetry
CHECK_DEADLOCK FALSE
INVARIANT MemberLimit
