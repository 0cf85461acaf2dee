SPECIFICATION FairSpec
CONSTANTS
    Hosts = {h1, h2}
    Tenants = {t1, t2}
    Names = {n1, n2}
    Requests = {r1, r2}
    Creators = {a, b}
    Founded <- MCFounded
    Registered <- MCRegistered
    MaxChanges = 2
    t1 = t1 t2 = t2 n1 = n1 n2 = n2 h1 = h1 h2 = h2 r1 = r1 r2 = r2 a = a b = b
    NoTenant = NoTenant NoName = NoName NoHost = NoHost
INVARIANTS TypeOK ServedWasTrue Whole
PROPERTY CacheCatchesUp
