SPECIFICATION Spec
CONSTANTS
    Events = {e1, e2, e3}
    Deliveries = {d1, d2, d3}
    Workers = {w1}
    Customers = {c1, c2}
    Subs = {s1, s2}
    e1 = e1 e2 = e2 e3 = e3 d1 = d1 d2 = d2 d3 = d3
    w1 = w1 w2 = w2 c1 = c1 c2 = c2 s1 = s1 s2 = s2
    NoEvent = NoEvent NoSub = NoSub NoCustomer = NoCustomer NoMessage = NoMessage
    Histories <- RowHistories
    Accounts <- RowAccounts
    EventRetries = 0
    DunningRetries = 0
    Grace = 1
    MaxTime = 1
    MaxLost = 0
CHECK_DEADLOCK FALSE
SYMMETRY RowSymmetry
INVARIANTS GraceJustified
