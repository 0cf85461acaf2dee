SPECIFICATION Spec
CONSTANTS
    Events = {e1, e2}
    Deliveries = {d1, d2}
    Workers = {w1, w2}
    Customers = {c1}
    Subs = {s1, s2}
    e1 = e1 e2 = e2 e3 = e3 d1 = d1 d2 = d2 d3 = d3
    w1 = w1 w2 = w2 c1 = c1 c2 = c2 s1 = s1 s2 = s2
    NoEvent = NoEvent NoSub = NoSub NoCustomer = NoCustomer NoMessage = NoMessage
    Histories <- PipelineHistories
    Accounts <- PipelineAccounts
    EventRetries = 1
    DunningRetries = 1
    Grace = 1
    MaxTime = 0
    MaxLost = 1
CHECK_DEADLOCK FALSE

INVARIANT DuplicateIsDispatched
