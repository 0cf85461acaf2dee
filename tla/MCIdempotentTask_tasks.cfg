SPECIFICATION FairSpec
CONSTANTS
    Keys = {k1}
    Calls = {a, b}
    KeyOf <- MCKeyOf
    Workers = {w1, w2}
    Retries = 1
    Ttl = 1
    MaxTime = 2
    MaxFaults = 1
    k1 = k1 k2 = k2 a = a b = b c = c w1 = w1 w2 = w2
    NoMessage = NoMessage
CHECK_DEADLOCK FALSE
INVARIANTS TypeOK CachedRunsAreQuiet ExtraSendsExplained SentIsTrue
PROPERTY CallsSettle
