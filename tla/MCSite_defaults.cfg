SPECIFICATION MCSpec
CONSTANTS
    Acting = {"flags"}
    TFRequests = {r1, r2}
    Secrets = {a1, a2}
    RowIds = {w1}
    CodeNumbers = {b1, b2}
    SessionKeys = {k1}
    MaxResets = 1
    NoSecret = NoSecret
    NoRow = NoRow
    NoKey = NoKey
    RgRequests = {r1, r2}
    MaxUsers = 2
    Bases = {a1, a2}
    MaxSuffix = 1
    Addresses = {b1, b2}
    NoAddress = NoAddress
    NoName = NoName
    PrRequests = {r1, r2}
    PrUsers = {b1, b2}
    PrAddresses = {d1, d2}
    Commands = {r3}
    MaxHash = 2
    MaxMails = 2
    Placeholder = Placeholder
    Creators = {r1, r2}
    Markers = {r3}
    MaxNotes = 2
    f1 = f1
    f2 = f2
    Flags = {f1, f2}
    Defaults <- MCDefaults
    Slugs = {"free", "pro"}
    PlanFlags <- MCPlanFlags
    Readers = {r3}
    Syncs = {r3}
    PfRequests = {r1, r2}
    Texts = {a1, a2}
    Files = {b1, b2}
    NoText = NoText
    NoFile = NoFile
    ThRequests = {r1, r2}
    Members = {"user"}
    Guests = {"guest"}
    ThTenants = {"acme"}
    Plans = {"free", "pro"}
    ScopeRates <- MCScopeRates
    PlanRates <- MCPlanRates
    Loads <- MCLoads
    MaxTick = 2
INVARIANT DefaultsAnswer
SYMMETRY MCSymmetry
CHECK_DEADLOCK FALSE
