SPECIFICATION MCSpec
CONSTANTS
    a1 = a1
    a2 = a2
    a3 = a3
    b1 = b1
    e1 = e1
    e2 = e2
    Rows = {a1, a2, a3, b1}
    Events = {e1, e2}
    Tables = {"a", "b"}
    TableOf <- MCTableOf
    EventOf <- MCEventOf
    Endpoints <- MCEndpoints
    LastKey = 3
    PageLimit = 2
    QueryPage = 2
    ListPages = 2
    ExportPages = 3
    BarrierAttempts = 2
    MaxItems = 3
    MaxChanges = 1
    MaxFailures = 2
INVARIANTS ListingTypeOK StableRowsOnce NothingHidden
PROPERTY ListingEnds
CHECK_DEADLOCK FALSE
