SPECIFICATION Spec
CONSTANTS
    Invocations = {p1, p2}
    Subscriptions = {s1, s2}
    Customers = {c1, c2}
    Events = {e1, e2, e3}
    Plans = {pilot, starter}
    Pilot = pilot
    Priced = {starter}
    None = None
    MaxTime = 2
    MaxFailures = 1
SYMMETRY Symmetry
INVARIANTS TypeOK EntitlementIsReal OneCustomer LatestEventWins
