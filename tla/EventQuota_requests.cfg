SPECIFICATION TrafficSpec
CONSTANTS
    Keys = {k1, k2, k3}
    Events = {e1, e2, e3}
    Invocations = {p1, p2}
    None = None
    Plans = {1, 2}
    Legacy = {}
    MaxPlanChanges = 1
    MaxRepairCrashes = 0
    IndexLag = TRUE
SYMMETRY Interchangeable
INVARIANTS CapacityCovered NoOversubscription
