SPECIFICATION Spec
CONSTANTS
    Keys = {k1, k2}
    Events = {e1, e2}
    Invocations = {p1, p2}
    None = None
    Plans = {1}
    Legacy = {}
    MaxPlanChanges = 0
    MaxRepairCrashes = 1
    IndexLag = TRUE
SYMMETRY Interchangeable
INVARIANTS TypeOK OneEventPerKey ConsumeSucceeds
