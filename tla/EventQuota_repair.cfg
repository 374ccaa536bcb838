SPECIFICATION FairSpec
CONSTANTS
    Keys = {k1, k2}
    Events = {e1, e2}
    Invocations = {p1}
    None = None
    Plans = {1, 2}
    Legacy = {e2}
    MaxPlanChanges = 1
    MaxRepairCrashes = 0
    IndexLag = FALSE
INVARIANTS CounterBalanced ReservedExact
PROPERTIES UnitsReturnWithTheirRow Converges
