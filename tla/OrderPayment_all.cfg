SPECIFICATION MCSpec
CONSTANTS
    i1 = i1
    e1 = e1
    Invocations = {p1, p2}
    Intents = {i1, i2}
    Events = {e1, e2}
    None = None
    MaxTime = 2
    MaxFailures = 1
INVARIANTS TypeOK PaidIsReal WorkerHoldsLease
PROPERTIES KeepsPromise Settles
