SPECIFICATION Spec
CONSTANTS
    Stands = {s1, s2}
    Invocations = {p1, p2}
    None = None
    PageSize = 1
    MaxEditions = 1
SYMMETRY Symmetry
INVARIANTS TypeOK CanonicalStand
PROPERTIES PassComplete KeepsLifecycle
