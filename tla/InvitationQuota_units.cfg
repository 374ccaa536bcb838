SPECIFICATION Spec
CONSTANTS
    Invitations = {i1, i2}
    Invocations = {p1, p2}
    Legacy = {i1, i2}
    None = None
    Limit = 2
    MaxResends = 0
SYMMETRY Symmetry
INVARIANTS TypeOK ReservedExact PaidOnce
