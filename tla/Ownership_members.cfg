SPECIFICATION Spec
CONSTANTS
    Users = {u1, u2, u3}
    Admin = Admin
    Deletable = {u3}
    Invocations = {p1, p2}
    None = None
    MaxRevision = 2
SYMMETRY Symmetry
INVARIANTS TypeOK OwnerIsNamed
PROPERTY RemovedStays
