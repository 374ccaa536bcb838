SPECIFICATION Spec
CONSTANTS
    Submissions = {s1}
    RetryAttempts = 3
    Tokens = {t1}
    Modes = {"disabled", "turnstile"}
    Editors = {c1, c2}
    None = None
    MaxEdits = 2
SYMMETRY Symmetry
INVARIANTS TypeOK OneLeadPerSubmission SuccessIsStored NoLeadOfHidden NoLostUpdate
CHECK_DEADLOCK FALSE
