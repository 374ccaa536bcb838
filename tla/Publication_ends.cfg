SPECIFICATION PublishingSpec
CONSTANTS
    Stands = {s1, s2}
    Invocations = {p1}
    None = None
    PageSize = 2
    MaxEditions = 0
PROPERTY PublicationEnds
CHECK_DEADLOCK FALSE
