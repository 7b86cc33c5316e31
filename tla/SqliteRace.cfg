\* Do two issuances that overlap get two indices?
CONSTANTS
    Requests = {r1, r2, r3}
SYMMETRY Symmetry
CHECK_DEADLOCK FALSE
SPECIFICATION CalmSpec
INVARIANT UniqueStatus
