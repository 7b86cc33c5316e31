\* Is an issuance answered that is alone, whatever ended before it?
CONSTANTS
    Requests = {r1, r2, r3}
SYMMETRY Symmetry
CHECK_DEADLOCK FALSE
SPECIFICATION CalmSpec
INVARIANT LoneIssuanceIsAnswered
