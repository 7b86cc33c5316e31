\* The code's maxRetries, against three requests on one list.
CONSTANTS
    Issuers = {i1}
    Requests = {r1, r2, r3}
    Seeded = {i1}
    Slug <- OwnSlugs
    BitLengths = {2}
    SeedLength = 2
    MaxRetries = 5
    NoRow = NoRow
SPECIFICATION PromptSpec
SYMMETRY MCSymmetry
CHECK_DEADLOCK FALSE
INVARIANT SuccessIsCommitted
