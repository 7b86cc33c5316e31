\* Three concurrent issuances of an issuer without a row yet.
CONSTANTS
    Issuers = {i1}
    Requests = {r1, r2, r3}
    Seeded = {}
    Slug <- OwnSlugs
    BitLengths = {2}
    SeedLength = 2
    MaxRetries = 2
    NoRow = NoRow
SPECIFICATION Spec
SYMMETRY MCSymmetry
CHECK_DEADLOCK FALSE
INVARIANT UniqueStatus
