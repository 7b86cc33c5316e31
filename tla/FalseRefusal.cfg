\* One request that revokes an active credential.
CONSTANTS
    Issuers = {i1}
    Requests = {r1, r2}
    Seeded = {i1}
    Slug <- OwnSlugs
    BitLengths = {2}
    SeedLength = 2
    MaxRetries = 2
    NoRow = NoRow
SPECIFICATION Spec
CHECK_DEADLOCK FALSE
PROPERTY RefusalIsTrue
