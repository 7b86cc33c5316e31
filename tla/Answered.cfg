\* One issuer that has issued before and one that has not, two concurrent requests, under
\* the server's fairness.
CONSTANTS
    Issuers = {i1, i2}
    Requests = {r1, r2}
    Seeded = {i1}
    Slug <- OwnSlugs
    BitLengths = {1, 2}
    SeedLength = 2
    MaxRetries = 2
    NoRow = NoRow
SPECIFICATION FairSpec
CHECK_DEADLOCK FALSE
INVARIANT UniqueStatus
PROPERTY EveryCallAnswered
