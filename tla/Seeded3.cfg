\* One issuer that has issued before, three concurrent requests of any kind, two
\* configured list lengths so that any issuance may also open a new list.
CONSTANTS
    Issuers = {i1}
    Requests = {r1, r2, r3}
    Seeded = {i1}
    Slug <- OwnSlugs
    BitLengths = {1, 2}
    SeedLength = 2
    MaxRetries = 2
    NoRow = NoRow
SPECIFICATION Spec
SYMMETRY MCSymmetry
CHECK_DEADLOCK FALSE
INVARIANTS TypeOK UniqueStatus StatusResolves BitsAreIntent
PROPERTIES CountersAdvance ImplementsRegistry
