\* Three requests of any kind, with one supported and one unsupported proof format; three
\* calls of any kind on the one connection of SQLite.
CONSTANTS
    Requests = {r1, r2, r3}
    Statuses = {s1, s2, s3}
    Formats = {lds, oa}
    Supported = {lds}
    VcApiFormat = lds
    OAFormat = oa
    None = None
SPECIFICATION StorageSpec
SYMMETRY Symmetry
CHECK_DEADLOCK FALSE
INVARIANTS
     
    SerialCallsKeepTheirIndex SerialCallsKeepTheirBit
