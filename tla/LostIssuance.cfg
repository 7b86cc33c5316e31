\* The same requests when nothing fails by itself.
CONSTANTS
    Requests = {r1, r2, r3}
    Statuses = {s1, s2, s3}
    Formats = {lds, oa}
    Supported = {lds}
    VcApiFormat = lds
    OAFormat = oa
    None = None
SPECIFICATION CalmSpec
SYMMETRY MCSymmetry
CHECK_DEADLOCK FALSE
INVARIANT SavedIssuanceAnswered
