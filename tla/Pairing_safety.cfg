\* Two strings for three codes: one of them is drawn again.
CONSTANTS
    Ids = {i1, i2}
    Endpoints = {e1, e2}
    Codes = {c1, c2}
    TTL = 1
    MaxTime = 4
    MaxIssued = 3
    None = None
SYMMETRY Symmetry
SPECIFICATION Spec
INVARIANTS
    TypeOK
    CodesSpentOnce
    ConnectionSparesCode
