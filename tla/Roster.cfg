\* Without symmetry, for the liveness properties.
CONSTANTS
    Ids = {i1, i2}
    Endpoints = {e1, e2}
    None = None
    Shared = Shared
SPECIFICATION RosterSpec
INVARIANTS
    RosterTypeOK
PROPERTIES
    MonitorKeepsRegistrations
    StatusSettles
    ParticipantsKeepEndpoint
    SessionLearnsOfDeath
CHECK_DEADLOCK FALSE
