CONSTANTS
    Sockets = {s1, s2, s3}
    NumCasts = 2
    Http = Http
SYMMETRY Symmetry
SPECIFICATION Spec
INVARIANTS
    TypeOK
    SubscribersAreConnected
    NoEventTwice
    EventsInSendersOrder
    MissedAtMostDepartures
CHECK_DEADLOCK FALSE
