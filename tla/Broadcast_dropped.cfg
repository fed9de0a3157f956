CONSTANTS
    Sockets = {s1, s2, s3}
    NumCasts = 1
    Http = Http
SPECIFICATION Spec
PROPERTIES
    OpenPeersKeepUpdates
CHECK_DEADLOCK FALSE
