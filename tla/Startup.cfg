\* Two starts and another program.  No symmetry, for the liveness property.
CONSTANTS
    Starters = {s1, s2}
    Other = Other
    None = None
SPECIFICATION FairSpec
INVARIANTS
    TypeOK
PROPERTIES
    OnlyListenersStopped
    StartSettles
CHECK_DEADLOCK FALSE
