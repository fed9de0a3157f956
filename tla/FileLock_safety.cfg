\* Two paths, so that one disconnect hands over several locks at once; three
\* agents, so that a queue has an order; two calls, so that an event is
\* shared.  No symmetry, for the liveness property.
CONSTANTS
    Agents = {a1, a2, a3}
    Paths = {p1, p2}
    Calls = {c1, c2}
    None = None
SPECIFICATION FairSpec
INVARIANTS
    TypeOK
    LockTableConsistent
    NoLostWakeup
PROPERTIES
    TrueMeansHolding
    ImplementsFifoLock
    HandOffWakes
