\* Two loops at once, two agents, one message of a user and one of an agent.
CONSTANTS
    Loops = {l1, l2}
    Messages = {m1, m2}
    UserMessages = {m1}
    NumAgents = 2
    MaxIterations = 2
SYMMETRY Symmetry
SPECIFICATION Spec
INVARIANTS
    TypeOK
    SingleCustody
    QueueingNeedsLoop
    CyclesAddUp
    DeliveredInOrder
    LoopKeepsSessionBusy
PROPERTIES
    DeletedIsFrozen
    ImplementsMailbox
CHECK_DEADLOCK FALSE
