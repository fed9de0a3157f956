CONSTANTS
    Loops = {l1, l2}
    Messages = {m1}
    UserMessages = {m1}
    NumAgents = 2
    MaxIterations = 1
SPECIFICATION Spec
INVARIANTS
    UsersNeverInterrupt
CHECK_DEADLOCK FALSE
