CONSTANTS
    Loops = {l1}
    Messages = {m1, m2}
    UserMessages = {m1, m2}
    NumAgents = 2
    MaxIterations = 1
SPECIFICATION Spec
INVARIANTS
    CompletedLeavesNothingQueued
CHECK_DEADLOCK FALSE
