CONSTANTS
    Sessions = {s1, s2}
    Agents = {a1, a2}
    Topics = {t1}
    Messages = {m1, m2}
    Nobody = Nobody
    MaxTime = 1
SYMMETRY Symmetry
SPECIFICATION Spec
INVARIANTS
    TypeOK
    PushesAreBacked
    PollingGetsPosted
    HistoryInOrder
CHECK_DEADLOCK FALSE
