SPECIFICATION Spec
CONSTANTS
    s1 = s1
    s2 = s2
    k1 = k1
    k2 = k2
    Servers = {s1, s2}
    Keys = {k1, k2}
    Seconds = {0, 1}
    MaxRetries = 2
    MaxRequests = 2
INVARIANTS
    TypeOK
    Conserved
    SecondsConserved
PROPERTIES
    FlushEnds
CHECK_DEADLOCK FALSE
