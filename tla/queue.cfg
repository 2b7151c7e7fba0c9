SPECIFICATION FairSpec
CONSTANTS
    Requests = {r1, r2}
    Sessions = {s1, s2}
    NIREQ = 2
INVARIANTS
    ExclusiveStreams
    GaugesAgree
PROPERTIES
    ImplementsPool
    ServedOrAllIdle
