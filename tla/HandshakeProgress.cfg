SPECIFICATION FairSpec
CONSTANTS
    c1 = c1
    c2 = c2
    a = a
    b = b
    s = s
    Conns = {c1}
    Ids = {a, b, s}
    None = None
    Topologies <- MCOneConnTopologies
    Timeouts <- MCAllTimeouts
    MaxFaults = 2
    MaxFailures = 1
CHECK_DEADLOCK FALSE
INVARIANTS
    TypeOK
PROPERTIES
    EveryHandshakeEnds
    HonestSuccess
