SPECIFICATION Spec
CONSTANTS
    c1 = c1
    c2 = c2
    a = a
    b = b
    s = s
    Conns = {c1, c2}
    Ids = {a, b, s}
    None = None
    Topologies <- MCTopologies
    Timeouts <- MCNoTimeout
    MaxFaults = 1
    MaxFailures = 0
CHECK_DEADLOCK FALSE
INVARIANTS
    InitiatorAgreement
    NoKeyConfusion
    RecordOrigin
    TookWhatWasSent
