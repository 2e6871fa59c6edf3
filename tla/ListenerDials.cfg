SPECIFICATION FairSpec
CONSTANTS
    Clients = {c1, c2, c3}
    Acceptors = {g1}
    None = None
    Stopped = Stopped
    Backlog = 1
    Timeouts <- MCTimeouts
CHECK_DEADLOCK FALSE
INVARIANTS
    NoLeak
PROPERTIES
    EstablishedStays
    EveryDialReturns
