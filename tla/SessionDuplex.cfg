SPECIFICATION FairSpec
CONSTANTS
    Readers <- MCReaders
    Writers <- MCWriters
    Free = Free
    HdrSize = 1
    Overhead = 1
    MaxFrameSize = 3
    InitSize = 1
    RespSize = 1
    WriteSizes = {2}
    BufSize = 1
    Capacity = 2
    Apps = {"stream", "closing", "echo"}
    MaxWrites = 1
CHECK_DEADLOCK FALSE
INVARIANTS
    FramesInOrder
PROPERTIES
    EveryWriteReturns
    EveryReadReturns
    EchoReturns
