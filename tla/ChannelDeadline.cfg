SPECIFICATION Spec
CONSTANTS
    Writers = {w1}
    Readers = {r1}
    Free = Free
    HdrSize = 2
    Overhead = 1
    MaxFrameSize = 3
    SeqMax = 2
    WriteSizes = {1, 3}
    ReadSizes = {1, 4}
    WireFaults = {}
    MaxWrites = 2
    MaxWireFaults = 0
    MaxReadDeadlines = 1
    MaxWriteDeadlines = 0
INVARIANTS
    DeadlineKeepsStream
