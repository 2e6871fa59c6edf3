SPECIFICATION Spec
CONSTANTS
    Writers = {w1, w2}
    Readers = {r1, r2}
    Free = Free
    HdrSize = 2
    Overhead = 1
    MaxFrameSize = 3
    SeqMax = 3
    WriteSizes = {1, 3}
    ReadSizes = {0, 2}
    WireFaults = {}
    MaxWrites = 2
    MaxWireFaults = 0
    MaxReadDeadlines = 1
    MaxWriteDeadlines = 0
SYMMETRY Symmetry
INVARIANTS
    TypeOK
    WriteContiguous
    ErrorsHaveCause
