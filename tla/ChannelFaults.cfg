SPECIFICATION FairSpec
CONSTANTS
    Writers = {w1}
    Readers = {r1}
    Free = Free
    HdrSize = 2
    Overhead = 0
    MaxFrameSize = 2
    SeqMax = 2
    WriteSizes = {1, 3}
    ReadSizes = {1}
    WireFaults = {"corrupt", "lose", "duplicate"}
    MaxWrites = 2
    MaxWireFaults = 1
    MaxReadDeadlines = 1
    MaxWriteDeadlines = 1
INVARIANTS
    NonceUnique
    StreamPrefix
    TornStops
PROPERTIES
    ImplementsByteStream
    EventualDelivery
