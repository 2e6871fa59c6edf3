SPECIFICATION FairSpec
CONSTANTS
    Senders = {s1, s2}
    Receivers = {r1, r2}
    HdrSize = 2
    Overhead = 0
    MaxFrameSize = 2
    SeqMax = 2
    SendSizes = {1, 3}
    MaxSends = 2
    MaxRejections = 1
INVARIANTS
    NonceUnique
    RecordsInOrder
    FailuresHaveCause
PROPERTIES RecordsArrive
