CONSTANTS
    QueueSize = 3
    HeaderLen = 12
    NetBufLen = 1526
    None = None

SPECIFICATION Spec

INVARIANTS
    TypeOK
    BuffersConserved
    SlotsMirrorQueues
