\* A work queue: readers come, leave, stop reading and are closed in a delivery.
SPECIFICATION Spec
CONSTANTS
    Clients = {c1, c2}
    Channels = {k1}
    Modes <- QueueModes
    None = None
    MaxPending = 2
    SockBuf = 1
    InBuf = 1
    MaxHandles = 1
    MaxPublish = 2
SYMMETRY Symmetry
INVARIANTS
    TypeOK
    BacklogOnlyWithoutReaders
    ConsumedOnce
    PublisherOrder
PROPERTY PipesAreLines
CHECK_DEADLOCK FALSE
