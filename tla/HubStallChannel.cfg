\* Sibling handles on a channel, and peers that stop reading.
SPECIFICATION Spec
CONSTANTS
    Clients = {c1, c2}
    Channels = {k1}
    Modes <- ChannelModes
    None = None
    MaxPending = 1
    SockBuf = 1
    InBuf = 1
    MaxHandles = 2
    MaxPublish = 1
SYMMETRY Symmetry
INVARIANTS
    NoGhosts
CHECK_DEADLOCK FALSE
