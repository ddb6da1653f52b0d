\* Requests are answered and parked offers decided.
SPECIFICATION FairSpec
CONSTANTS
    Clients = {c1, c2}
    Channels = {k1}
    Modes <- ChannelModes
    None = None
    MaxPending = 0
    SockBuf = 2
    InBuf = 1
    MaxHandles = 1
    MaxPublish = 2
PROPERTIES
    RequestsAnswered
    ParkedOfferDecided
CHECK_DEADLOCK FALSE
