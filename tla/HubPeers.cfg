\* A message to subscribers, or two between peers, whose sockets have room.
SPECIFICATION PeersSpec
CONSTANTS
    Clients = {c1, c2}
    Channels = {k1}
    Modes <- PeerModes
    None = None
    MaxPending = 2
    SockBuf = 9
    InBuf = 2
    MaxHandles = 1
    MaxPublish = 2
SYMMETRY Symmetry
INVARIANTS
    PublisherOrder
    EverySubscriberServed
    AckedIsKept
    OneReplyPerRequest
CHECK_DEADLOCK FALSE
