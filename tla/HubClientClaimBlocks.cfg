\* A receive on a channel while another thread has just published.
SPECIFICATION FromAttached
CONSTANTS
    t1 = t1
    t2 = t2
    writer = writer
    queue = queue
    peer = peer
    other = other
    Thread = {t1, t2}
    Handle = {writer, queue, peer, other}
    Side <- SideOfHandle
    None = None
    MaxCalls = 2
    MaxMessages = 2
    MaxAttempts = 2
    WholeFrames = FALSE
SYMMETRY Symmetry
INVARIANT ReceiveBlocks
CHECK_DEADLOCK FALSE
