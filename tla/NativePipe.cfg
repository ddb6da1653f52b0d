\* A compiled program, its reader, and a hub that may stall, give up or die.
SPECIFICATION FromAttached
CONSTANTS
    writer = writer
    queue = queue
    peer = peer
    again = again
    Handle = {writer, queue, peer, again}
    Side <- SideOfHandle
    None = None
    Room = 1
    MaxCalls = 3
    MaxMessages = 2
    MaxAttempts = 2
INVARIANTS
    OrderKept
    AnswersAreOwn
PROPERTY CallsEnd
CHECK_DEADLOCK FALSE
