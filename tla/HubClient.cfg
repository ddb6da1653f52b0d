\* Threads that share the connection; frames come in parts, and the hub may die.
SPECIFICATION FromAttached
CONSTANTS
    t1 = t1
    t2 = t2
    writer = writer
    queue = queue
    peer = peer
    other = other
    Thread = {t1, t2}
    Handle = {writer, queue, peer, other}
    Side <- SideOfHandle
    None = None
    MaxCalls = 2
    MaxMessages = 2
    MaxAttempts = 2
    WholeFrames = FALSE
SYMMETRY Symmetry
INVARIANTS
    NothingLost
    AnswerIsOwn
    NobodyWaitsForTheDead
    OneReader
    NullMeansOver
CHECK_DEADLOCK FALSE
