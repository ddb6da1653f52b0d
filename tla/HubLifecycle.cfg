\* Two clients and two daemons race for the hub's files.
SPECIFICATION FairSpec
CONSTANTS
    Clients = {c1, c2}
    Daemons = {d1, d2}
    None = None
    Empty = Empty
    Patient = FALSE
    MaxCrashes = 1
INVARIANTS
    OneHub
    HubSeenAlive
    EndpointOfHolder
PROPERTIES
    HubExits
CHECK_DEADLOCK FALSE
