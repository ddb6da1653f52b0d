\* Nobody is killed, and yet a client gives up.
SPECIFICATION Spec
CONSTANTS
    Clients = {c1, c2}
    Daemons = {d1, d2, d3}
    None = None
    Empty = Empty
    Patient = TRUE
    MaxCrashes = 0
SYMMETRY Symmetry
INVARIANTS
    HubStarts
CHECK_DEADLOCK FALSE
