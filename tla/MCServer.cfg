SPECIFICATION MCSpec
CONSTANTS
    Conns = {c1, c2, c3}
    DrainTimeout = 2
    Requests = {r1}
    MaxWrites = 3
    MaxEvents = 2
    Valid = {1, 3}
    Debounce = 2
    Settle = 1
    Capacity = 2
    Procs = {p1, p2, p3}
    OldPid = OldPid
    Nobody = Nobody
INVARIANTS
    DrainIsSafe
    ReloadIsSafe
    SingleInstance
PROPERTIES
    ServerObeys
CHECK_DEADLOCK FALSE
