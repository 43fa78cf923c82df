SPECIFICATION ReloadFairSpec
CONSTANTS
    Requests = {}
    MaxWrites = 2
    MaxEvents = 1
    Valid = {2}
    Debounce = 2
    Settle = 1
    Capacity = 2
PROPERTIES
    LastWriteApplied
CHECK_DEADLOCK FALSE
