SPECIFICATION Spec
CONSTANTS
    Runs = {r1, r2}
    KeepLastN = 3
    Threshold = 100
    PageLimit = 100
    MaxTurns = 1
    MaxChunks = 1
    MaxUsers = 1
    MaxFaults = 1
PROPERTY ResumedContextsPaired
CHECK_DEADLOCK FALSE
