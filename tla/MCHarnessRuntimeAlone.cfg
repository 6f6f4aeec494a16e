SPECIFICATION Spec
CONSTANTS
    Runs = {r1}
    KeepLastN = 3
    Threshold = 10
    PageLimit = 100
    MaxTurns = 4
    MaxChunks = 2
    MaxUsers = 1
    MaxFaults = 0
INVARIANT PairedUnlessDisturbed
INVARIANT TextKeptUnlessDisturbed
INVARIANT CompletedIsAnswered
CHECK_DEADLOCK FALSE
