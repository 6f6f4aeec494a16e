SPECIFICATION FairSpec
CONSTANTS
    Runs = {r1, r2}
    KeepLastN = 2
    Threshold = 6
    PageLimit = 100
    MaxTurns = 1
    MaxChunks = 1
    MaxUsers = 1
    MaxFaults = 1
INVARIANT PromptSeededOnce
INVARIANT ResultsMatchCalls
INVARIANT SandboxesOwned
PROPERTY RunsEnd
CHECK_DEADLOCK FALSE
