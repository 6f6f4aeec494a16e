SPECIFICATION Spec
CONSTANTS
    KeepLastN = 2
    Threshold = 4
    Harnesses = {h1, h2}
    MaxEvents = 7
SYMMETRY Symmetry
INVARIANT FirstUserStaysActive
INVARIANT RecentEventsStayActive
CHECK_DEADLOCK FALSE
