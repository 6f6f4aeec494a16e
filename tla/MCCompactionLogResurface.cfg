SPECIFICATION Spec
CONSTANTS
    KeepLastN = 1
    Threshold = 4
    Harnesses = {h1}
    MaxEvents = 7
PROPERTY DroppedStaysDropped
CHECK_DEADLOCK FALSE
