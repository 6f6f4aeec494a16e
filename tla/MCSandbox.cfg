SPECIFICATION Spec
CONSTANTS
    Callers = {c1, c2, c3}
    Ids = {k1, k2}
    MaxFaults = 2
    None = None
SYMMETRY Symmetry
INVARIANT NothingLeaks
PROPERTY DeadStaysDead
PROPERTY NoToolAfterDestroy
CHECK_DEADLOCK FALSE
