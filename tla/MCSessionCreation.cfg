SPECIFICATION FairSpec
CONSTANTS
    Callers = {c1, c2, c3}
    AgentIds = {a1}
    SessionIds = {u1, u2, u3}
    RequestIds = {r1, r2}
    None = None
INVARIANT SameSessionPerRequest
INVARIANT RaceLoserFindsWinner
PROPERTY CreateEnds
CHECK_DEADLOCK FALSE
