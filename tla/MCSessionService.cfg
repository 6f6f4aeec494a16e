SPECIFICATION FairSpec
CONSTANTS
    Sessions = {s1}
    Callers = {c1, c2}
    EventIds = {i1, i2}
    PageLimit = 1
    None = None
INVARIANT DenseSequences
INVARIANT NoUniqueViolation
INVARIANT AnswersDurable
INVARIANT ReaderMissesNothing
INVARIANT LateEmitRejected
PROPERTY ImplementsEventLog
PROPERTY CallsEnd
PROPERTY EventsReachReader
