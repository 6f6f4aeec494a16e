SPECIFICATION FairSyncSpec
CONSTANTS
    Sends = {s1}
    Runs = {r1}
    PageLimit = 2
    MaxEvents = 4
CHECK_DEADLOCK FALSE
INVARIANT StreamInOrder
INVARIANT NoRunOutlivesSend
INVARIANT ReturnedIsComplete
INVARIANT MirrorsAsync
INVARIANT NoRunOutlivesLoop
PROPERTY CallersReturn
