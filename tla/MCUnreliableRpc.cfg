SPECIFICATION FairSpec
CONSTANTS
    Xids = {x1, x2}
    Timed = {x1}
    MinTo = 1
    MaxSend = 3
    MaxRSize = 1
INVARIANT QueuesExact
PROPERTIES NoEarlyReexecution CallsEnd
