SPECIFICATION FairSpec
CONSTANTS
    Calls = {c1, c2, c3}
    SndBuf = 0
    EarlyCalls = FALSE
    MaxConns = 2
    MaxPings = 2
CHECK_DEADLOCK FALSE
INVARIANT NoReplyLost
PROPERTIES ImplementsAtMostOnce CallsAnswered
