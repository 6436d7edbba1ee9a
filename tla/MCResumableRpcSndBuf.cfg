SPECIFICATION Spec
CONSTANTS
    Calls = {c1, c2, c3}
    SndBuf = 1
    EarlyCalls = FALSE
    MaxConns = 2
    MaxPings = 0
CHECK_DEADLOCK FALSE
INVARIANTS NoReplyLost
