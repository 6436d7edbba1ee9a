SPECIFICATION Spec
CONSTANTS
    LogMax = 2
    NDaemons = 2
    PathLevel = 1
    ShmMax = 4
    NCalls = 4
    MaxDeaths = 0
    Careful = FALSE
INVARIANT NoStaleHandle
CHECK_DEADLOCK FALSE
