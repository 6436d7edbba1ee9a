SPECIFICATION Spec
CONSTANTS
    LogMax = 1
    NDaemons = 2
    PathLevel = 1
    ShmMax = 4
    NCalls = 4
    MaxDeaths = 1
    Careful = TRUE
INVARIANTS
    NoStaleHandle
    RequestsHeld
    BuddyExact
    WaitersLack
PROPERTY AioAnswered
CHECK_DEADLOCK FALSE
