SPECIFICATION StreamFairSpec
CONSTANTS
    Streams <- MixedStreams
    PktSize = 5
    BufSize = 6
    Calls = {"a", "b", "c"}
CHECK_DEADLOCK FALSE
INVARIANTS InOrder NothingWaits ServerToldOnce CallsFailed
PROPERTIES EofLast EofReported ServerTold
