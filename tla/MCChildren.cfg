SPECIFICATION ChildFairSpec
CONSTANTS
    NSig = 2
    PipeCap = 1
    MaxCatch = 1
    Pids = {1, 2}
    MaxGen <- MCMaxGen
INVARIANTS NoLostSignal NoSleepOnSignal StatusExact
PROPERTIES SignalServed ChildrenReaped
