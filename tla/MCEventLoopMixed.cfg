SPECIFICATION FairSpec
CONSTANTS
    Timers = {t1}
    Lazies = {l1, l2}
    Yields = {y1}
    Nil = Nil
    Delays = {0, 1}
    Interval = 1
    Day = 9
    MaxTime = 2
    MaxIns = 3
    MaxReady = 1
INVARIANTS LazyCursorLive LazyPassBounded
PROPERTIES YieldPassBounded TimersServed
