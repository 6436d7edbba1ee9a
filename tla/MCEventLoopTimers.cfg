SPECIFICATION Spec
CONSTANTS
    Timers = {t1, t2, t3}
    Lazies = {}
    Yields = {}
    Nil = Nil
    Delays = {0, 1, 2}
    Interval = 1
    Day = 9
    MaxTime = 3
    MaxIns = 4
    MaxReady = 1
SYMMETRY Symmetry
INVARIANTS CursorLive PassComplete FifoAmongEquals BarrierHonoured
