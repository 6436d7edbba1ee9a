SPECIFICATION FairSpec
CONSTANTS
    Procs = {p1, p2, p3}
    Modes = {"SHARED", "EXCLUSIVE"}
    CancelModes = {"EXCLUSIVE"}
    Cancels = {"user", "timeout"}
    Nil = Nil
INVARIANTS Exclusion AssertionsHold CountExact
PROPERTIES ReadersServed
