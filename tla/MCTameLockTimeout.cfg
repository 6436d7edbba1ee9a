SPECIFICATION Spec
CONSTANTS
    Procs = {p1, p2, p3}
    Modes = {"SHARED", "EXCLUSIVE"}
    CancelModes = {"SHARED"}
    Cancels = {"timeout"}
    Nil = Nil
INVARIANTS AssertionsHold
