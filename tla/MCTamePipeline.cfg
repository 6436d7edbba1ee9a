SPECIFICATION FairSpec
CONSTANTS
    UintMod = 256
    NOps = 4
    Wsz = 2
CHECK_DEADLOCK FALSE
INVARIANTS WindowKept DoneExact OneAfterCancel TameErrorsJustified
PROPERTIES PipelineEnds
