SPECIFICATION Spec
CONSTANTS
    Sources <- MCSources
    Params <- MCParams
    Returns <- MCReturns
    Horizon = 8
INVARIANTS TypeOK MeaningKept BlocksNest
PROPERTIES Translated
CHECK_DEADLOCK FALSE
