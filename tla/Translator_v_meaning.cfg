SPECIFICATION Spec
CONSTANTS
    Sources <- WrongSources
    Params <- MCParams
    Returns <- MCReturns
    Horizon = 8
INVARIANTS SameMeaning
CHECK_DEADLOCK FALSE
