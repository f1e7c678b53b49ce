SPECIFICATION FairSpec
CONSTANTS
    f = f
    g = g
    None = None
    Damaged = Damaged
    Names <- MCNames
    Dirs <- MCDirs
    Commands <- MCCommands
    Budget = 2
INVARIANTS TypeOK CallUnderstood StoredIsCallable NameIsUnique FailureKeepsTransactions
PROPERTY CommandEnds
CHECK_DEADLOCK FALSE
