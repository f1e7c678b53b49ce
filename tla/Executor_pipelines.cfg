SPECIFICATION Spec
CONSTANTS
    res = res
    bal = bal
    price = price
    other = other
    TimeResource = time
    BlockResource = block
    Coins = Coins
    Sender = sender
    MissingData = MISSING_DATA
    Status = {MISSING_DATA}
    Absent = Absent
    None = None
    Resource <- MCResource
    Val <- MCVal
    Projects <- MCProjects
INVARIANTS TypeOK StoreIsCommitted SeesCommitted ExpectedIsDeclared OkMeansAllRan AddedOnce
PROPERTY ImplementsLedger
CHECK_DEADLOCK FALSE
