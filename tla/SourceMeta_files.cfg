SPECIFICATION Spec
CONSTANTS
    Files <- MCFiles
    Nodes <- MCNodes
    Tree <- MCTree
    Addresses = {"a1", "a2"}
    NoAddress = "no address"
    CoreCode = "0x1"
    NoModule = "none"
INVARIANTS TypeOK ImportsComplete
CHECK_DEADLOCK FALSE
