SPECIFICATION FairSpec
CONSTANTS
    script = script
    module = module
    lib = lib
    ok = ok
    user = user
    broken = broken
    NoText = NoText
    BadUri = BadUri
    Path <- MCPath
    Text <- PlainText
    Broken = {broken}
    Imports <- MCImports
    Configs <- OneConfig
    Starts <- FreshStarts
    Editable <- LibFiles
    PromptClient = FALSE
    Budget <- FaultBudget
INVARIANT TypeOK
PROPERTY PoolDrains
CHECK_DEADLOCK FALSE
