SPECIFICATION Spec
CONSTANTS
    script = script
    module = module
    lib = lib
    ok = ok
    user = user
    broken = broken
    NoText = NoText
    BadUri = BadUri
    Path <- MCPath
    Text <- MCText
    Broken = {broken}
    Imports <- MCImports
    Configs <- EditConfigs
    Starts <- EditStarts
    Editable <- MyFiles
    PromptClient = TRUE
    Budget <- EditBudget
INVARIANTS InOrder ShownIsCurrent BuffersInDatabase
PROPERTY NeverOlder
CHECK_DEADLOCK FALSE
