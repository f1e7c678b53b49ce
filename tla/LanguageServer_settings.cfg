SPECIFICATION FairSpec
CONSTANTS
    script = script
    module = module
    lib = lib
    ok = ok
    user = user
    broken = broken
    NoText = NoText
    BadUri = BadUri
    Path <- MCPath
    Text <- PlainText
    Broken = {broken}
    Imports <- MCImports
    Configs <- TwoConfigs
    Starts <- BareStarts
    Editable <- LibFiles
    PromptClient = TRUE
    Budget <- SettingsBudget
INVARIANT SettingsInForce
PROPERTIES StaleAnswerIgnored BrokenReported
CHECK_DEADLOCK FALSE
