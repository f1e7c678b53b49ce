SPECIFICATION Spec
CONSTANTS
    a = a
    b = b
    c = c
    old = old
    new = new
    fork = fork
    bad = bad
    p = p
    q = q
    PathDep = PathDep
    NoDep = NoDep
    NoPath = NoPath
    Module <- MCModule
    Imports <- MCImports
    OnChain = {a, b, c}
    GitDep <- MCGitDep
    Kind <- MCKind
    Path <- MCPath
    Tree <- MCTree
    Nested <- MCNested
    BrokenMeta <- MCBroken
    Scenarios <- KillThenBuild
INVARIANT CloneAtRequest
CHECK_DEADLOCK FALSE
