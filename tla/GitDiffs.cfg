SPECIFICATION Spec
CONSTANTS
    a = a
    b = b
    big = big
    nul = nul
    Root = "."
    Dirs <- MCDirs
    Files <- MCFiles
    Links = {}
    Above <- MCAbove
    DotPaths = {}
    Order <- MCOrder
    Content <- MCContent
    Large = {big}
    Binary = {nul}
    Weight <- MCWeight
    Policies <- MCPolicies
    DiffCap = 2
    InitialRepos <- MCRepos
    Histories <- MCHistories
    Scopes = {"no scope", "docs", "docs/x"}
    MaxEdits = 2
    WalkCap = 5
INVARIANTS
    TypeOK
    TellsTheChanges
    NotFoundIsTrue
    TextKeepsToTheCap
    UncappedCountsAreExact
