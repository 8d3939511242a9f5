SPECIFICATION FairSpec
CONSTANTS
    Root = "."
    Dirs <- MCDirs
    Files <- MCFiles
    Links <- MCLinks
    Above <- MCAbove
    DotPaths <- MCDotPaths
    Order <- MCOrder
    Policies <- MCPolicies
    GrepEnabled = TRUE
    MaxMatches = 2
    ReadCap = 4
    ProbeCap = 3
    w1 = w1
    w2 = w2
    Worker = {w1, w2}
    Requests <- MCRequests
    Data <- MCData
    PatternsOf <- MCPatternsOf
    InitialTrees <- MCTrees
    InitialData <- MCInitialData
    InitialPatterns <- MCInitialPatterns
    MayFailRead = TRUE
    MaxEdits = 1
INVARIANTS
    TypeOK
    OneReadingOfIgnoreFiles
    GivesOnlyWhatWasThere
    StopsAtTheCap
    SaysWhatIsThere
PROPERTIES
    SearchEnds
