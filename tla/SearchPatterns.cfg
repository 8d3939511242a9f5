SPECIFICATION FairSpec
CONSTANTS
    Root = "."
    Dirs <- MCDirs
    Files <- MCFiles
    Links <- MCLinks
    Above <- MCAbove
    DotPaths <- MCDotPaths
    Order <- MCOrder
    Policies <- MCPolicies
    GrepEnabled = TRUE
    MaxMatches = 9
    ReadCap = 4
    ProbeCap = 3
    w1 = w1
    w2 = w2
    Worker = {w1, w2}
    Requests <- EscapedRequests
    Data <- DottedData
    PatternsOf <- MCPatternsOf
    InitialTrees <- MCTrees
    InitialData <- InitialDottedData
    InitialPatterns <- MCInitialPatterns
    MayFailRead = FALSE
    MaxEdits = 0
INVARIANTS
    PatternsMeanWhatTheySay
