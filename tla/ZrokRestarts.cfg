SPECIFICATION FairSpec
CONSTANTS
    i1 = i1
    i2 = i2
    Instance = {i1}
    MaxEnv = 3
    EnvCap = 2
    UniqueName = TRUE
    MayFail = TRUE
    EnableAttempts = 2
    ShareAttempts = 2
    ReapAttempts = 2
INVARIANTS
    TypeOK
    NameStuckOnlyAfterFailure
    StartsClean
    LeftBehindOnlyByAccident
PROPERTIES
    StartupEnds
    ShutdownEnds
