SPECIFICATION Spec
CONSTANTS
    i1 = i1
    i2 = i2
    Instance = {i1, i2}
    MaxEnv = 3
    EnvCap = 3
    UniqueName = TRUE
    MayFail = FALSE
    EnableAttempts = 2
    ShareAttempts = 2
    ReapAttempts = 2
INVARIANTS
    NameIsFreeWhenDisabled
