SPECIFICATION Spec
CONSTANTS
    A = A
    B = B
    s1 = s1
    s2 = s2
    short = short
    Empty = Empty
    Unset = Unset
    NoRef = NoRef
    Default = Default
    Other = Other
    home = home
    away = away
    site = site
    c1 = c1
    c2 = c2
    Variables = {A, B}
    Secrets = {s1, s2, short}
    Weak = {short}
    Names = {Default, Other}
    RootDirs = {home, away}
    Origins = {site}
    Clients = {c1, c2}
    InitialConfigs <- MCInitialConfigs
    OsEnvironments <- MCOsEnvironments
    InitialDotenv <- MCInitialDotenv
    InitialToken = s1
    Servers <- MCServers
    WorkspaceLists <- MCWorkspaceLists
    OAuths <- MCOAuths
    MaxEdits = 1
SYMMETRY Symmetry
INVARIANTS
    TypeOK
    ClientsStayIn
    OnlyCredentialsGetIn
    ServesOnlySound
