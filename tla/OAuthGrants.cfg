SPECIFICATION Spec
CONSTANTS
    NoChallenge = NoChallenge
    NoNonce = NoNonce
    Handler = {h1, h2}
    NonceId = {n1, n2}
    CodeId = {k1, k2}
    Redirect = {uri}
    Unparsable = {}
    Verifier = {v1, v2}
    NonceTTL = 1
    CodeTTL = 1
    TokenTTL = 1
    RefreshTTL = 2
    MaxCodes = 1
    MaxTime = 3
    RandMayFail = TRUE
SYMMETRY Draws
INVARIANTS
    TypeOK
    PairMatchesAuthorization
PROPERTIES
    NonceStableWhileActive
    UnavailableMeansFull
    LiveCodesAreKept
    ImplementsGrants
