CONSTANTS
    shop = shop
    own = own
    k1 = k1
    k2 = k2
    k3 = k3
    v1 = v1
    v2 = v2
    v3 = v3
    NoOne = None
    None = None
    Issued <- MCIssued
    Merchants <- MCMerchants
    Keys <- MCKeys
    Payer = k3
    KeysOf <- MCKeysOf
    DidKey <- MCDidKey
    Vcs <- MCVcs
    MaxRequests = 3
    MaxNonce = 2
    MaxRestarts = 1
    Hubs = {h1, h2, h3}
    Tokens = {mint}
    PageSize = 1
    MaxHubUpdates = 3
    Rates = {100}
    Liquidities = {0, 101}
    Amount = 100
    MaxEdges = 2
    MaxMetricsUpdates = 3
    MaxHubRestarts = 1
SPECIFICATION PartsSpec
CHECK_DEADLOCK FALSE
INVARIANTS
    VcIsBound
    OnePerState
    ReaderMissesNoHub
    EveryRouteIsFound
