SPECIFICATION FairSpec
CONSTANTS
    Keys = {k0, k1, k2}
    Listed = {k0}
    Payments = {p1}
    None = None
    LateAnswers = FALSE
    MaxFlight = 1
CHECK_DEADLOCK FALSE
INVARIANTS
    AuthorizedKeysAreRegistered
PROPERTIES
    RenewalEnds
