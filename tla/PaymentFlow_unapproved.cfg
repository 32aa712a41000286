SPECIFICATION Spec
CONSTANTS
    a = a
    b = b
    q = q
    m = m
    n = n
    None = None
    Challenges = {a, b}
    QrPayments = {}
    Merchants = {m}
    MerchantOf <- MCSame
    AmountOf <- MCOne
    Keys = {1, 2}
    AutoApproveMax = 0
    Vault = 1
    LimitFactor = 1
    ListMaxima = {2}
    Answers <- MCSimple
    ChainLimits = {1}
    LostReplies = FALSE
    MaxPayments = 2
    MaxCrashes = 0
CHECK_DEADLOCK FALSE
INVARIANT
    PaidIsApproved
