SPECIFICATION FairSpec
CONSTANTS
    a = a
    b = b
    q = q
    m = m
    n = n
    None = None
    Challenges = {a, b}
    QrPayments = {q}
    Merchants = {m, n}
    MerchantOf <- MCTwo
    AmountOf <- MCOne
    Keys = {1, 2}
    AutoApproveMax = 0
    Vault = 1
    LimitFactor = 1
    ListMaxima = {2}
    Answers <- MCSimple
    ChainLimits = {1}
    LostReplies = TRUE
    MaxPayments = 2
    MaxCrashes = 1
CHECK_DEADLOCK FALSE
INVARIANTS
    OutcomeIsTrue
PROPERTIES
    EveryChallengeAnswered
