\* The program: one PDA registered twice, a day of two time units, up to four
\* payments.  The server: two keys, a renewal, two payments and a lost
\* confirmation.  Its lists and vouchers: a challenge and a QR order.
SPECIFICATION PartsSpec
CONSTANTS
    Supply = 4
    TokenSupply = 2
    Rent = 1
    Day = 2
    Amounts = {1, 2}
    Limits = {3}
    PerTxLimits = {0, 1}
    DailyLimits = {0, 1}
    Lifetimes = {4}
    MaxNow = 5
    MaxSessions = 2
    MaxPayments = 4
    None = none
    ServerKeys = {1, 2}
    ServerLimits = {2}
    ServerAmounts = {1}
    SplKinds = {TRUE}
    ServerFactor = 2
    MaxCalls = 2
    MaxRenewals = 1
    MaxLost = 1
    Challenges = {b}
    QrPayments = {q}
    Merchants = {m}
    MerchantOf <- MCMerchantOf
    AmountOf <- MCAmountOf
    FlowKeys = {1, 2}
    AutoApproveMax = 1
    Vault = 2
    FlowFactor = 1
    ListMaxima = {2}
    Answers <- MCAnswers
    ChainLimits = {2}
    LostReplies = FALSE
    MaxFlowPayments = 2
    MaxCrashes = 0
    b = b
    q = q
    m = m
CHECK_DEADLOCK FALSE
INVARIANTS
    TwiceTheLimitInADay
    SpendingIsCounted
    ClosedStaysClosed
    VouchersAreKept
