\* The program: two leaves, deposits 2 and 1, five trees.  The bounds of the
\* parts beside the program are here too.
SPECIFICATION PartsSpec
CONSTANTS
    User = User
    Provider = Provider
    NoValue = NoValue
    Slots = {1, 2}
    Roots <- Trees
    InitialRoot <- Opened
    DepositA = 2
    DepositB = 1
    ChallengeDuration = 1
    MinChallengeDelay = 1
    SettleWindow = 1
    MaxSequence = 2
    MaxNow = 3
    Signers = {s1, s2}
    Deposit = 4
    Counts = {1, 2}
    TierAmounts = {1}
    MaxTiers = 2
    SplitAmounts = {1, 2}
    MaxSources = 2
    Repeats = FALSE
    TreeSize = 4
    MaxCalls = 3
    Nobody = Nobody
    Clients = {client}
    Recipients = {Provider}
    FirstSlot = 1
    SafetyMargin = 0
    Timelocks = {2}
    AutoCloseSlots = {1}
    MaxEngineSequence = 2
    MaxEngineNow = 3
    MaxCrashes = 1
    Locks = {l1, l2}
    Durations = {0, 1}
    MaxHtlcSlot = 2
    MaxFailedSaves = 1
    MaxHtlcRestarts = 1
    GivenAmounts = {1, 2}
    RequestedDurations = {0, 1}
    MaxHops = 3
    MaxU64 = 30000
    HopMargin = 1
    SlotStep = 2
    MaxHopSlot = 6
    Callers = {c1, c2}
    MaxHopRestarts = 1
    PaymentAmounts = {1, 2, 3}
    MaxBatch = 2
    Threshold = 3
    PerChannel = 2
    WindowSlots = 1
    MaxLimitSlot = 3
    MaxClears = 2
    MaxPayments = 4
    MaxAudits = 2
    MaxAuditCrashes = 1
CHECK_DEADLOCK FALSE
INVARIANTS
    ClosedPaysDeposits
    EveryLeafPaidOnce
    LeavesCoverDeposit
    HelpersKeepTheMoney
    HtlcPaysOneWay
    HopsAreCovered
    SpendingIsHeld
PROPERTIES
    DisputeEnds
