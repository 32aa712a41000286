\* Three messages and two pulls with a queue of two in memory; two visits of
\* the payment screen with two payments; two deposits beside the agent's tools;
\* four rows of the log with four attempts and two restarts.
SPECIFICATION PartsSpec
CONSTANTS
    NoOne = NoOne
    Messages = {m1, m2, m3}
    Pulls = {p1, p2}
    PageLimit = 2
    MaxQueued = 2
    MaxRouterRestarts = 1
    Persistent = FALSE
    Orders = {"o1", "o2"}
    TokenAccounts = {"o1"}
    PayTokens = {"SOL", "SPL"}
    MaxVisits = 2
    MaxConfirms = 2
    MaxHash = 1
    MaxRelayers = 1
    MaxLinksLost = 1
    Deposits = {1, 2}
    DepositTokens = {"SOL"}
    Supply = 3
    MaxDeposits = 2
    MaxMailLost = 1
    MaxMcpRestarts = 1
    MaxRows = 4
    MaxSyncs = 4
    MaxLogRestarts = 2
CHECK_DEADLOCK FALSE
INVARIANTS
    UnreadIsListed
    ShownOrderIsPaid
    SuccessIsDeposited
    SyncedIsRestorable
PROPERTIES
    WalletPaymentEnds
    RequestIsAnswered
