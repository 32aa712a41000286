SPECIFICATION FairSpec
CONSTANTS
    m1 = m1
    mintA = mintA
    Buyer = Buyer
    Nobody = Nobody
    Merchants = {m1}
    Mints = {mintA}
    Amounts = {1, 2}
    Periods = {0, 2}
    Roots <- MCRoots
    Supply = 3
    MaxU64 = 3
    MaxI64 = 9
    MaxBatches = 2
    MaxSigned = 1
    SettleBy = 1
    MaxTime = 3
CHECK_DEADLOCK FALSE
INVARIANTS
    CooperativeBatchWasSigned
    RefundNeedsTimelyDispute
    UnspentCapsBackedUntilRefund
PROPERTIES
    ImplementsPromise
    EscrowEventuallyPaid
