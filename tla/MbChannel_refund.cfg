SPECIFICATION Spec
CONSTANTS
    m1 = m1
    mintA = mintA
    Buyer = Buyer
    Nobody = Nobody
    Merchants = {m1}
    Mints = {mintA}
    Amounts = {1, 2}
    Periods = {1}
    Roots <- MCRoots
    Supply = 2
    MaxU64 = 2
    MaxI64 = 9
    MaxBatches = 1
    MaxSigned = 1
    SettleBy = 0
    MaxTime = 1
CHECK_DEADLOCK FALSE
INVARIANTS
    RefundProvesInflation
