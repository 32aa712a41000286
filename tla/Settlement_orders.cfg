SPECIFICATION PartsSpec
CONSTANTS
    Orders = {o1}
    Seqs = {1, 2}
    Amounts = {1, 2}
    t1 = t1
    t2 = t2
    Transfers = {t1, t2}
    Received <- MCReceived
    Nonces = {0, 1}
    Cap = 4
    Calls = {c1, c2}
    None = None
SYMMETRY Symmetry
CONSTRAINT OneStory
CHECK_DEADLOCK FALSE
INVARIANTS
    SettledWasSigned
    RecordsMatchEscrows
    ProofCoversOrder
