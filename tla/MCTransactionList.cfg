CONSTANTS
    custodial_balance_limit = 5
    rebalance_min = 2
    onchain_receive_threshold = 3
    NoId = NoId
    NoTask = NoTask
    Monitor = Monitor
    d1 = d1
    d2 = d2
    c1 = c1
    c2 = c2
    l1 = l1
    l2 = l2
    h1 = h1
    h2 = h2
    p1 = p1
    p2 = p2
    CustId = {d1, c1, c2}
    DepositId = {d1}
    LnId = {l1, l2, h1}
    InvoiceHash = {h1}
    Payer = {p1}
    Environment <- FaultHazards
    instructions <- PayAnyWay
    pay_amount <- PayThree
    FeeEstimates = {0}
    DepositAmounts = {9}
    InitialFunds <- TightFunds
    OpenedInbound = {4}
    MaxEvents = 1
    MaxCrashes = 1
SPECIFICATION ListSpec
SYMMETRY Ids
CHECK_DEADLOCK FALSE
INVARIANTS
    TypeOK
    ReceivedTransfersAccounted
    PaysAtMostOnce
    TransferFeesCharged
    TransfersAreNotIncome
    ListAddsUp
PROPERTIES
    ShownStays
