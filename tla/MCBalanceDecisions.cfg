CONSTANTS
    custodial_balance_limit = 5
    rebalance_min = 2
    onchain_receive_threshold = 3
    enable_amountless_receive_on_chain = TRUE
    MsatsPerSat = 2
    Decimals = 2
    MAX_MSATS = 20
    U64 = 64
    network = "main"
    MAX_AMOUNT_DIFFERENCE = 2
    Amounts <- MCAmounts
SPECIFICATION Spec
INVARIANTS
    CustodyCapped
    TransferFitsOrDrains
    
    SmallReceiveNeedsNoChannel
    OwnUriPayable
    OwnUriAsksEnough
