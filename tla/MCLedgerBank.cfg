CONSTANTS
    c1 = c1
    c2 = c2
    c3 = c3
    u1 = u1
    u2 = u2
    k1 = k1
    k2 = k2
    Calls = {c1, c2, c3}
    NoCall = NoCall
    NoKey = NoKey
    Funding = Funding
    Users = {u1, u2}
    EmptyKey = EmptyKey
    Keys = {k1, k2, EmptyKey}
    WalletIds <- MCWalletIds
    Wallets <- MCWallets
    Owner <- MCOwner
    CurrencyText <- MCCurrencyText
    Upper <- MCUpper
    Currency <- MCCurrency
    MaxBigInt <- MCMaxBigInt
    Opening <- MCOpening
    Requests <- VariedRequests
SPECIFICATION FairSpec
PROPERTIES
    ImplementsBank
    EveryCallAnswered
CHECK_DEADLOCK FALSE
