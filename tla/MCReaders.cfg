CONSTANTS
    c1 = c1
    c2 = c2
    c3 = c3
    u1 = u1
    u2 = u2
    Calls = {c1, c2, c3}
    NoCall = NoCall
    NoKey = NoKey
    Funding = Funding
    Users = {u1, u2}
    EmptyKey = EmptyKey
    Keys = {EmptyKey}
    WalletIds <- MCWallets
    Wallets <- MCWallets
    Owner <- MCOwner
    CurrencyText = {"INR"}
    Upper <- MCUpper
    Currency <- MCCurrency
    MaxBigInt = 5
    Opening <- MCOpening
    Requests <- MCRequests
    PageWallet = 1
    Limit = 1
SPECIFICATION ReadersSpec
SYMMETRY Symmetry
INVARIANTS
    DriftIsRecentTraffic
    PagesAreAStatement
CHECK_DEADLOCK FALSE
