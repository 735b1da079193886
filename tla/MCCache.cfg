CONSTANTS
    u1 = u1
    u2 = u2
    r1 = r1
    r2 = r2
    r3 = r3
    x1 = x1
    x2 = x2
    Users = {u1, u2}
    Wallets <- MCWallets
    Owner <- MCOwner
    Readers = {r1, r2, r3}
    ReadOf <- MCReadOf
    Writers = {x1, x2}
    Touches <- MCTouches
    Named <- MCNamed
    Miss = Miss
    MaxOutages = 1
SPECIFICATION FairSpec
INVARIANTS
    OwnersOnly
    FreshUnlessRaced
PROPERTY
    StalenessHeals
CHECK_DEADLOCK FALSE
