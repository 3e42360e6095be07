\* Three concurrent calls, one crash.
SPECIFICATION Spec
CONSTANTS
    r1 = r1
    r2 = r2
    r3 = r3
    alice = alice
    bob = bob
    None = None
    Requests = {r1, r2, r3}
    Users <- MCUsers
    Accounts <- MCAccounts
    Amounts <- MCAmounts
    Orders <- MCOrders
    SeedOwner <- MCSeedOwner
    SeedBalance <- MCSeedBalance
    Inactive = {}
    PoolMax = 3
    MaxCrashes = 1
SYMMETRY MCSymmetry
CHECK_DEADLOCK FALSE
INVARIANTS TypeOK MoneyConserved LedgerExplainsBalance DoubleEntry NoLostUpdate NoDeadlock NothingLeaks
