\* Amounts with a fraction of a cent.
SPECIFICATION Spec
CONSTANTS
    r1 = r1
    r2 = r2
    r3 = r3
    alice = alice
    bob = bob
    None = None
    Requests = {r1, r2}
    Users <- MCUsers
    Accounts <- MCAccounts
    Amounts <- MCHalfAmounts
    Orders <- MCHalfOrders
    SeedOwner <- MCSeedOwner
    SeedBalance <- MCSeedBalance
    Inactive = {}
    PoolMax = 1
    MaxCrashes = 0
CHECK_DEADLOCK FALSE
INVARIANT MoneyConserved
