\* Two concurrent calls over a pool of one connection: the abstract bank, and liveness.
SPECIFICATION FairSpec
CONSTANTS
    r1 = r1
    r2 = r2
    r3 = r3
    alice = alice
    bob = bob
    None = None
    Requests = {r1, r2}
    Users <- MCUsers
    Accounts <- MCAccounts
    Amounts <- MCAmounts
    Orders <- MCOrders
    SeedOwner <- MCSeedOwner
    SeedBalance <- MCSeedBalance
    Inactive = {3}
    PoolMax = 1
    MaxCrashes = 1
CHECK_DEADLOCK FALSE
PROPERTIES ImplementsBank EveryCallEnds
