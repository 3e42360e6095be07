SPECIFICATION FairSpec
CONSTANTS
    None = None
    MaxFaults = 1
    Callers = {owner, g1}
    Owner   = owner
    MaxAttempts = 2
    Lockout  = 1
    MaxCount = 4
    Secrets   = {k1, k2}
    Tabs      = {t1}
    Clicks    = {c1, c2}
    Logins    = {l1}
    Verifiers = {v1, v2}
    MaxTabFaults = 1
    Requests  = {me, r1, r2}
    Me        = me
    Hopeless  = {r1, r2}
    MaxTokens = 5
    Rows = {row}
    Searches = {"", "ann"}
    MaxRequests = 3
    MaxNow = 2
INVARIANTS TypeOK SecondFactorHolds ClientHolds ListIsFresh
PROPERTIES UserGetsIn PageSettles
CHECK_DEADLOCK FALSE
