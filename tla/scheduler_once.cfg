SPECIFICATION Spec
CONSTANTS
    Jobs    = {gift, rent}
    Once    = {gift}
    FirstRun <- MCFirstRun
    Ticks   = {t1}
    MaxFailures = 2
    MayAccept = {FALSE}
    MaxNow  = 2
    MaxDisturbances = 0
    MaxMoves = 3
    None    = None
INVARIANT OnceRunsOnce
CHECK_DEADLOCK FALSE
