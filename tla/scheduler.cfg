SPECIFICATION FairSpec
CONSTANTS
    Jobs    = {gift, rent}
    Once    = {gift}
    FirstRun <- MCFirstRun
    Ticks   = {t1, t2}
    MaxFailures = 2
    MayAccept = {TRUE, FALSE}
    MaxNow  = 2
    MaxDisturbances = 2
    MaxMoves = 3
    None    = None
INVARIANTS TypeOK RepeatsExplained NoPaymentSkipped PausedAtLimit
PROPERTIES EndedStaysEnded EveryDueJobSettles
CHECK_DEADLOCK FALSE
