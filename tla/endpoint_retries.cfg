SPECIFICATION FairSpec
CONSTANTS
    Clients   = {c1, c2}
    MaxFaults = 2
    None      = None
INVARIANTS TypeOK OneTransferWhileFresh AnswersAgreeWhileFresh OkMeansMoved
PROPERTIES StoredIsFinal EveryClientAnswered
CHECK_DEADLOCK FALSE
