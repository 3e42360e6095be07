SPECIFICATION Spec
CONSTANTS
    Clients   = {c1, c2}
    MaxFaults = 1
    None      = None
INVARIANT OneTransfer
CHECK_DEADLOCK FALSE
