SPECIFICATION Spec
CONSTANTS
    None = None
    MaxFaults = 1
    p = p
    q = q
    Callers = {owner, p, q}
    Owner   = owner
    MaxAttempts = 2
    Lockout  = 1
    MaxCount = 5
    ann = ann
    bob = bob
    s1 = s1
    s2 = s2
    Users    = {ann, bob}
    Admins   = {ann, bob}
    Sessions = {s1, s2}
    UserOf  <- MCUserOf
    Requests = {p, q}
    TTL = 1
    Logins = {owner, p, q}
    i1 = i1
    i2 = i2
    Ips = {i1, i2}
SYMMETRY Alike
INVARIANTS TypeOK GuessesBounded AlertsAreRight SuspendedCannotAct SomeAdminIsLeft
PROPERTY EndedIsEnded
CHECK_DEADLOCK FALSE
