SPECIFICATION Spec
CONSTANTS
    None = None
    MaxTime = 2
    ann = ann
    alice = alice
    r1 = r1
    r2 = r2
    s1 = s1
    s2 = s2
    o1 = o1
    n1 = n1
    n2 = n2
    bob = bob
    carl = carl
    Emails  = {ann, alice}
    Registrations = {r1, r2}
    Seeds    = {s1, s2}
    Openings = {o1}
    EmailsOf <- MCEmailsOf
    MaxAttempts = 2
    MaxDisturbances = 2
    MyAccounts = {n1, n2, a3}
    Tenure = 2
    MaxDepositTime = 4
    MaxAmount = 2
    Transfers = {big, n1, n2}
    Large = {big}
    Window  = 1
    MaxTxns = 2
    MaxFaults = 1
    Accounts = {own, bob, carl, nobody}
    Own = {own}
    Unknown = {nobody}
    Nicks = {n1, n2}
    MaxSubmits = 2
    MaxSaves = 2
    Initial = 4
    MaxInserts = 3
    Lag = 1
    Limits <- MCLimits
    Default = 2
    Highest = 3
    Cap = 3
    Years = {2023, 2024}
    Tenures = {3, 18}
    MaxRuns = 64
SYMMETRY Alike
INVARIANTS TypeOK OnboardingIsTrue DepositsHold TransfersNoticed SavedWasPaid PagesExplained
PROPERTY DatesAreRight
CHECK_DEADLOCK FALSE
