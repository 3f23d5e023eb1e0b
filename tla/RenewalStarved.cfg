\* The same schedulers, a desktop that claims one job at a time.
SPECIFICATION FairSpec
CONSTANTS
    a1 = a1
    a2 = a2
    s1 = s1
    s2 = s2
    Account = {a1}
    Syncer = {s1}
    Nobody = Nobody
    Balances = {1}
    LowBalance = 1
    CreditTarget = 1
    MaxActivations = 1
    ClaimLimit = 1
    MaxFailures = 1
    MaxStalled = 1
    MaxAttempts = 2
    BatchSize = 1
    Writers = {}
PROPERTY ExpiredIsServed
