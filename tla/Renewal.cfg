\* Every race of two syncers, desktops, tasks, balance refreshes and ledgers
\* on one account.
SPECIFICATION Spec
CONSTANTS
    a1 = a1
    a2 = a2
    s1 = s1
    s2 = s2
    Account = {a1}
    Syncer = {s1, s2}
    Nobody = Nobody
    Balances = {1}
    LowBalance = 1
    CreditTarget = 1
    MaxActivations = 1
    ClaimLimit = 2
    MaxFailures = 1
    MaxStalled = 1
    MaxAttempts = 1
    BatchSize = 1
    Writers = {"tasks", "balances", "ledgers"}
SYMMETRY Processes
INVARIANT RowsAreConsistent
PROPERTIES NewerTokenKept ReportsAreTimely QuarantineKept LoginIsTheFallback
