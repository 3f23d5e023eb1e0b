SPECIFICATION Spec
CONSTANTS
    t1 = t1
    t2 = t2
    a1 = a1
    a2 = a2
    s1 = s1
    OnlyTyped = FALSE
    Task = {t1}
    Account = {a1}
    Space = {s1}
    Worker = {w1}
    Syncer = {y1}
    Nobody = Nobody
    SpaceOf <- MCSpaceOf
    Typed <- MCTyped
    AccountCapacity = 1
    SpaceCapacity = 2
    WorkerConcurrency = 2
    Estimate = 1
    ApiCost = {2}
    MaxSubmit = 3
    MaxOutage = 3
    RetryLimit <- MCRetryLimit
    MaxAttempts = 3
    Errors = {"TRANSIENT", "REJECTED"}
    LeaseOverrun = TRUE
    LostAnswers = TRUE
    FinishMayAbort = TRUE
INVARIANT NoConcurrentSubmit
