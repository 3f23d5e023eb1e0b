SPECIFICATION Spec
CONSTANTS
    t1 = t1
    t2 = t2
    a1 = a1
    a2 = a2
    s1 = s1
    OnlyTyped = FALSE
    Task = {t1}
    Account = {a1}
    Space = {s1}
    Worker = {w1}
    Syncer = {y1}
    Nobody = Nobody
    SpaceOf <- MCSpaceOf
    Typed <- MCTyped
    AccountCapacity = 1
    SpaceCapacity = 2
    WorkerConcurrency = 2
    Estimate = 1
    ApiCost = {2}
    MaxSubmit = 2
    MaxOutage = 3
    RetryLimit <- MCRetryLimit
    MaxAttempts = 2
    Errors = {"TRANSIENT", "REJECTED"}
    LeaseOverrun = FALSE
    LostAnswers = TRUE
    FinishMayAbort = TRUE
PROPERTY RetriesArePreGeneration
