SPECIFICATION OverrunSpec
CONSTANTS
    t1 = t1
    t2 = t2
    a1 = a1
    a2 = a2
    s1 = s1
    OnlyTyped = FALSE
    Task = {t1}
    Account = {a1, a2}
    Space = {s1}
    Worker = {w1}
    Syncer = {y1, y2}
    Nobody = Nobody
    SpaceOf <- MCSpaceOf
    Typed <- MCTyped
    AccountCapacity = 1
    SpaceCapacity = 2
    WorkerConcurrency = 2
    Estimate = 1
    ApiCost = {2}
    MaxSubmit = 3
    MaxOutage = 3
    RetryLimit <- MCRetryLimit
    MaxAttempts = 3
    Errors = {"TRANSIENT"}
    LeaseOverrun = TRUE
    LostAnswers = TRUE
    FinishMayAbort = TRUE
    j1 = j1
    Job = {j1, j2}
    PriceOf <- MCPriceOf
    QuoteOf <- MCQuoteOf
    Refresher = {"refresh"}
    Deposit = 3
    LowCredits = 1
INVARIANTS BalanceAgrees ClearedIsFunded
INVARIANTS TypeOK QueueTaskAgree PollTracksGeneration SyncScheduleAgrees ResolvingBeforeSubmit
PROPERTIES TerminalFrozen RecoveryNeverResubmits TasksKeepTheirCourse
SYMMETRY Interchangeable
