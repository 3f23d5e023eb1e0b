SPECIFICATION ServicesSpec
CONSTANTS
    t1 = t1
    t2 = t2
    a1 = a1
    a2 = a2
    s1 = s1
    OnlyTyped = FALSE
    Task = {t1, t2}
    Account = {a1}
    Space = {s1}
    Worker = {w1, w2}
    Syncer = {y1}
    Nobody = Nobody
    SpaceOf <- MCSpaceOf
    Typed <- MCTyped
    AccountCapacity = 1
    SpaceCapacity = 2
    WorkerConcurrency = 2
    Estimate = 1
    ApiCost = {2}
    MaxSubmit = 2
    MaxOutage = 3
    RetryLimit <- MCRetryLimit
    MaxAttempts = 3
    Errors = {"TRANSIENT", "REJECTED", "UPSTREAM_PROVIDER_UNAVAILABLE", "UPSTREAM_UNAUTHORIZED", "UPSTREAM_RATE_LIMITED", "PRE_SUBMIT_LOW_BALANCE", "ACCOUNT_SUSPENDED"}
    LeaseOverrun = FALSE
    LostAnswers = TRUE
    FinishMayAbort = FALSE
    Parts = {"tasks", "import", "archive", "mailboxes", "registrations", "gate"}
    b1 = b1
    b2 = b2
    u1 = u1
    u2 = u2
    Item = {1, 2}
    Batch = {b1}
    BatchOf <- MCBatchOf
    SpaceOfBatch <- MCSpaceOfBatch
    Login = {u1, u2}
    LoginOf <- MCLoginOf
    Known = {u2}
    Unreadable = {}
    Importer = {i1, i2}
    NoImporter = NoImporter
    ImportBatchSize = 2
    ImportMaxAttempts = 2
    MaxLosses = 1
    Archives <- MCArchives
    MaxEntries = 2
    MaxEntrySize = 3
    MaxExpandedSize = 6
    MaxRatio = 2
    MaxCookies = 2
    Email = {e1}
    Project = {p1, p2}
    ClaimKey = {k1}
    Validator = {v1, v2}
    NoValidator = NoValidator
    ValidationBatch = 2
    MaxRows = 2
    Record = {r1, r2, r3}
    Parent = {1}
    Checker = {c1, c2}
    NoChecker = NoChecker
    JobLease = 2
    JobTimeout = 3
    CheckAttempts = 2
    Streak = 2
    MaxVersion = 2
    Renewer = {n1, n2, n3}
    NoRenewer = NoRenewer
    MinInterval = 2
    RetryAfter = {1, 3}
    DefaultCooldown = 2
INVARIANTS ResourcesConserved HandlerOwnsTask NoConcurrentSubmit TracksAcceptedGeneration
INVARIANTS ServicesTypeOK ArchiveBoundaryHolds HistoryDecides
PROPERTY ImplementsContract
SYMMETRY Interchangeable
CHECK_DEADLOCK FALSE
