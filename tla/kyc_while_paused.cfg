CONSTANTS
    Nobody = Nobody
    Actor = {"a1", "a2"}
    Contract = "contract"
    Amounts = {0, 1, 2}
    Timelock = 1
    Expiration = 2
    Balance = 2
    MaxNonce = 3
    Settings <- AskedSettings
    FeeBps = {200, 1001}
    Currencies = {"t", "u"}
    Whitelists <- AskedWhitelists
    Ttls = {0, 30}
    Caps = {0}
    Reasons = {"r", "q"}
    KycData = {50, 600}
    MaxKycData = 5000
    Limits = {100, 1000}
    MaxListed = 2
    Chain <- SmallChain
    MaxHandled = 3
    Calls = 2
    Ttl = 1
    Latency = 1
    MaxVersion = 1
    GracePeriods = {0, 1, 2}
    DefaultGrace = 1
    MaxSecrets = 4
    RequestKeys = {"k"}
    Ranges <- AskedRanges
    Chunk = 2
    MaxRange = 3
    MaxRuns = 2
    MaxWaiting = 2
    Invoice = {"i1"}
    Business = "b"
    Investor = "v"
    Stranger = "s"
    Admin = "a"
    Texts = {0, 1, 3}
    MaxReason = 2
    MaxText = 3
    PageSize = 2
    MaxTime = 4
    MaxDay = 3
    MaxFetchTime = 2
    KycLengths = {50, 600}
    Histories <- SomeHistories
    Bases = {1, 7, 1000}
    InvestedSums = {5000, 2000000}
    MaxUpdates = 4
    Beneficiaries = {"b1", "b2"}
    Totals = {10}
    VestingTimes = {0, 1, 4}
    AdminFunds = 20
    MaxSchedules = 2
    MaxVestingTime = 5
    FeePayers = {"u1", "u2"}
    Treasuries = {"x", "y"}
    TierFrom <- LowTiers
    AbsoluteMaxFee = 1000000
    MaxTotalMinFees = 1000
    RotationTtl = 1
    PeriodLength = 2
    Structures <- AskedStructures
    PlatformBps = {300, 1001}
    FeesPaid <- SomePayments
    FeeSums = {3}
    Transactions = {3999, 7000}
    Splits <- AskedSplits
    MaxFeeTime = 2
    MaxCollected = 3
    MaxVolume = 6
    MaxRotations = 1
    InsuredSums = {1, 30, 99, 1000}
    Percentages = {0, 1, 33, 34, 50, 100, 101}
    Providers = {"p"}
    MaxCoverages = 3
    Billed = {"i1", "i2"}
    BusinessOf <- OneBusiness
    InvestorOf <- OneInvestor
    Raised = {"PaymentOverdue"}
    Wishes <- SomeWishes
    MaxNotices = 2
    MaxNoticeTime = 1
    AuditedInvoices = {"i1", "i2"}
    Operations = {"InvoiceFunded", "InvoiceStatusChanged"}
    Loggers = {"a"}
    Payloads <- SomePayloads
    MaxFound = 2
    DayLength = 1
    MaxEntries = 4
    MaxAuditTime = 1
    StoredStages <- TwoStatuses
    Policies <- SomePolicies
    MaxInvoices = 1
    MaxBackups = 3
    MaxBackupTime = 2
    CatalogueSize = 2
    Categories = {"c"}
    Raters = {"r1", "r2"}
    InvoiceTotal = 3
    Spellings <- TwoSpellings
    GivenTags <- SomeTags
    GivenMetadata <- SomeMetadata
    GivenScores = {0, 4}
    MaxTags = 2
    MaxHeld = 2
    MaxRatings = 2
    Counted = 2
    Owners = {"b"}
    Lenders = {"v"}
    Sectors = {"c1", "c2"}
    Moneys = {"m"}
    Faces = {300}
    Lent = {200}
    Grades = {4}
    ChargedBps = 200
    Spans <- TwoSpans
    MaxReports = 1
    MaxReportTime = 1
    Offers <- TwoOffers
    BidLife = 1
    PageCap = 1
    AskedPages = {3}
    MaxBids = 3
    MaxBookTime = 2
SPECIFICATION Spec
PROPERTY NoSubmissionWhilePaused
CHECK_DEADLOCK FALSE
