\* Callers that use no entry point that skips a check.
CONSTANTS
    i1 = i1
    i2 = i2
    b1 = b1
    b2 = b2
    b3 = b3
    v1 = v1
    v2 = v2
    o1 = o1
    contract = contract
    treasury = treasury
    NoOne = NoOne
    Invoice = {i1, i2}
    Bid = {b1, b2, b3}
    Investor = {v1, v2}
    Business = {o1}
    Contract = contract
    Treasury = treasury
    OwnerOf <- MCOwnerOf
    Face <- MCFace
    Due <- MCDue
    Limit <- MCLimit
    StartBalance <- MCStartBalance
    BidAmounts = {10, 20}
    PayAmounts = {10, 20}
    Nonce = {"n1", "settlement"}
    EmptyNonce = ""
    SettlementNonce = "settlement"
    MinBid = 5
    BidTTL = 1
    GracePeriods = {0, 1}
    MaxActiveBids = 2
    MaxBidsPerInvoice = 2
    MaxActiveInvoices = 2
    FeeBps = 1000
    MaxTime = 3
    Unchecked = {}
SPECIFICATION Spec
SYMMETRY MCSymmetry
INVARIANTS
    TypeOK
    StatusAlignment
    StatusIndexExact
    FundedAmounts
    ActiveIndexExact
    BidIndexesComplete
    BidLimits
    MoneyFollowsRecords
    PaidInFullIsSettled
PROPERTIES
    OnlyLiveBidsAccepted
    TerminalBidsStay
    InvestorMadeWhole
    ReplayNeverCounts
    TerminalIsFinal
    NoEarlyDefault
CHECK_DEADLOCK FALSE
