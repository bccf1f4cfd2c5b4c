\* Callers that use every entry point, with every argument.
CONSTANTS
    i1 = i1
    i2 = i2
    b1 = b1
    b2 = b2
    b3 = b3
    v1 = v1
    v2 = v2
    o1 = o1
    contract = contract
    treasury = treasury
    NoOne = NoOne
    Invoice = {i1, i2}
    Bid = {b1, b2}
    Investor = {v1}
    Business = {o1}
    Contract = contract
    Treasury = treasury
    OwnerOf <- MCOwnerOf
    Face <- SameFace
    Due <- SameDue
    Limit <- MCLimit
    StartBalance <- SameStartBalance
    BidAmounts = {10}
    PayAmounts = {20}
    Nonce = {"", "settlement"}
    EmptyNonce = ""
    SettlementNonce = "settlement"
    MinBid = 5
    BidTTL = 0
    GracePeriods = {0}
    MaxActiveBids = 2
    MaxBidsPerInvoice = 2
    MaxActiveInvoices = 2
    FeeBps = 1000
    MaxTime = 1
    Unchecked = {"accept_bid", "cancel", "handle_default", "update_status"}
SPECIFICATION Spec
SYMMETRY SameSymmetry
INVARIANTS
    Solvency
PROPERTIES
    ImplementsDeal
CHECK_DEADLOCK FALSE
