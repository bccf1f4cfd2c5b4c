CONSTANTS
    Invoice = {i1, i2, i3, i4}
    Limits = {0, 2, 9}
    MaxBatch = 3
SPECIFICATION Spec
PROPERTY ScanReachesEveryInvoice
INVARIANT NoFundedIsOver
