CONSTANTS
    Invoice = {i1, i2, i3}
    Limits = {1}
    MaxBatch = 3
SPECIFICATION RoundSpec
INVARIANT RoundCovers
CHECK_DEADLOCK FALSE
