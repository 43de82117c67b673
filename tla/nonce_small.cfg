SPECIFICATION NonceSpec
CONSTANTS
    Ids = {a, b, c, d, e, f}
    MaxSize = 3
    PrunePercent = 10
    MaxLog = 6
INVARIANT Bounded
