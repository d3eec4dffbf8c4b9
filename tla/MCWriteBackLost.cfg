CONSTANTS
    i1 = i1
    i2 = i2
    None = None
    Chunk <- TwoFiles
    MaxWrites = 2
    Batch = 10
    Locked = {i1, i2}
    Prefetcher = {}
    DiskThread = {}
    Pressure = FALSE
SPECIFICATION WBSpec
INVARIANTS NoWriteLost
