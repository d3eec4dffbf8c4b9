CONSTANTS
    i1 = i1
    i2 = i2
    None = None
    Chunk <- OneFile
    MaxWrites = 2
    Batch = 10
    Locked = {i1}
    Prefetcher = {p1}
    DiskThread = {d1}
    Pressure = TRUE
SPECIFICATION WBSpec
INVARIANTS WBInv NewestWriteKept
