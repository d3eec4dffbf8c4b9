CONSTANTS
    i1 = i1
    i2 = i2
    None = None
    Chunk <- OneFile
    MaxWrites = 3
    Batch = 10
    Locked = {i1}
    Prefetcher = {}
    DiskThread = {}
    Pressure = FALSE
SPECIFICATION WBFairSpec
INVARIANTS ReadYourWrites 
 
