CONSTANTS
    Chunk = {c1}
    Size = {1, 2}
    DiskThread = {w1, w2}
    High = 1
    Low = 0
    Word = 16
    None = None
SPECIFICATION DCSpec
INVARIANTS DiskInv WholeUnlessShared
SYMMETRY Interchangeable
