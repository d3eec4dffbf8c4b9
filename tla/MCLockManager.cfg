CONSTANTS
    Inode = {i1, i2}
    Token = {t1, t2, t3, t4}
    Holder = {c1, c2}
    TTL = {1, 2}
SPECIFICATION LMSpec
INVARIANTS LMInv MutualExclusion
PROPERTIES TokenNeverReturns LiveHoldSurvives ImplementsRwLease
SYMMETRY Interchangeable
