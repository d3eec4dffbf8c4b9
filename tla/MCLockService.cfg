CONSTANTS
    Inode = {i1}
    Token = {t1, t2, t3}
    Holder = {c1, c2}
    TTL = {2}
    Lease = 2
    Slot = {"fuse"}
    NoToken = NoToken
SPECIFICATION Spec
INVARIANTS BeliefAccurate
PROPERTIES ImplementsLockManager
SYMMETRY Interchangeable
