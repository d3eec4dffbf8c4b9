CONSTANTS
    Inode = {i1}
    Token = {t1, t2}
    Holder = {c1, c2}
    TTL = {1}
    Lease = 1
    Slot = {"fuse"}
    NoToken = NoToken
    Fuse = Fuse
    Shutdown = Shutdown
    Prefetcher = {p1, p2}
    Capacity = 2
SPECIFICATION ProgressSpec
INVARIANTS BridgeInv
PROPERTIES  StopsInTheEnd DisconnectFrees
CHECK_DEADLOCK FALSE
