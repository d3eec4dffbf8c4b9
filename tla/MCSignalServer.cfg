CONSTANTS
    Peer = {p1, p2, p3}
    Code = {c1}
    MaxPeers = 2
    None = None
SPECIFICATION SSSpec
SYMMETRY Interchangeable
INVARIANTS RoomsInv NoGhosts EmptyRoomGoes
CHECK_DEADLOCK FALSE
