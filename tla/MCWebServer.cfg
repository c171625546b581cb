SPECIFICATION Spec
CONSTANTS
    Clients = {c1, c2, c3}
    Conns = 2
    IdleTime = 2
    Rows <- TwoLists
    MaxVisits = 3
    MaxSegments = 2
    MaxFaults = 1
INVARIANTS
    TypeOK
    PoolExact
    OwnRequest
    LonePageWhole
    BufferEmptyBetweenPages
PROPERTY
    BlocksComeBack
CHECK_DEADLOCK FALSE
