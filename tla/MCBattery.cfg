SPECIFICATION Spec
CONSTANTS
    MaxCapacity = 200
    StartCapacity = 100
    LockPct = 95
    UnlockPct = 75
    ReportUnit = 2
    Deltas <- MCDeltas
    MaxDelta = 5
    ServedPaths <- BothPaths
INVARIANTS
    TypeOK
    LockMatchesCharge
PROPERTY
    ImplementsChargeLock
