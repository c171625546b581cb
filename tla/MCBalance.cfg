SPECIFICATION Spec
CONSTANTS
    MaxCapacity = 20
    StartCapacity = 10
    LockPct = 95
    UnlockPct = 75
    ReportUnit = 2
    Delay = 2
    MaxCharge = 1
    MaxDischarge = 2
    DispatchPct = 20
    RecoverPct = 40
    Surpluses <- MCSurpluses
    DieselPower = 3
    Faults <- AllFaults
    MaxFaults = 2
INVARIANTS
    TypeOK
    BatteryProtected
    DispatchAgrees
PROPERTIES
    StartsLowStopsHigh
    StopsAfterRecovery
    StartsInNeed
