SPECIFICATION Spec
CONSTANTS
    DefaultInterval = 800
    StressedInterval = 15000
    ClockSecond = 128
    Bodies <- SolarBodies
    MaxPuts = 3
    MaxFaults = 3
INVARIANTS
    TypeOK
    StateTracksConnection
    NoLostInterval
    PeriodInEffect
PROPERTIES
    PublishesForever
    IntervalApplied
