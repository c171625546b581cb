SPECIFICATION Spec
CONSTANTS
    Uptimes <- MCUptimes
    Transits <- MCTransits
    WindowSize = 5
    Threshold = 400
    Downtime = 20000
    MaxReboots = 1
INVARIANTS
    BaselineNearest
    SlowSpellNoticed
    FastSpellClears
