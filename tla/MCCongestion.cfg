SPECIFICATION Spec
CONSTANTS
    solar = solar
    diesel = diesel
    Nodes = {solar, diesel}
    DefaultInterval <- Defaults
    StressedInterval = 15000
    CongestedInterval = 5000
    Faults <- AllFaults
    MaxFaults = 2
INVARIANTS
    TypeOK
    OwnOrCongested
    CommandedInEffect
    BaselineIsOwn
PROPERTIES
    SlowsDown
    Restored
