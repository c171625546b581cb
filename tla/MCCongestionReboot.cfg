SPECIFICATION Spec
CONSTANTS
    solar = solar
    diesel = diesel
    Nodes = {solar}
    DefaultInterval <- Defaults
    StressedInterval = 15000
    CongestedInterval = 5000
    Faults <- NodeReboot
    MaxFaults = 1
PROPERTY
    AlwaysSlowedDown
