SPECIFICATION Spec
CONSTANTS
    Nodes = {n1, n2, n3}
    Faults <- AllFaults
    MaxFaults = 3
INVARIANTS
    DeadGoneAfterPass
PROPERTY
    DeadIsRemoved
