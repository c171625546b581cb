SPECIFICATION Spec
CONSTANTS
    Nodes = {n1}
    Faults <- CrashOnly
    MaxFaults = 1
PROPERTY
    PublisherIsRegistered
