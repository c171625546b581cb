SPECIFICATION Spec
CONSTANTS
    Builds <- Producers
INVARIANTS
    TypeOK
    OffSticks
    FullWarmup
    FaultCarriesContext
    FaultThenOff
PROPERTIES
    OnTakesEffect
    FaultShows
    ImplementsGenerator
