SPECIFICATION FairSpec
CONSTANTS
    PairCount = 3
    MaxTroubles = 4
INVARIANTS
    TypeOK
    StaleSessionHeals
    SolvesAreCaused
PROPERTIES
    Recovers
