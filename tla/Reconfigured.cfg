SPECIFICATION ReconfiguredSpec
CONSTANTS
    k1 = k1
    k2 = k2
    wA = wA
    wR = wR
    wS = wS
    wB = wB
    None = None
    NoPrice = NoPrice
    Watchers = {wA, wR, wS, wB}
    Configurations <- MCConfigurations
    Keys = {k1, k2}
    Names = {"A", "R", "B"}
    Name <- MCName
    Plan <- MCPlan
    Quotes <- AnyPrices
    PriceMax <- NoCap
    Place <- MCPlace
    LocalPrefixes = {}
    MaxMoves = 1
    MaxFaults = 1
    MaxCancels = 1
INVARIANTS
    DuplicatesAccounted
PROPERTIES
    OwnRowsForgotten
    LedgerRefined
