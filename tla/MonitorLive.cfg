SPECIFICATION FairSpec
CONSTANTS
    k1 = k1
    k2 = k2
    k3 = k3
    wA = wA
    wB = wB
    None = None
    NoPrice = NoPrice
    Watchers = {wA, wB}
    Keys = {k1, k2}
    Names = {"A", "B"}
    Name <- MCName
    Plan <- PlanApart
    Quotes <- KnownPrices
    PriceMax <- CapA
    Place <- MCPlace
    LocalPrefixes <- MCPrefixes
    MaxMoves = 1
    MaxFaults = 1
    MaxCancels = 1
PROPERTIES
    WantedGetsTracked
    GoneGetsForgotten
    CancelStops
