SPECIFICATION Spec
CONSTANTS
    k1 = k1
    k2 = k2
    k3 = k3
    wA = wA
    wB = wB
    None = None
    NoPrice = NoPrice
    Watchers = {wA}
    Keys = {k1}
    Names = {"A", "B"}
    Name <- MCName
    Plan <- PlanAlone
    Quotes <- KnownPrices
    PriceMax <- NoCap
    Place <- MCPlace
    LocalPrefixes <- MCPrefixes
    MaxMoves = 0
    MaxFaults = 1
    MaxCancels = 0
PROPERTIES
    RemovedOnlyWhenGone
