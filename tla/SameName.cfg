SPECIFICATION Spec
CONSTANTS
    k1 = k1
    k2 = k2
    k3 = k3
    wA = wA
    wB = wB
    None = None
    NoPrice = NoPrice
    Watchers = {wA, wB}
    Keys = {k1, k2}
    Names = {"A"}
    Name <- OneName
    Plan <- PlanApart
    Quotes <- KnownPrices
    PriceMax <- NoCap
    Place <- MCPlace
    LocalPrefixes <- MCPrefixes
    MaxMoves = 0
    MaxFaults = 0
    MaxCancels = 0
INVARIANTS
    DuplicatesBounded
