SPECIFICATION Spec
CONSTANTS
    k1 = k1
    k2 = k2
    k3 = k3
    wA = wA
    wB = wB
    None = None
    NoPrice = NoPrice
    Watchers = {wA, wB}
    Keys = {k1, k2, k3}
    Names = {"A", "B"}
    Name <- MCName
    Plan <- PlanFar
    Quotes <- KnownPrices
    PriceMax <- CapA
    Place <- MCPlace
    LocalPrefixes <- MCPrefixes
    MaxMoves = 2
    MaxFaults = 2
    MaxCancels = 1
INVARIANTS
    TypeOK
    NoSilentRow
    DuplicatesBounded
    DecisionStands
PROPERTIES
    SeenGoneIsForgotten
    ShutdownKeepsRows
    LedgerRefined
