SPECIFICATION Spec
CONSTANTS
    Delisted = Delisted
    Kinds = {"collection"}
    UrlCount = 1
    Listings <- MCListings
    Limit = 1
    MaxPages = 3
    MaxMoves = 1
    MaxFaults = 0
INVARIANTS
    AllAvailableReported
