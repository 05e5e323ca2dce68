SPECIFICATION Spec
CONSTANTS
    Delisted = Delisted
    Kinds = {"page", "api", "collection"}
    UrlCount = 2
    Listings <- MCListings
    Limit = 1
    MaxPages = 2
    MaxMoves = 2
    MaxFaults = 2
INVARIANTS
    TypeOK
    EmptyMeansAsked
    FoundIsReported
    SteadyIsReported
