SPECIFICATION Spec
CONSTANTS
    None = None
    NoPrice = NoPrice
    LocalPrefixes <- MCPrefixes
    Sources <- Kinds
    Cents = {94950, 199000, 199950}
    Caps = {0, 199500000}
    Settings <- MCSettings
    MaxMoves = 2
INVARIANTS
    ReadingTypeOK
    FormsAreLegal
PROPERTIES
    NoFalseAlert
    OffersAreFound
    DropsAreReal
