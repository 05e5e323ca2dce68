SPECIFICATION FairSpec
CONSTANTS
    SourceKeys = {"obi", "bauhausStore"}
    Configs <- MCConfigs
INVARIANTS
    TypeOK
    ExitTellsWhy
    WatchersAreSound
    ListedIsPolled
    StoreOutlivesWatchers
PROPERTIES
    UsableIsWatched
    SignalEnds
CHECK_DEADLOCK FALSE
