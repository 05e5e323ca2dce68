SPECIFICATION FairSpec
CONSTANTS
    wA = wA
    wB = wB
    sA = sA
    NoPrice = NoPrice
    Nobody = Nobody
    Failed = Failed
    Watchers = {wA, wB}
    Sources = {"shop"}
    Plan <- PlanShared
    Answers <- MCAnswers
    Scrapers = {sA}
    MaxTicks <- MCTicks
    MaxScrapes = 2
PROPERTIES
    PollingGoesOn
CHECK_DEADLOCK FALSE
