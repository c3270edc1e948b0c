SPECIFICATION FairSpec
CONSTANTS
    Rows <- SomeRows
    Ticks = 2
    Limit = 2
    PageSize = 2
    DayAgo = 4
INVARIANTS
    SkipsExplained
    IndicatorIsNewest
    ListingSound
    FiguresAgree
PROPERTIES
    ThreatsArrive
CHECK_DEADLOCK FALSE
