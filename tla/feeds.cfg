SPECIFICATION FairSpec
CONSTANTS
    Domains = {d1, d2, d3, d4}
    Order <- TwoFeeds
    Offers <- Overlapping
    Trusted = {d4}
    Workers = {w1, w2}
    MaxFaults = 2
    MaxOverlaps = 2
    None = None
    trusted = d4
    extra = d3
INVARIANTS
    OnlyConflictsDrop
    CountsExplained
    NobodyStuck
PROPERTIES
    ImplementsThreatTable
    Converges
CHECK_DEADLOCK FALSE
