SPECIFICATION FairSpec
CONSTANTS
    popular = popular
    other = other
    popularBase = popularBase
    otherBase = otherBase
    Domains = {popular, other}
    Registered <- Bases
    Dga = {popular}
    Types = {"malware", "phishing"}
    Feeds <- BothFeeds
    TopLists <- OneList
    Workers = {w1, w2}
    MaxSyncs = 2
    Evicting = TRUE
    None = None
INVARIANTS
    ThreatsAreListed
    QuarantineOnlyThreats
PROPERTIES
    StaleVerdictsEnd
CHECK_DEADLOCK FALSE
