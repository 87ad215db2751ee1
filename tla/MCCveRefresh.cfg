CONSTANTS
    p1 = p1
    p2 = p2
    w1 = w1
    w2 = w2
    Cves = {c1, c2}
    Legacy = {c2}
    Poller = Poller
    Enrichers = {e1}
    Free = Free
    Platform = {p1, p2}
    Weakness = {w1, w2}
    MaxClock = 3
    MaxCrashes = 1
    Score <- MCScore
    Weaknesses <- MCWeaknesses
    Platforms <- MCPlatforms
SPECIFICATION FairSpec
INVARIANTS
    TypeOK
    CategoriesMatchWatermark
    MatchesMatchUnlessDropped
    ChangesAnnounced
PROPERTIES
    WatermarksAdvance
    KnownCvesCatchUp
CHECK_DEADLOCK FALSE
