CONSTANTS
    p1 = p1
    p2 = p2
    w1 = w1
    w2 = w2
    Cves = {c1}
    Legacy = {}
    Poller = Poller
    Enrichers = {e1}
    Free = Free
    Platform = {p1, p2}
    Weakness = {w1, w2}
    MaxClock = 2
    MaxCrashes = 0
    Score <- MCScore
    Weaknesses <- MCWeaknesses
    Platforms <- MCPlatforms
SPECIFICATION Spec
INVARIANTS
    MatchesMatchWatermark
CHECK_DEADLOCK FALSE
