CONSTANTS
    a1 = a1
    a2 = a2
    Articles = {a1, a2}
    StoryIds = {s1, s2}
    Contribution <- MCContribution
    Certain = 2
    Handlers = {h1, h2}
    Sweep = Sweep
    Free = Free
    MaxDeliveries = 2
SPECIFICATION FairSpec
INVARIANTS
    TypeOK
    OrderIndependent
PROPERTIES
    OnlyTheSweepLowers
    EvidenceWins
CHECK_DEADLOCK FALSE
