CONSTANTS
    Handlers = {h1, h2}
    Sweep = Sweep
    Free = Free
    CvssScores = {3, 9}
    EpssScores = {50}
    Credibilities = {80}
    WImpact = 30
    WLikelihood = 50
    WAdoption = 20
    SaturationK = 5
    KevFloor = 6000
    MaxChanges = 2
    MaxFails = 1
SPECIFICATION FairSpec
INVARIANTS
    TypeOK
    ClockIsLatestNews
    EvidenceNeverLowers
PROPERTIES
    ScoresSettle
CHECK_DEADLOCK FALSE
