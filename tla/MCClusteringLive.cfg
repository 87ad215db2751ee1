CONSTANTS
    a1 = a1
    a2 = a2
    a3 = a3
    Articles <- MCArticles
    Published <- MCPublished
    Credibility <- MCCredibility
    ElementId <- MCElementId
    Similar <- MCSimilar
    ClusterIds = {c1, c2}
    NoCluster = NoCluster
    Workers = {w1, w2}
    Free = Free
    MaxReceive = 1
    MaxRetries = 1
SPECIFICATION FairSpec
PROPERTIES
    EventuallyAnnounced
CHECK_DEADLOCK FALSE
