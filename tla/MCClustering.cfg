CONSTANTS
    a1 = a1
    a2 = a2
    a3 = a3
    Articles <- MCArticles
    Published <- MCPublished
    Credibility <- MCCredibility
    ElementId <- MCElementId
    Similar <- MCSimilar
    ClusterIds = {c1, c2, c3}
    NoCluster = NoCluster
    Workers = {w1, w2}
    Free = Free
    MaxReceive = 2
    MaxRetries = 1
CONSTRAINT OnlyBridgeRedelivered
SYMMETRY MCSymmetry
SPECIFICATION Spec
INVARIANTS
    TypeOK
    WriteLocksClosed
    OneRepresentative
    SimilarTogether
    StoriesConnected
    NoLostStory
PROPERTIES
    NeverSplit
    HeldClusterFrozen
    ImplementsPartition
CHECK_DEADLOCK FALSE
