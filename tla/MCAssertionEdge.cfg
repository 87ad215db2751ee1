CONSTANTS
    s1 = s1
    s2 = s2
    a1 = a1
    a2 = a2
    a3 = a3
    f1 = f1
    f2 = f2
    Stories = {s1, s2}
    Articles = {a1, a2, a3}
    Messages <- MCMessages
    Workers = {w1, w2}
    Feeds = {f1, f2}
    Credibility <- MCCredibility
    Free = Free
    MaxIds = 2
    MaxDay = 0
    MaxCrashes = 1
    Ceiling = 3
    Decayed <- MCDecayed
SPECIFICATION Spec
SYMMETRY MCSymmetry
INVARIANTS
    TypeOK
    StoriesCountOnce
    CountExactBelowCap
    NewStoriesSpike
CHECK_DEADLOCK FALSE
