CONSTANTS
    c = c
    t = t
    actor = actor
    malware = malware
    MaxVersion = 2
    Fetchers = {f1}
    Resolvers = {r1, r2}
    Codes = {c}
    Techniques = {t}
    Names = {actor, malware}
    Key <- KeyDef
    Named <- NamedDef
    None = None
    MaxFails = 1
SPECIFICATION FairSpec
INVARIANTS
    TypeOK
    StoredAsPublished
PROPERTIES
    NeverForgets
    LatestHandedOn
CHECK_DEADLOCK FALSE
