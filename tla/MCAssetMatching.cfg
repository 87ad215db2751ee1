CONSTANTS
    Cves = {c1, c2}
    Criteria = {m1}
    Assets = {1, 2}
    Version <- VersionDef
    Ranges <- RangesDef
    Matchers = {w1, w2}
    Idle = Idle
    PageSize = 1
    MaxChanges = 2
    MaxCrashes = 1
SPECIFICATION FairSpec
INVARIANTS
    TypeOK
    Prompt
PROPERTIES
    AffectsSettle
CHECK_DEADLOCK FALSE
