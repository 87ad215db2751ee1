CONSTANTS
    n1 = n1
    n2 = n2
    relation = relation
    Nodes = {n1, n2}
    Provisional = {}
    Relations = {relation}
    Articles = {}
    Weak = {n1, n2}
    ElementId <- MCElementId
    Mentions <- MCMentions
    Nobody = Nobody
    Batch = 1
    MaxPages = 1
    MaxWrites = 2
    MaxFaults = 1
SPECIFICATION FairSpec
INVARIANTS
    TypeOK
    
PROPERTIES
    RevocationIsFinal
    Withdrawn
CHECK_DEADLOCK FALSE
