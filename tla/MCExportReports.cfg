CONSTANTS
    n1 = n1
    n2 = n2
    relation = relation
    Nodes = {n1}
    Provisional = {}
    Relations = {relation}
    Articles = {article}
    Weak = {}
    ElementId <- MCElementId
    Mentions <- MCMentions
    Nobody = Nobody
    Batch = 1
    MaxPages = 2
    MaxWrites = 1
    MaxFaults = 0
SPECIFICATION Spec
INVARIANTS
    ReportsStay
CHECK_DEADLOCK FALSE
