------------------------------ MODULE MCExport ------------------------------
(* Nodes between the two values of the floor, in elementId order, and a    *)
(* relation that decays; an article, if there is one, mentions every node  *)
(* and was created before them.                                            *)
EXTENDS Export, TLC

CONSTANTS n1, n2, relation

MCElementId == [o \in Objects |-> IF o = n1 THEN 1 ELSE IF o = n2 THEN 2 ELSE 0]
MCMentions == [a \in Articles |-> Nodes]
=============================================================================
