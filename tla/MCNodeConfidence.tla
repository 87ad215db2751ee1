-------------------------- MODULE MCNodeConfidence --------------------------
(* Two mentions of different weight, in two stories that may become one.   *)
EXTENDS NodeConfidence

CONSTANTS a1, a2

MCContribution == [a \in Articles |-> IF a = a1 THEN 1 ELSE 2]
=============================================================================
