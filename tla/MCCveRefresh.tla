---------------------------- MODULE MCCveRefresh ----------------------------
(* Versions 1 to 3: the score rises and then stays, a weakness is dropped  *)
(* between 1 and 2, a platform too, and version 3 names another platform   *)
(* and no score.                                                           *)
EXTENDS CveRefresh

CONSTANTS p1, p2, w1, w2

MCScore == [v \in 0..MaxClock |-> CASE v = 0 -> 0 [] v = 1 -> 5 [] v = 2 -> 7 [] v = 3 -> 0]
MCWeaknesses ==
    [v \in 0..MaxClock |-> CASE v = 0 -> {} [] v = 1 -> {w1, w2} [] OTHER -> {w1}]
MCPlatforms ==
    [v \in 0..MaxClock |-> CASE v \in {0, 2} -> {} [] v = 1 -> {p1} [] v = 3 -> {p2}]
=============================================================================
