---------------------------- MODULE MCClustering ----------------------------
(* A bridging instance: a1 and a2 have nothing in common, a3 matches both.  *)
(* a1 and a3 are published at the same instant by sources of different     *)
(* credibility, and a2 carries no usable date.                             *)
EXTENDS Clustering, TLC

CONSTANTS a1, a2, a3

MCArticles == {a1, a2, a3}
MCPublished == a1 :> 1 @@ a2 :> 0 @@ a3 :> 1
MCCredibility == a1 :> 1 @@ a2 :> 2 @@ a3 :> 2
MCElementId == a1 :> 1 @@ a2 :> 2 @@ a3 :> 3
MCSimilar == a1 :> {a3} @@ a2 :> {a3} @@ a3 :> {a1, a2}

(* Bound: only the bridging article's message is handed out again.         *)
OnlyBridgeRedelivered == \A a \in Articles \ {a3} : receives[a] <= 1

MCSymmetry == Permutations(Workers) \cup Permutations(ClusterIds)
=============================================================================
