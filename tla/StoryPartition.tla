--------------------------- MODULE StoryPartition ---------------------------
(***************************************************************************)
(* What Dedup promises: a partition of the clustered articles into         *)
(* stories that only ever coarsens, each story led by one of its           *)
(* representatives.  No cluster ids, locks, transactions or messages.      *)
(***************************************************************************)
EXTENDS ClusterElection

VARIABLE stories    \* set of [articles, lead]

Story == [articles : SUBSET Articles, lead : Articles]

Clustered == UNION {s.articles : s \in stories}

PartitionInit == stories = {}

(* One clustering: the stories `merged` and the so far unclustered         *)
(* articles `new` become one story with a newly elected lead.              *)
Gather(merged, new) ==
    LET gathered == new \cup UNION {s.articles : s \in merged}
    IN  \E r \in Representatives(gathered) :
            stories' = (stories \ merged)
                         \cup {[articles |-> gathered, lead |-> r]}

PartitionNext ==
    \E merged \in SUBSET stories :
        \E new \in SUBSET (Articles \ Clustered) : Gather(merged, new)

PartitionSpec == PartitionInit /\ [][PartitionNext]_stories

-----------------------------------------------------------------------------
(* Stories do not overlap, and each is led by one of its own members that  *)
(* no other member precedes.                                               *)
PartitionOK ==
    /\ stories \subseteq Story
    /\ \A s, t \in stories : s.articles \cap t.articles # {} => s = t
    /\ \A s \in stories : s.lead \in Representatives(s.articles)
=============================================================================
