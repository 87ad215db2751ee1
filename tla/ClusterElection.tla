--------------------------- MODULE ClusterElection ---------------------------
(***************************************************************************)
(* The orderings Dedup decides by (src/src/nlp/dedup): which of two        *)
(* articles was published first, and which members of a story qualify as   *)
(* its representative.  Pure operators over the Article properties that    *)
(* clustering reads and never writes.                                      *)
(***************************************************************************)
EXTENDS Naturals

CONSTANTS
    Articles,      \* source_guid_keys of the Article nodes
    Published,     \* published_at as an instant; 0 stands for datetime.min,
                   \* what a missing or unparseable date parses to
    Credibility    \* Source.credibility_score; 0 where no PUBLISHED_BY edge

ASSUME PublishedAssumption == Published \in [Articles -> Nat]
ASSUME CredibilityAssumption == Credibility \in [Articles -> Nat]

(* chronological_sort_key(a) < chronological_sort_key(b): a real date      *)
(* precedes the sentinel, and two sentinels are equal.                     *)
Earlier(a, b) ==
    /\ Published[a] # 0
    /\ Published[b] = 0 \/ Published[a] < Published[b]

(* _representative_key(a) < _representative_key(b).                        *)
Preferred(a, b) ==
    \/ Earlier(a, b)
    \/ ~Earlier(b, a) /\ Credibility[a] > Credibility[b]

(* What min(members, key=_representative_key) may return: the members no   *)
(* other precedes.  Ties fall to the row order of the read, which no query *)
(* fixes, so a tie leaves more than one.                                   *)
Representatives(S) == {r \in S : \A a \in S : ~Preferred(a, r)}
=============================================================================
