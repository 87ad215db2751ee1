--------------------------- MODULE NodeConfidence ---------------------------
(***************************************************************************)
(* The confidence of one provisional entity (src/src/scoring/confidence.py *)
(* and event_handler.py): every announced mention folds its contribution   *)
(* in under the story of its article (refine_from_mention), and the daily  *)
(* sweep rebuilds the whole from the MENTIONS edges                        *)
(* (rescan_confidence_batch).  Both write under the node's lock, but which *)
(* story an article is in belongs to Dedup, which takes other locks and    *)
(* renames stories whenever it merges them.                                *)
(*                                                                         *)
(* Scores are on the scale -log(1 - x), where noisy-OR is addition.  The   *)
(* confidence is the noisy-OR of the scores and written with them in one   *)
(* SET, so it is an operator here.  An article is extracted once.          *)
(*                                                                         *)
(* A definition marked "Mistake" is a plausible bug; the mutation runs put *)
(* it in place of the definition after it, to show a property notices.     *)
(***************************************************************************)
EXTENDS Integers, FiniteSets

CONSTANTS
    Articles,
    StoryIds,       \* the uuids Dedup may mint
    Contribution,   \* credibility_score x extraction_confidence of a mention
    Certain,        \* the contribution 1.0 stands for, clamp01's upper end
    Handlers,       \* concurrent scoring invocations
    Sweep,          \* the confidence_rescan phase
    Free,           \* the holder of the unlocked node; also "no article"
    MaxDeliveries   \* bound: how often a mention's announcement is delivered

Keys == Articles \cup StoryIds
Procs == Handlers \cup {Sweep}
Absent == -1

ASSUME ContributionAssumption ==
    Certain \in Nat /\ Contribution \in [Articles -> 0..Certain]
ASSUME ProcsAssumption ==
    Free \notin Procs \cup Articles /\ Sweep \notin Handlers
ASSUME IdsAssumption == Articles \cap StoryIds = {}
ASSUME BoundsAssumption == MaxDeliveries \in Nat

VARIABLES
    key,         \* an article's story_cluster_id, or its own id before
    minted,      \* uuids Dedup has used
    mentioned,   \* articles with a MENTIONS edge to the node
    deliveries,  \* how often each mention's announcement was delivered
    scores,      \* contributing_story_cluster_ids and _scores of the node
    locker,      \* who holds the node's lock
    pc, article, story, seen,   \* a handler's locals
    seenKeys,    \* the stories the sweep's rebuild has read
    countedAs    \* history: under which stories each article was counted

dedup == <<key, minted>>
locals == <<pc, article, story, seen>>
vars == <<dedup, mentioned, deliveries, scores, locker, locals, seenKeys, countedAs>>

NoScores == [k \in Keys |-> Absent]
OwnKeys == [a \in Articles |-> a]

Init ==
    /\ key = OwnKeys
    /\ minted = {}
    /\ mentioned = {}
    /\ deliveries = [a \in Articles |-> 0]
    /\ scores = NoScores
    /\ locker = Free
    /\ pc = [p \in Procs |-> "idle"]
    /\ article = [h \in Handlers |-> Free]
    /\ story = [h \in Handlers |-> Free]
    /\ seen = [h \in Handlers |-> NoScores]
    /\ seenKeys = OwnKeys
    /\ countedAs = [a \in Articles |-> {}]

-----------------------------------------------------------------------------
(* Dedup gathers S, whole stories and unclustered articles, into one story *)
(* under an id one of them has, or a new one where none has.               *)
Gather(S, c) ==
    /\ S # {}
    /\ \A a \in S, b \in Articles : key[b] = key[a] => b \in S
    /\ LET ids == {key[a] : a \in S} \cap StoryIds IN
           c \in IF ids = {} THEN StoryIds \ minted ELSE ids
    /\ key' = [a \in Articles |-> IF a \in S THEN c ELSE key[a]]
    /\ minted' = minted \cup {c}
    /\ UNCHANGED <<mentioned, deliveries, scores, locker, locals, seenKeys, countedAs>>

(* Resolution commits a's MENTIONS edge, under both endpoints' locks.      *)
Mention(a) ==
    /\ a \notin mentioned
    /\ locker = Free
    /\ mentioned' = mentioned \cup {a}
    /\ UNCHANGED <<dedup, deliveries, scores, locker, locals, seenKeys,
                   countedAs>>

(* An announcement reaches an invocation: any time after the edge is       *)
(* committed, several times at once or one after the other, or never.  The *)
(* mention's context is read without any lock.                             *)
Context(h, a) ==
    /\ pc[h] = "idle"
    /\ a \in mentioned
    /\ deliveries[a] < MaxDeliveries
    /\ deliveries' = [deliveries EXCEPT ![a] = @ + 1]
    /\ pc' = [pc EXCEPT ![h] = "lock"]
    /\ article' = [article EXCEPT ![h] = a]
    /\ story' = [story EXCEPT ![h] = key[a]]
    /\ UNCHANGED <<dedup, mentioned, scores, locker, seen, seenKeys, countedAs>>

\* Mistake: the read does not wait for the lock.
LockedOrNot(h) ==
    /\ pc[h] = "lock"
    /\ seen' = [seen EXCEPT ![h] = scores]
    /\ pc' = [pc EXCEPT ![h] = "write"]
    /\ UNCHANGED <<dedup, mentioned, deliveries, scores, locker, article, story,
                   seenKeys, countedAs>>
(* _READ: lock the node, match it again and take its parallel lists.       *)
Lock(h) ==
    /\ pc[h] = "lock"
    /\ locker = Free
    /\ locker' = h
    /\ seen' = [seen EXCEPT ![h] = scores]
    /\ pc' = [pc EXCEPT ![h] = "write"]
    /\ UNCHANGED <<dedup, mentioned, deliveries, scores, article, story, seenKeys,
                   countedAs>>

\* Mistake: a story's first contribution is the one that stays.
FirstOnly(h) ==
    IF seen[h][story[h]] # Absent
    THEN scores ELSE [seen[h] EXCEPT ![story[h]] = Contribution[article[h]]]
(* The lists refine_provisional_confidence leaves: nothing is written for  *)
(* a contribution that is no higher than its story's.                      *)
Refined(h) ==
    IF Contribution[article[h]] <= seen[h][story[h]]
    THEN scores ELSE [seen[h] EXCEPT ![story[h]] = Contribution[article[h]]]

Reset(h) ==
    /\ pc' = [pc EXCEPT ![h] = "idle"]
    /\ article' = [article EXCEPT ![h] = Free]
    /\ story' = [story EXCEPT ![h] = Free]
    /\ seen' = [seen EXCEPT ![h] = NoScores]

Refine(h) ==
    /\ h \in Handlers
    /\ pc[h] = "write"
    /\ scores' = Refined(h)
    /\ countedAs' = [countedAs EXCEPT ![article[h]] = @ \cup {story[h]}]
    /\ locker' = Free
    /\ Reset(h)
    /\ UNCHANGED <<dedup, mentioned, deliveries, seenKeys>>

(* The invocation fails and the transaction rolls back; a retry is another *)
(* delivery.                                                               *)
Crash(h) ==
    /\ h \in Handlers
    /\ pc[h] # "idle"
    /\ locker' = IF locker = h THEN Free ELSE locker
    /\ Reset(h)
    /\ UNCHANGED <<dedup, mentioned, deliveries, scores, seenKeys, countedAs>>

-----------------------------------------------------------------------------
(* _CONFIDENCE_WRITE locks the node and reads the evidence; Dedup may      *)
(* rename a story before it commits, new mentions have to wait.            *)
RescanRead ==
    /\ pc[Sweep] = "idle"
    /\ mentioned # {}
    /\ locker = Free
    /\ locker' = Sweep
    /\ seenKeys' = key
    /\ pc' = [pc EXCEPT ![Sweep] = "write"]
    /\ UNCHANGED <<dedup, mentioned, deliveries, scores, article, story, seen,
                   countedAs>>

(* The contributions that mentions make to story k if `at` says who is in. *)
Contributions(k, at) == {Contribution[a] : a \in {b \in mentioned : at[b] = k}}

Highest(S) == CHOOSE x \in S : \A y \in S : y <= x

(* The lists a rebuild stores.                                             *)
Evidence(at) ==
    [k \in Keys |-> IF Contributions(k, at) = {} THEN Absent
                    ELSE Highest(Contributions(k, at))]

\* Mistake: the rebuild keeps the stories it finds no evidence for.
RebuiltOver(at) ==
    [k \in Keys |-> IF Contributions(k, at) = {} THEN scores[k] ELSE Evidence(at)[k]]
Rebuilt(at) == Evidence(at)

RescanWrite ==
    /\ pc[Sweep] = "write"
    /\ scores' = Rebuilt(seenKeys)
    /\ countedAs' = [a \in Articles |-> IF a \in mentioned THEN {seenKeys[a]} ELSE {}]
    /\ locker' = Free
    /\ seenKeys' = OwnKeys
    /\ pc' = [pc EXCEPT ![Sweep] = "idle"]
    /\ UNCHANGED <<dedup, mentioned, deliveries, article, story, seen>>

Handle(h) == Lock(h) \/ Refine(h)
Rescan == RescanRead \/ RescanWrite

Next ==
    \/ \E S \in SUBSET Articles, c \in StoryIds : Gather(S, c)
    \/ \E a \in Articles : Mention(a)
    \/ \E h \in Handlers : (\E a \in Articles : Context(h, a)) \/ Handle(h) \/ Crash(h)
    \/ Rescan

Spec == Init /\ [][Next]_vars

(* The sweep runs every day, and it and an invocation that has started go  *)
(* on.  Nothing makes Dedup, Resolution or an announcement come.           *)
FairSpec == Spec /\ WF_vars(Rescan) /\ \A h \in Handlers : WF_vars(Handle(h))

-----------------------------------------------------------------------------
Scores == [Keys -> (0..Certain) \cup {Absent}]

(* Every variable holds a value of its kind; whoever decides holds the     *)
(* lock and has read the lists as they are.                                *)
TypeOK ==
    /\ key \in [Articles -> Keys]
    /\ minted \subseteq StoryIds
    /\ mentioned \subseteq Articles
    /\ deliveries \in [Articles -> 0..MaxDeliveries]
    /\ scores \in Scores
    /\ locker \in Procs \cup {Free}
    /\ pc \in [Procs -> {"idle", "lock", "write"}]
    /\ article \in [Handlers -> Articles \cup {Free}]
    /\ story \in [Handlers -> Keys \cup {Free}]
    /\ seen \in [Handlers -> Scores]
    /\ seenKeys \in [Articles -> Keys]
    /\ countedAs \in [Articles -> SUBSET Keys]
    /\ \A p \in Procs : locker = p <=> pc[p] = "write"
    /\ \A h \in Handlers : pc[h] = "write" => seen[h] = scores

(* What refine_provisional_confidence promises: a story's score depends on *)
(* which contributions were counted under it and never on their order: it  *)
(* is the highest of them, and absent if there is none. No concurrent      *)
(* refinement is lost and no redelivery counts twice.                      *)
OrderIndependent ==
    \A k \in Keys :
        /\ \A a \in Articles : k \in countedAs[a] => Contribution[a] <= scores[k]
        /\ scores[k] # Absent =>
               \E a \in Articles : k \in countedAs[a] /\ scores[k] = Contribution[a]

(* Refinement only ever raises what a story contributes; only the sweep's  *)
(* rebuild may lower it or drop the story.                                 *)
OnlyTheSweepLowers ==
    [][(\E k \in Keys : scores'[k] < scores[k])
           => pc[Sweep] = "write" /\ pc'[Sweep] = "idle"]_vars

(* The sweep is the correctness net: whatever was lost, repeated, counted  *)
(* under a name that is gone, or written from a stale read, in the end the *)
(* node is as its mentions and today's stories say.                        *)
EvidenceWins == <>[](mentioned # {} => scores = Evidence(key))
=============================================================================
