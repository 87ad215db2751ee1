---------------------------- MODULE AssertionEdge ----------------------------
(***************************************************************************)
(* One assertion edge between two entities and everybody who writes it:    *)
(* feeds that assert it (upsert_authoritative_assertion), Inference        *)
(* invocations that fold a story into it (upsert_inferred_assertion), and  *)
(* the daily sweep that decays it (decay_edges_batch).  The two upserts    *)
(* lock both endpoints, read the edge and write it; the sweep reads and    *)
(* writes without a lock.  Story-clusters messages come in any order, and  *)
(* again after a failure; one story is emitted again as it grows.          *)
(*                                                                         *)
(* Confidences are numbers on the scale -log(1 - x), where noisy-OR is     *)
(* addition and order and maximum are unchanged, up to a Ceiling: the      *)
(* doubles the code computes with reach exactly 1 and stay there.  Decayed *)
(* is arbitrary but for its bounds.  The relations found in a story, their *)
(* mapping onto edge types and the RECache come down to one message per    *)
(* edge here.                                                              *)
(*                                                                         *)
(* A definition marked "Mistake" is a plausible bug; the mutation runs put *)
(* it in place of the definition after it, to show a property notices.     *)
(***************************************************************************)
EXTENDS Integers, FiniteSets, FiniteSetsExt

CONSTANTS
    Stories,       \* story_cluster_ids
    Articles,
    Messages,      \* the StoryCluster messages: [story, articles, strength]
    Workers,       \* concurrent Inference invocations
    Feeds,         \* source_ids of the asserting feeds
    Credibility,   \* their credibility_score
    Free,          \* the holder of unlocked endpoints; also "no message"
    MaxIds,        \* source_article_ids_cap
    MaxDay,        \* bound: the last day
    MaxCrashes,    \* bound: how many invocations fail
    Ceiling,       \* a confidence of exactly 1
    Decayed        \* Decayed[x, days] of an inferred confidence

Procs == Workers \cup Feeds
Days == 0..MaxDay
Confidences == 0..Ceiling

ASSUME ProcsAssumption == Workers \cap Feeds = {} /\ Free \notin Procs \cup Messages
ASSUME BoundsAssumption ==
    MaxIds \in Nat /\ MaxDay \in Nat /\ MaxCrashes \in Nat /\ Ceiling \in Nat
ASSUME MessagesAssumption ==
    /\ Messages \subseteq
           [story : Stories, articles : SUBSET Articles, strength : Confidences]
    /\ \A m \in Messages : IsFiniteSet(m.articles)
ASSUME CredibilityAssumption == Credibility \in [Feeds -> Confidences \ {0}]
ASSUME DecayedAssumption ==
    /\ Decayed \in [Confidences \X Days -> Confidences]
    /\ \A x \in Confidences : Decayed[x, 0] = x
    /\ \A x, y \in Confidences, d, e \in Days :
           x <= y /\ d >= e => Decayed[x, d] <= Decayed[y, e]

VARIABLES
    edge,       \* the relationship's properties
    day,
    queue,      \* StoryCluster messages not yet acknowledged
    locker,     \* who holds the endpoints' locks
    pc, message, stamp, seen, outcome,   \* the writers' locals
    sweep,      \* the confidence the decay phase is about to write
    spiked,     \* stories whose contribution was announced as news
    missed,     \* stories whose announcement a failure prevented
    crashes

locals == <<pc, message, stamp, seen, outcome>>
vars == <<edge, day, queue, locker, locals, sweep, spiked, missed, crashes>>

Edge ==
    [exists : BOOLEAN, authoritative : Confidences, feeds : SUBSET Feeds,
     inferred : Confidences, stories : SUBSET Stories, ids : SUBSET Articles,
     count : Nat, confidence : Confidences, confirmed : Days]
NoEdge ==
    [exists |-> FALSE, authoritative |-> 0, feeds |-> {},
     inferred |-> 0, stories |-> {}, ids |-> {}, count |-> 0,
     confidence |-> 0, confirmed |-> 0]

Larger(x, y) == IF x > y THEN x ELSE y
NoisyOr(x, y) == IF x + y > Ceiling THEN Ceiling ELSE x + y
Age(e, now) == Larger(now - e.confirmed, 0)

(* effective_confidence.                                                   *)
Effective(e, now) == Larger(e.authoritative, Decayed[e.inferred, Age(e, now)])

(* The sweep is between two pages.                                         *)
Idle == -1

Init ==
    /\ edge = NoEdge
    /\ day = 0
    /\ queue = Messages
    /\ locker = Free
    /\ pc = [p \in Procs |-> "idle"]
    /\ message = [p \in Procs |-> Free]
    /\ stamp = [p \in Procs |-> 0]
    /\ seen = [p \in Procs |-> NoEdge]
    /\ outcome = [p \in Procs |-> "none"]
    /\ sweep = Idle
    /\ spiked = {}
    /\ missed = {}
    /\ crashes = 0

-----------------------------------------------------------------------------
Tick ==
    /\ day < MaxDay
    /\ day' = day + 1
    /\ UNCHANGED <<edge, queue, locker, locals, sweep, spiked, missed, crashes>>

(* An invocation gets a message and takes the time it will write.          *)
Receive(w, m) ==
    /\ pc[w] = "idle"
    /\ m \in queue
    /\ message' = [message EXCEPT ![w] = m]
    /\ stamp' = [stamp EXCEPT ![w] = day]
    /\ pc' = [pc EXCEPT ![w] = "open"]
    /\ UNCHANGED <<edge, day, queue, locker, seen, outcome, sweep, spiked, missed, crashes>>

(* A feed starts asserting the edge.                                       *)
FeedAsserts(f) ==
    /\ pc[f] = "idle"
    /\ stamp' = [stamp EXCEPT ![f] = day]
    /\ pc' = [pc EXCEPT ![f] = "open"]
    /\ UNCHANGED <<edge, day, queue, locker, message, seen, outcome, sweep, spiked,
                   missed, crashes>>

\* Mistake: the read does not wait for the locks.
OpenUnlocked(p) ==
    /\ pc[p] = "open"
    /\ seen' = [seen EXCEPT ![p] = edge]
    /\ pc' = [pc EXCEPT ![p] = "write"]
    /\ UNCHANGED <<edge, day, queue, locker, message, stamp, outcome, sweep, spiked, missed, crashes>>
(* _existing: lock both endpoints, then read the edge.                     *)
Open(p) ==
    /\ pc[p] = "open"
    /\ locker = Free
    /\ locker' = p
    /\ seen' = [seen EXCEPT ![p] = edge]
    /\ pc' = [pc EXCEPT ![p] = "write"]
    /\ UNCHANGED <<edge, day, queue, message, stamp, outcome, sweep, spiked, missed, crashes>>

\* Mistake: the capped article ids serve as the idempotency check.
AlreadySeenArticles(w) == message[w].articles \subseteq seen[w].ids
AlreadySeen(w) == message[w].story \in seen[w].stories

NewIds(w) == message[w].articles \ seen[w].ids

(* The stored ids, oldest first, cut at the cap: which of the new ones     *)
(* stay depends on their order in the message.                             *)
CappedIds(w) ==
    {seen[w].ids \cup kept : kept \in
        {S \in SUBSET NewIds(w) :
            Cardinality(S) = IF Cardinality(seen[w].ids \cup NewIds(w)) <= MaxIds
                             THEN Cardinality(NewIds(w))
                             ELSE Larger(MaxIds - Cardinality(seen[w].ids), 0)}}

\* Mistake: articles other stories brought already are counted again.
FoldCountingAll(w) ==
    \E ids \in CappedIds(w) :
        edge' = [edge EXCEPT
            !.exists = TRUE, !.confirmed = stamp[w],
            !.inferred = NoisyOr(seen[w].inferred, message[w].strength),
            !.stories = seen[w].stories \cup {message[w].story},
            !.ids = ids,
            !.count = seen[w].count + Cardinality(message[w].articles),
            !.confidence = Larger(seen[w].authoritative,
                                  NoisyOr(seen[w].inferred, message[w].strength))]

(* A story new to the edge: noisy-OR its contribution in, and count its    *)
(* articles.                                                               *)
Fold(w) ==
    \E ids \in CappedIds(w) :
        edge' = [edge EXCEPT
            !.exists = TRUE, !.confirmed = stamp[w],
            !.inferred = NoisyOr(seen[w].inferred, message[w].strength),
            !.stories = seen[w].stories \cup {message[w].story},
            !.ids = ids,
            !.count = seen[w].count + Cardinality(NewIds(w)),
            !.confidence = Larger(seen[w].authoritative,
                                  NoisyOr(seen[w].inferred, message[w].strength))]

(* A story the edge already counts: confirm it.                            *)
Confirm(w) ==
    edge' = [edge EXCEPT !.exists = TRUE, !.confirmed = stamp[w],
                         !.confidence = Larger(seen[w].authoritative, seen[w].inferred)]

\* Mistake: merge_relationship's two outcomes stand for the three.
OutcomeOfMerge(w) == IF seen[w].exists THEN "matched" ELSE "created"
(* What upsert_inferred_assertion returns.                                 *)
OutcomeOf(w) ==
    IF ~seen[w].exists THEN "created" ELSE IF AlreadySeen(w) THEN "matched" ELSE "updated"

(* upsert_inferred_assertion's write and commit.                           *)
WriteInferred(w) ==
    /\ w \in Workers
    /\ pc[w] = "write"
    /\ IF AlreadySeen(w) THEN Confirm(w) ELSE Fold(w)
    /\ outcome' = [outcome EXCEPT ![w] = OutcomeOf(w)]
    /\ locker' = Free
    /\ pc' = [pc EXCEPT ![w] = "publish"]
    /\ seen' = [seen EXCEPT ![w] = NoEdge]
    /\ stamp' = [stamp EXCEPT ![w] = 0]
    /\ UNCHANGED <<day, queue, message, sweep, spiked, missed, crashes>>

(* The graph-writes event: "matched" is the one L4 takes for no news.      *)
Publish(w) ==
    /\ pc[w] = "publish"
    /\ spiked' = IF outcome[w] = "matched" THEN spiked ELSE spiked \cup {message[w].story}
    /\ pc' = [pc EXCEPT ![w] = "done"]
    /\ UNCHANGED <<edge, day, queue, locker, message, stamp, seen, outcome, sweep,
                   missed, crashes>>

Reset(p) ==
    /\ pc' = [pc EXCEPT ![p] = "idle"]
    /\ message' = [message EXCEPT ![p] = Free]
    /\ stamp' = [stamp EXCEPT ![p] = 0]
    /\ seen' = [seen EXCEPT ![p] = NoEdge]
    /\ outcome' = [outcome EXCEPT ![p] = "none"]

Acknowledge(w) ==
    /\ pc[w] = "done"
    /\ queue' = queue \ {message[w]}
    /\ Reset(w)
    /\ UNCHANGED <<edge, day, locker, sweep, spiked, missed, crashes>>

(* The edge as upsert_authoritative_assertion leaves it.                   *)
Asserted(f) ==
    LET authoritative == Larger(Credibility[f], seen[f].authoritative) IN
    [edge EXCEPT !.exists = TRUE, !.confirmed = stamp[f],
                 !.feeds = seen[f].feeds \cup {f},
                 !.authoritative = authoritative,
                 !.confidence = Larger(authoritative, seen[f].inferred)]

WriteAuthoritative(f) ==
    /\ f \in Feeds
    /\ pc[f] = "write"
    /\ edge' = Asserted(f)
    /\ locker' = Free
    /\ Reset(f)
    /\ UNCHANGED <<day, queue, sweep, spiked, missed, crashes>>

(* An exception or a timeout: the transaction rolls back, the message      *)
(* stays, and what was committed but not announced never will be.          *)
Crash(p) ==
    /\ pc[p] # "idle"
    /\ crashes < MaxCrashes
    /\ crashes' = crashes + 1
    /\ locker' = IF locker = p THEN Free ELSE locker
    /\ missed' = IF pc[p] = "publish" THEN missed \cup {message[p].story} ELSE missed
    /\ Reset(p)
    /\ UNCHANGED <<edge, day, queue, sweep, spiked>>

\* Mistake: the stored confidence is decayed rather than its base.
DecayedOnceMore(e, now) == Larger(e.authoritative, Decayed[e.confidence, Age(e, now)])
(* What decay_edges_batch writes for an edge it read.                      *)
DecayOf(e, now) == Effective(e, now)

(* The decay phase reads a page of edges and computes their confidence ... *)
DecayScan ==
    /\ sweep = Idle
    /\ edge.stories # {}
    /\ sweep' = DecayOf(edge, day)
    /\ UNCHANGED <<edge, day, queue, locker, locals, spiked, missed, crashes>>

(* ... and writes it, holding no endpoint's lock.                          *)
DecayWrite ==
    /\ sweep # Idle
    /\ edge' = [edge EXCEPT !.confidence = sweep]
    /\ sweep' = Idle
    /\ UNCHANGED <<day, queue, locker, locals, spiked, missed, crashes>>

Work(w) ==
    Open(w) \/ WriteInferred(w) \/ Publish(w) \/ Acknowledge(w)

Feed(f) == Open(f) \/ WriteAuthoritative(f)

Next ==
    \/ Tick
    \/ \E w \in Workers : (\E m \in Messages : Receive(w, m)) \/ Work(w)
    \/ \E f \in Feeds : FeedAsserts(f) \/ Feed(f)
    \/ \E p \in Procs : Crash(p)
    \/ DecayScan \/ DecayWrite

Spec == Init /\ [][Next]_vars

(* SQS hands a message out until it is deleted; an invocation and a feed   *)
(* run that have started go on; the sweep runs day after day.              *)
Fairness ==
    /\ \A m \in Messages : WF_vars(\E w \in Workers : Receive(w, m))
    /\ \A w \in Workers : SF_vars(Work(w))
    /\ \A f \in Feeds : SF_vars(Feed(f))
    /\ WF_vars(DecayScan) /\ WF_vars(DecayWrite)

FairSpec == Spec /\ Fairness

-----------------------------------------------------------------------------
PCs == {"idle", "open", "write", "publish", "done"}

(* Every variable holds a value of its kind, and the endpoints are locked  *)
(* exactly while a transaction is between its read and its commit.         *)
TypeOK ==
    /\ edge \in Edge
    /\ day \in Days
    /\ queue \subseteq Messages
    /\ locker \in Procs \cup {Free}
    /\ pc \in [Procs -> PCs]
    /\ message \in [Procs -> Messages \cup {Free}]
    /\ stamp \in [Procs -> Days]
    /\ seen \in [Procs -> Edge]
    /\ outcome \in [Procs -> {"none", "created", "updated", "matched"}]
    /\ sweep \in Confidences \cup {Idle}
    /\ spiked \subseteq Stories
    /\ missed \subseteq Stories
    /\ crashes \in 0..MaxCrashes
    /\ \A p \in Procs : locker = p <=> pc[p] = "write"

StrengthsOf(s) == {m.strength : m \in {n \in Messages : n.story = s}}

(* Every contributing story is counted in inferred_confidence exactly      *)
(* once, with the strength of one of its emissions, and no acknowledged    *)
(* story is lost, however deliveries repeat and transactions race.         *)
StoriesCountOnce ==
    /\ {m.story : m \in Messages \ queue} \subseteq edge.stories
    /\ \E f \in [edge.stories -> UNION {StrengthsOf(s) : s \in edge.stories}] :
           /\ \A s \in edge.stories : f[s] \in StrengthsOf(s)
           /\ edge.inferred = FoldSet(LAMBDA s, n : NoisyOr(f[s], n), 0, edge.stories)

(* supporting_article_count is exact below the cap of source_article_ids   *)
(* and never falls behind the ids stored.                                  *)
CountExactBelowCap ==
    /\ Cardinality(edge.ids) <= MaxIds
    /\ edge.count >= Cardinality(edge.ids)
    /\ Cardinality(edge.ids) < MaxIds => edge.count = Cardinality(edge.ids)

(* FR-ES-06: a story new to the edge reaches L4 as news, not as a match,   *)
(* unless a failure fell between its commit and its announcement.          *)
NewStoriesSpike ==
    \A s \in edge.stories \ (spiked \cup missed) :
        \E w \in Workers : /\ pc[w] = "publish"
                           /\ message[w].story = s
                           /\ outcome[w] # "matched"

(* Whatever a racing sweep or upsert wrote, in the end the stored          *)
(* confidence is the effective one of the components stored.               *)
ConfidenceSettles == <>[](edge.stories # {} => edge.confidence = Effective(edge, day))
=============================================================================
