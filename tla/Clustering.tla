----------------------------- MODULE Clustering -----------------------------
(***************************************************************************)
(* Dedup: the Lambda that takes resolved articles off an SQS queue,        *)
(* gathers them into story clusters in Neo4j under node locks, and emits   *)
(* the story each one ended up in (src/src/nlp/dedup/clustering.py,        *)
(* handler.py, similarity.py).                                             *)
(*                                                                         *)
(* A definition marked "Mistake" is a plausible bug; the mutation runs put *)
(* it in place of the definition after it, to show a property notices.     *)
(*                                                                         *)
(* A worker is a concurrent invocation of the Lambda.  The transaction is  *)
(* modelled lock by lock: apoc.lock.nodes takes the nodes of one list in   *)
(* elementId order, but successive lists are not ordered among themselves, *)
(* so two transactions can deadlock, and Neo4j aborts one of them, which   *)
(* the driver runs again.  Reads outside locks, commits, the read-back,    *)
(* the send and the acknowledgement are separate steps, and a crash, which *)
(* stands for any exception or timeout, may fall between any two of them.  *)
(***************************************************************************)
EXTENDS ClusterElection, FiniteSets

CONSTANTS
    ElementId,      \* Neo4j's elementId of each Article, the lock order
    Similar,        \* who find_candidates and score would match an article to
    ClusterIds,     \* the uuid4s assign_cluster may mint
    NoCluster,      \* story_cluster_id of an article never clustered (null)
    Workers,        \* concurrent Dedup invocations
    Free,           \* the holder of an unlocked node
    MaxReceive,     \* the queue's max_receive_count
    MaxRetries      \* how often execute_write runs a transaction again: the
                    \* driver's 30 s retry budget

ASSUME ArticlesAssumption == IsFiniteSet(Articles)
ASSUME ElementIdAssumption ==
    /\ ElementId \in [Articles -> Nat]
    /\ \A a, b \in Articles : ElementId[a] = ElementId[b] => a = b
ASSUME SimilarAssumption == Similar \in [Articles -> SUBSET Articles]
ASSUME NoClusterAssumption == NoCluster \notin ClusterIds
ASSUME FreeAssumption == Free \notin Workers
ASSUME MaxReceiveAssumption == MaxReceive \in Nat
ASSUME MaxRetriesAssumption == MaxRetries \in Nat

VARIABLES
    cluster,          \* Article.story_cluster_id
    representative,   \* Article.is_cluster_representative (null as FALSE)
    size,             \* Article.dedup_cluster_size (null as 0)
    minted,           \* uuids ever stamped on an article
    blob,             \* articles that carry a resolved_entities_json
    visible,          \* articles whose MENTIONS edges are in the graph
    queue,            \* articles with an undeleted resolved-articles message
    receives,         \* how often SQS has handed that message out
    dead,             \* articles whose message went to the dead-letter queue
    holder,           \* who holds each Article's node lock
    pc, self, matched, toLock, retries, target, outgoing,   \* workers' locals
    emitted           \* StoryCluster messages sent to story-clusters

graph == <<cluster, representative, size, minted>>
sqs == <<visible, queue, receives, dead>>
locals == <<pc, self, matched, toLock, retries, target, outgoing>>
vars == <<graph, blob, sqs, holder, locals, emitted>>

-----------------------------------------------------------------------------
Members(c) == {a \in Articles : cluster[a] = c}
Live == {cluster[a] : a \in Articles} \ {NoCluster}

Locked(w) == {a \in Articles : holder[a] = w}

IdsOf(S) == {cluster[a] : a \in S} \ {NoCluster}

(* The closure query: everyone in a cluster that some member of S is in.   *)
MembersTouching(S) == {a \in Articles : cluster[a] \in IdsOf(S)}

(* The cluster whose earliest member among S was published no later than   *)
(* any other's.  Equal times go to the lower of two random uuids.          *)
OldestIds(S) ==
    {c \in IdsOf(S) :
        \A d \in IdsOf(S) :
            ~\E y \in S : /\ cluster[y] = d
                          /\ \A x \in S : cluster[x] = c => Earlier(y, x)}

\* Mistake: a new story is left without an id.
FinalIdsUnminted(S) == IF IdsOf(S) = {} THEN {NoCluster} ELSE OldestIds(S)
FinalIds(S) == IF IdsOf(S) = {} THEN ClusterIds \ minted ELSE OldestIds(S)

\* Mistake: only the seed set is locked.
UnlockedIgnored(w) == {}
(* What a round's closure read adds to lock.                               *)
Unlocked(w) == MembersTouching(Locked(w)) \ Locked(w)

\* Mistake: every candidate passes the threshold.
MatchesAnyone(a) == visible \ {a}
\* Mistake: only articles already clustered are candidates.
MatchesClustered(a) ==
    {b \in Similar[a] \cap visible : cluster[b] # NoCluster} \ {a}
(* The above-threshold candidates: read from the graph, without locks.     *)
MatchesOf(a) == (Similar[a] \cap visible) \ {a}

(* The StoryCluster message: the members the read-back saw, and those whose *)
(* resolved entities were in the union.                                    *)
StoryOf(c) ==
    [story |-> c, articles |-> Members(c), entities |-> Members(c) \cap blob]
Message ==
    [story : ClusterIds, articles : SUBSET Articles, entities : SUBSET Articles]
NoMessage == [story |-> NoCluster, articles |-> {}, entities |-> {}]

Init ==
    /\ cluster = [a \in Articles |-> NoCluster]
    /\ representative = [a \in Articles |-> FALSE]
    /\ size = [a \in Articles |-> 1]
    /\ minted = {}
    /\ blob = {}
    /\ visible = {}
    /\ queue = {}
    /\ receives = [a \in Articles |-> 0]
    /\ dead = {}
    /\ holder = [a \in Articles |-> Free]
    /\ pc = [w \in Workers |-> "idle"]
    /\ self = [w \in Workers |-> Free]
    /\ matched = [w \in Workers |-> {}]
    /\ toLock = [w \in Workers |-> {}]
    /\ retries = [w \in Workers |-> 0]
    /\ target = [w \in Workers |-> NoCluster]
    /\ outgoing = [w \in Workers |-> NoMessage]
    /\ emitted = {}

-----------------------------------------------------------------------------
(* Resolution has written a's MENTIONS edges and sent its ResolvedArticle. *)
Resolve(a) ==
    /\ a \notin visible
    /\ visible' = visible \cup {a}
    /\ queue' = queue \cup {a}
    /\ UNCHANGED <<graph, blob, receives, dead, holder, locals, emitted>>

(* SQS hands a's message out, possibly while another invocation still      *)
(* works on it.                                                            *)
Receive(w, a) ==
    /\ pc[w] = "idle"
    /\ a \in queue
    /\ receives[a] < MaxReceive
    /\ receives' = [receives EXCEPT ![a] = @ + 1]
    /\ self' = [self EXCEPT ![w] = a]
    /\ pc' = [pc EXCEPT ![w] = "store"]
    /\ UNCHANGED <<graph, blob, visible, queue, dead, holder, matched, toLock,
                   retries, target, outgoing, emitted>>

(* _store_resolved_entities: a write of its own transaction, so it waits   *)
(* for the node's lock.                                                    *)
Store(w) ==
    /\ pc[w] = "store"
    /\ holder[self[w]] = Free
    /\ blob' = blob \cup {self[w]}
    /\ pc' = [pc EXCEPT ![w] = "match"]
    /\ UNCHANGED <<graph, sqs, holder, self, matched, toLock, retries, target, outgoing, emitted>>

(* assign_cluster scores the candidates, outside any lock, and opens the   *)
(* transaction with the seed set.                                          *)
Match(w) ==
    /\ pc[w] = "match"
    /\ matched' = [matched EXCEPT ![w] = MatchesOf(self[w])]
    /\ toLock' = [toLock EXCEPT ![w] = MatchesOf(self[w]) \cup {self[w]}]
    /\ pc' = [pc EXCEPT ![w] = "lock"]
    /\ UNCHANGED <<graph, blob, sqs, holder, self, retries, target, outgoing, emitted>>

(* apoc.lock.nodes: the least elementId still wanted, once it is free.     *)
IsNextLock(w, a) ==
    /\ a \in toLock[w]
    /\ \A b \in toLock[w] : ElementId[a] <= ElementId[b]

Lock(w, a) ==
    /\ pc[w] = "lock"
    /\ IsNextLock(w, a)
    /\ holder[a] = Free
    /\ holder' = [holder EXCEPT ![a] = w]
    /\ toLock' = [toLock EXCEPT ![w] = @ \ {a}]
    /\ UNCHANGED <<graph, blob, sqs, pc, self, matched, retries, target, outgoing, emitted>>

(* The round's locks are held: read the touched clusters' membership, and  *)
(* go another round unless it is all locked already.                       *)
Close(w) ==
    /\ pc[w] = "lock"
    /\ toLock[w] = {}
    /\ toLock' = [toLock EXCEPT ![w] = Unlocked(w)]
    /\ pc' = [pc EXCEPT ![w] = IF Unlocked(w) = {} THEN "write" ELSE "lock"]
    /\ UNCHANGED <<graph, blob, sqs, holder, self, matched, retries, target, outgoing, emitted>>

(* The end of a transaction, by commit or rollback, frees its locks.       *)
Release(w) ==
    holder' = [a \in Articles |-> IF holder[a] = w THEN Free ELSE holder[a]]

(* The one SET of every locked article.                                    *)
Stamp(S, c, r) ==
    /\ cluster' = [a \in Articles |-> IF a \in S THEN c ELSE cluster[a]]
    /\ representative' =
           [a \in Articles |-> IF a \in S THEN a = r ELSE representative[a]]
    /\ size' = [a \in Articles |-> IF a \notin S THEN size[a]
                                   ELSE IF a = r THEN Cardinality(S) ELSE 0]
    /\ minted' = minted \cup {c}

(* Decide under the locks, stamp every locked article, commit.             *)
Write(w) ==
    /\ pc[w] = "write"
    /\ \E c \in FinalIds(Locked(w)), r \in Representatives(Locked(w)) :
           /\ Stamp(Locked(w), c, r)
           /\ target' = [target EXCEPT ![w] = c]
    /\ Release(w)
    /\ pc' = [pc EXCEPT ![w] = "build"]
    /\ UNCHANGED <<blob, sqs, self, matched, toLock, retries, outgoing, emitted>>

\* Mistake: the message carries what was matched, not what the graph holds.
BuildFromMatches(w) ==
    /\ pc[w] = "build"
    /\ outgoing' = [outgoing EXCEPT ![w] =
           [StoryOf(target[w]) EXCEPT !.articles = matched[w] \cup {self[w]}]]
    /\ pc' = [pc EXCEPT ![w] = "send"]
    /\ UNCHANGED <<graph, blob, sqs, holder, self, matched, toLock, retries,
                   target, emitted>>

(* _build_story_cluster: read the story back, no longer under its locks.   *)
Build(w) ==
    /\ pc[w] = "build"
    /\ outgoing' = [outgoing EXCEPT ![w] = StoryOf(target[w])]
    /\ pc' = [pc EXCEPT ![w] = "send"]
    /\ UNCHANGED <<graph, blob, sqs, holder, self, matched, toLock, retries, target, emitted>>

Send(w) ==
    /\ pc[w] = "send"
    /\ emitted' = emitted \cup {outgoing[w]}
    /\ pc' = [pc EXCEPT ![w] = "sent"]
    /\ UNCHANGED <<graph, blob, sqs, holder, self, matched, toLock, retries, target, outgoing>>

Forget(w) ==
    /\ pc' = [pc EXCEPT ![w] = "idle"]
    /\ self' = [self EXCEPT ![w] = Free]
    /\ matched' = [matched EXCEPT ![w] = {}]
    /\ toLock' = [toLock EXCEPT ![w] = {}]
    /\ retries' = [retries EXCEPT ![w] = 0]
    /\ target' = [target EXCEPT ![w] = NoCluster]
    /\ outgoing' = [outgoing EXCEPT ![w] = NoMessage]

(* The invocation returns and the event source deletes its messages.       *)
Acknowledge(w) ==
    /\ pc[w] = "sent"
    /\ queue' = queue \ {self[w]}
    /\ Forget(w)
    /\ UNCHANGED <<graph, blob, visible, receives, dead, holder, emitted>>

(* Workers each of which waits for a lock another of them holds.           *)
Deadlocked(W) ==
    \A w \in W : /\ pc[w] = "lock"
                 /\ \E a \in Articles : IsNextLock(w, a) /\ holder[a] \in W \ {w}

InDeadlock(w) == \E W \in SUBSET Workers : w \in W /\ Deadlocked(W)

(* Neo4j picks a victim; execute_write runs the same function again, with  *)
(* the same matched ids and uuid.                                          *)
Abort(w) ==
    /\ InDeadlock(w)
    /\ retries[w] < MaxRetries
    /\ Release(w)
    /\ toLock' = [toLock EXCEPT ![w] = matched[w] \cup {self[w]}]
    /\ retries' = [retries EXCEPT ![w] = @ + 1]
    /\ UNCHANGED <<graph, blob, sqs, pc, self, matched, target, outgoing, emitted>>

\* Mistake: a failed transaction is never rolled back.
FailKeepingLocks(w) == Forget(w) /\ UNCHANGED <<graph, blob, sqs, holder, emitted>>

(* The invocation ends by an exception: the open transaction rolls back    *)
(* and the message stays on the queue.                                     *)
Fail(w) ==
    /\ Release(w)
    /\ Forget(w)
    /\ UNCHANGED <<graph, blob, sqs, emitted>>

(* The retry budget is spent and the driver raises.                        *)
GiveUp(w) == InDeadlock(w) /\ retries[w] = MaxRetries /\ Fail(w)

(* Any other exception, a timeout or the loss of the Lambda, at any point. *)
Crash(w) == pc[w] # "idle" /\ Fail(w)

(* Redrive policy: received max_receive_count times, never deleted.        *)
DeadLetter(a) ==
    /\ a \in queue
    /\ receives[a] = MaxReceive
    /\ \A w \in Workers : self[w] # a
    /\ queue' = queue \ {a}
    /\ dead' = dead \cup {a}
    /\ UNCHANGED <<graph, blob, visible, receives, holder, locals, emitted>>

Work(w) ==
    \/ Store(w) \/ Match(w)
    \/ \E a \in Articles : Lock(w, a)
    \/ Close(w) \/ Write(w) \/ Build(w) \/ Send(w) \/ Acknowledge(w)
    \/ Abort(w) \/ GiveUp(w)

Next ==
    \/ \E a \in Articles : Resolve(a) \/ DeadLetter(a)
    \/ \E w \in Workers : (\E a \in Articles : Receive(w, a)) \/ Work(w) \/ Crash(w)

Spec == Init /\ [][Next]_vars

(* Fairness.  An invocation keeps running, a lock included once it is      *)
(* free; Neo4j breaks a deadlock it detects; SQS keeps handing out a       *)
(* message that is not deleted, and moves it once its receives are spent.  *)
(* Two transactions may deadlock each other again on every retry: it is    *)
(* the retry budget that ends that, and redelivery that resumes the work.  *)
Fairness ==
    /\ \A a \in Articles : WF_vars(\E w \in Workers : Receive(w, a))
    /\ \A a \in Articles : WF_vars(DeadLetter(a))
    /\ \A w \in Workers : WF_vars(Work(w))

FairSpec == Spec /\ Fairness

-----------------------------------------------------------------------------
PCs == {"idle", "store", "match", "lock", "write", "build", "send", "sent"}

(* Every variable holds a value of its kind.                               *)
TypeOK ==
    /\ cluster \in [Articles -> ClusterIds \cup {NoCluster}]
    /\ representative \in [Articles -> BOOLEAN]
    /\ size \in [Articles -> Nat]
    /\ minted \subseteq ClusterIds
    /\ blob \subseteq Articles
    /\ visible \subseteq Articles
    /\ queue \subseteq Articles
    /\ receives \in [Articles -> Nat]
    /\ dead \subseteq Articles
    /\ holder \in [Articles -> Workers \cup {Free}]
    /\ pc \in [Workers -> PCs]
    /\ self \in [Workers -> Articles \cup {Free}]
    /\ matched \in [Workers -> SUBSET Articles]
    /\ toLock \in [Workers -> SUBSET Articles]
    /\ retries \in [Workers -> 0..MaxRetries]
    /\ target \in [Workers -> ClusterIds \cup {NoCluster}]
    /\ outgoing \in [Workers -> Message \cup {NoMessage}]
    /\ emitted \subseteq Message

(* Whoever is about to write holds every member of every cluster it        *)
(* touches: the fixed point _assign_cluster_tx locks up to.                *)
WriteLocksClosed ==
    \A w \in Workers :
        pc[w] = "write" => MembersTouching(Locked(w)) \subseteq Locked(w)

(* FR-DED-04, FR-DED-05: every cluster has exactly one representative, the *)
(* one the published_at / credibility order elects, and it alone carries   *)
(* dedup_cluster_size, equal to the membership, whatever transactions      *)
(* raced, deadlocked or were run twice.                                    *)
OneRepresentative ==
    \A c \in Live :
        \E r \in Representatives(Members(c)) :
            \A a \in Members(c) :
                /\ representative[a] <=> a = r
                /\ size[a] = IF a = r THEN Cardinality(Members(c)) ELSE 0

(* FR-DED-06: a story is never taken apart. Two articles that share a      *)
(* cluster share one after every step.                                     *)
NeverSplit ==
    [][\A a, b \in Articles :
        cluster[a] = cluster[b] /\ cluster[a] # NoCluster
            => cluster'[a] = cluster'[b] /\ cluster'[a] # NoCluster]_vars

(* From the moment a transaction holds one member of a cluster, nobody     *)
(* else changes that cluster's membership, so the separate reads inside    *)
(* the loop cannot be torn.                                                *)
HeldClusterFrozen ==
    [][\A w \in Workers : \A a \in Articles :
        holder[a] = w /\ holder'[a] = w /\ cluster[a] # NoCluster
            => {b \in Articles : cluster'[b] = cluster[a]} = Members(cluster[a])]_vars

(* Once two articles that match each other have both been processed, they  *)
(* are in one story: the candidate reads take no lock, but whichever       *)
(* article became visible second cannot miss the first.                    *)
SimilarTogether ==
    \A a, b \in Articles :
        /\ a \in Similar[b] /\ b \in Similar[a]
        /\ {a, b} \subseteq visible \ (queue \cup dead)
        => cluster[a] = cluster[b] /\ cluster[a] # NoCluster

(* Nothing is gathered that similarity does not connect: no story splits   *)
(* into two halves without a match between them.                           *)
StoriesConnected ==
    \A c \in Live :
        \A half \in (SUBSET Members(c)) \ {{}, Members(c)} :
            \E a \in half, b \in Members(c) \ half :
                a \in Similar[b] \/ b \in Similar[a]

(* Articles that whatever they match matches back.  Scores are symmetric,   *)
(* but find_candidates skips an article without a date, which may itself   *)
(* match one whose date cannot be parsed.                                  *)
MatchedBack == {a \in Articles : \A b \in Similar[a] : a \in Similar[b]}

(* FR-DED-07: the story as it now stands was emitted in full, with the     *)
(* entities of every member, unless a member's message is still to be      *)
(* processed or was given up on. The read-back and the send happen after   *)
(* the locks are gone, and a crash may come before either. It is not so of *)
(* a story with a one-sided match: a second invocation of a processed      *)
(* article may match one processed in between, join the two, and die.      *)
NoLostStory ==
    \A c \in Live :
        Members(c) \subseteq MatchedBack =>
            \/ StoryOf(c) \in emitted
            \/ Members(c) \cap (queue \cup dead) # {}

(* Every article that Resolution hands over ends up announced with its     *)
(* whole story, unless the story has a message in the dead-letter queue.   *)
EventuallyAnnounced ==
    <>[](\A a \in visible :
            /\ a \in dead \/ cluster[a] # NoCluster
            /\ cluster[a] # NoCluster =>
                  \/ StoryOf(cluster[a]) \in emitted
                  \/ Members(cluster[a]) \cap dead # {})

-----------------------------------------------------------------------------
(* The clusters as the stories they stand for.                             *)
Leader(c) == CHOOSE r \in Members(c) : representative[r]

StoryAt(c) == [articles |-> Members(c), lead |-> Leader(c)]
Stories == {StoryAt(c) : c \in Live}

Partition == INSTANCE StoryPartition WITH stories <- Stories

(* The locked, retried, crash-prone clustering implements the partition    *)
(* that only coarsens: each commit is one Gather and nothing else is.      *)
ImplementsPartition == Partition!PartitionSpec
=============================================================================
