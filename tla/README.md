# A specification of threat-intel in TLA+

threat-intel collects security news and vulnerability feeds, extracts and
resolves the entities they name, gathers articles into stories, infers
relations between entities, scores everything and exports it.  Its state is one
Neo4j graph.  Its code is some forty Lambda functions that share the graph,
joined by SQS queues and an SNS topic (`graph-writes`); none of them knows what
else is running.  What makes it correct is therefore what happens between
transactions: who locks what, what is decided by which read, what a retry or a
redelivery does a second time, and what a crash leaves undone.  That is what
this project specifies.

Source paths are relative to `src/src/` (the package) unless they start with
`src/infra`.

## The modules

| module | what it is |
|---|---|
| `ClusterElection` | pure orderings: who was published first, who represents a story |
| `StoryPartition` | abstract: a partition of articles into stories that only coarsens |
| `Clustering` | Dedup in full: queue, lock loop, deadlock, retry, crash, announcement |
| `CveRefresh` | a CVE node under the NVD delta poll, on-demand enrichment and backfill |
| `AssertionEdge` | one assertion edge under feeds, Inference and the decay sweep |
| `NodeConfidence` | one provisional entity's confidence under events, the rescan and Dedup |
| `CveScoring` | one CVE's severity, relevance and novelty clock under events and the sweep |
| `FeedPipeline` | one RSS item from the feed to Dedup: poller, extraction, mentions, resolution |
| `Export` | what a TAXII client learns: watermarks, paged polls, withdrawal |
| `AssetMatching` | AFFECTS edges under the API, CPEMatch events, the sweep and NVD |
| `MC*` | the instances TLC checks, with their `.cfg` files |
| `*Proofs` | theorems and proofs about that module; `ClusteringProofs` has `StoryPartition`'s |

`Clustering` extends `ClusterElection` and instantiates `StoryPartition` with
the stories computed from the graph.  No module is recursive, so all of them
can be proved about.  A definition whose comment starts with `Mistake` is not
part of a specification: it is a bug someone could plausibly write in the code
that the definition below it models.  Each property has one that breaks it (see
`mutants` in PROJECT.json), which shows that the run would notice.

## Inventory

For every part: the state it keeps, what it does, with whom it interacts, what
is hard about it, and when it is correct.

**Dedup** (`nlp/dedup`). State: `story_cluster_id`, `is_cluster_representative`,
`dedup_cluster_size`, `resolved_entities_json` of Article nodes. One operation
per `ResolvedArticle` message: store its entities, find similar articles, lock
them and the clusters they are in, merge all of it into one cluster, elect a
representative, read the story back, send a `StoryCluster`. Hard: concurrent
bridging of clusters, the lock set that grows while it is locked, deadlocks and
driver retries, reads before and after the locks, whole-batch redelivery.
Correct: stories partition the articles, never split, have one representative,
contain what is similar, and each is announced as it finally stands.

**NVD refresh** (`collection/rest/nvd.py`, `nvd_backfill.py`,
`common/graph/structural_edges.py`, `collection/rss/dedup_state.py`). State: CVE
scalars, `last_modified_date`, `CATEGORIZED_AS` and `MATCHES` edges,
`nvd_not_found_at`, the poll's `last_success_at` in DynamoDB. Operations: delta
poll of known CVEs, `enrich_cve` for a new one, silent backfill. Interacts with
KEV, GHSA and OTX (they create stubs and call `enrich_cve`), with Resolution (it creates
stubs that nothing enriches), with scoring and the asset matcher (announcements). Hard:
payloads applied in another order than they were fetched, windows, crashes between
commit and announcement. Correct: the edges are those of the version recorded, versions
and windows only advance, changes are announced, no modification is missed.

**Assertion edges** (`common/graph/assertion_edges.py`). State: the two confidence
components, their contributors, capped evidence, `last_confirmed_at`. Operations:
authoritative and inferred upserts. Written by KEV, OTX, abuse.ch, ATT&CK sync and
Inference, and by the sweep. Hard: lost updates, redelivery, a story that is
emitted again as it grows, the cap. Correct: each contributor counts once,
evidence never shrinks, the count is exact below the cap, a new contributor is
news.

**Inference** (`nlp/inference`). State: the DynamoDB RE cache. Per story: relations
from the cache or an LLM, mapped to edge types, one upsert transaction and one
event per relation. Hard: crash between commit and event, cache keyed by the
representative's text while the entity union grows.

**Sweep and node confidence** (`scoring/confidence.py`, `formulas.py`,
`sweep_handler.py`). Daily, in phases with cursors: rescore, rescan provisional
nodes, decay edges, flag prunable nodes. The event path refines one node per
MENTIONS event under a lock. Hard: an unlocked decay racing upserts; the cluster
id an event was folded under being renamed by Dedup later. Correct: recomputation
agrees with accumulation; nothing decays twice.

**Scoring events** (`scoring/event_handler.py`, `severity.py`, `relevance.py`,
`significance.py`, `formulas.py`). State: `severity`, `relevance`,
`last_significant_event` of a node. Recompute severity and relevance on
announcements and stamp the clock when the announcement is news; the sweep does both
for every node. Hard: unlocked recomputations landing out of order, announcements
lost or overtaken. Correct: the clock is the latest news, evidence never speaks for a
CVE, the sweep repairs whatever is stale.

**RSS pipeline** (`collection/rss`). State: feed fingerprints and poll outcomes in
DynamoDB, Article nodes. Poll, hash, send, store the fingerprint; extraction writes
the node and forwards. Hard: crash between send and fingerprint, versions of one
item reordered by the queue. Correct: nothing new is lost, the last version wins.

**Resolution** (`nlp/resolution`). State: canonical and provisional entity nodes,
aliases, MENTIONS edges. Resolves mentions (deterministically or through an alias
index and an LLM), retracts the links of earlier texts of an article, hands it to
Dedup. `reconciliation.py` (merges) and `cleanup.py` (deletions) have an operation
each that no handler, schedule or driver of the package calls. Hard: two texts of one
article resolved at once, each retracting what it takes for stale; an index read
before a node it names is created under another label. Correct: what every version
mentions stays linked, no message is lost but to the dead-letter queue.

**Asset inventory** (`assets`, `delivery/assets_handler.py`). State: Asset and
CPEMatch nodes, AFFECTS edges. Matching on asset creation, on CPEMatch events and
nightly. Hard: reads and deletes in separate transactions, matches shared by CVEs.
Correct: an announced match is linked at once; AFFECTS converges to what versions and
ranges say.

**Export** (`interop`). State: `last_updated`, `exported`, `revoked`, tombstones.
Stamps nodes on events, serves TAXII pages by `added_after`, withdraws what is below the
floor. Hard: stamps out of order or late, pages against concurrent withdrawals, answers
that end after 100 pages. Correct: a client that polls holds what is published and learns
of what was taken back.

**Other feeds** (`collection/rest/{cisa_kev,ghsa,otx,abusech,epss}.py`,
`collection/stix/attck_sync.py`), **source configuration**, **NLP extraction**,
**delivery API**, **configuration and bootstrap**, **infrastructure**,
**frontend**: sequential importers, stateless transformations, read-only queries,
deployment. See `components` in PROJECT.json for how far each is modelled and why
not further, and `hazards` there for every line where one of the difficulties
above bites, with the property that covers it or the reason none does.

## Clustering

**State.** `cluster`, `representative`, `size` are the Article properties;
`minted` remembers used uuids (`uuid4` never repeats); `blob` says whose
`resolved_entities_json` is written; `visible`, `queue`, `receives`, `dead` are
Resolution's hand-over and the SQS queue with its redrive policy; `holder` is the
node lock; the rest are a worker's locals, `pc` naming the statement it is at.

**Actions.** `Resolve` is the upstream hand-over (MENTIONS written, message sent).
`Receive`, `Store`, `Match`, `Lock`/`Close` (the `while to_lock` loop of
`_assign_cluster_tx`, one lock at a time in elementId order within a round, any
order across rounds), `Write` (decision and the one SET, commit), `Build`
(read-back without locks), `Send`, `Acknowledge` follow `_process_article` and
`handler` statement by statement. `Abort` is the driver running a deadlock victim
again with the same arguments; `GiveUp` the driver's exhausted 30 s budget, counted
in `MaxRetries`; `Crash` any other end of the invocation; `DeadLetter` the redrive.

**Abstractions.** An invocation works on one record: a batch is redelivered whole,
which for each record is the same as being received again, and `Receive` allows a
message to be handed out while another invocation still works on it. Similarity,
dates and credibility do not change: the scores read properties Dedup does not
write. Ties are nondeterministic where the code's order is a row order or a random
uuid. `emitted` is a set: Inference must be idempotent, which `AssertionEdge` checks.

**Runs.** `clustering`: three articles, a3 similar to both others, which are not
similar to each other; one has no usable date, two share one. Two workers, so
that two transactions bridge and deadlock; three uuids; one retry; the bridge's
message may be received twice (`OnlyBridgeRedelivered` is the bound), the others
once. 310,578 states. It is the smallest instance in which a cluster grows under a
transaction that has locked part of it and in which a loser of a deadlock starts
over with a stale seed. `clustering_live`: one receive per message, two uuids,
no symmetry, `EventuallyAnnounced`; 242,900 states. What it shows is progress through
deadlocks, driver retries and failures that leave locks behind. With one receive a crash
ends in the dead-letter queue, so that recovery by redelivery is only in the other run,
where it is safe: two receives are more than liveness can be checked of in a run's time.

**Fairness.** `WF` of a worker's steps: Lambda runs an invocation to its end, Neo4j
grants a free lock and breaks a deadlock it detects. `WF` of `Receive` per message
and of `DeadLetter`: SQS hands out what is not deleted, and moves it when its
receives are spent. Nothing makes a deadlock's retries succeed: two workers may
deadlock each other until the budget is spent, and redelivery has to resume.
Nothing keeps a worker from crashing: a message that crashes its receiver every
time ends in the dead-letter queue, which `EventuallyAnnounced` allows for.

**Proved**, for every set of articles and workers (`ClusteringProofs`): `TypeOK`,
`WriteLocksClosed`, `OneRepresentative`, `NeverSplit`, `HeldClusterFrozen`, and
that Clustering implements `StoryPartition`. The inductive invariant is

    Inv == TypeOK /\ LocalsOK /\ MintedOK /\ WriteLocksClosed /\ OneRepresentative

`LocalsOK` says that a worker between `lock` and `write` will come to hold itself
and its matches and that nobody holds locks at any other point; `MintedOK` that
every id on an article was minted. The heart is `WriteLocksClosed`: another
worker's commit could only add to a cluster I touch by holding a member of it, and
closedness of both lock sets makes them disjoint unless the clusters are. From it,
`Write` replaces whole clusters by one and elects among exactly its members, which
gives `OneRepresentative`, `NeverSplit` and the step simulation of `Gather`;
all other actions leave the graph alone and map to stutters. The proof uses only
the named assumptions on the constants: elementIds distinct, articles finite.
The abstract side is proved too: stories never overlap and each is led by one of its
own representatives (`PartitionStaysAPartition`), hence so are the stories of the graph
(`StoriesNeverOverlap`).

What Dedup gathers and announces needs to know who has seen whom, for the candidate
reads take no lock. `Inv` does not say; the second invariant does:

    History == HandledOK /\ LocksOK /\ OneSees

`HandledOK`: by where an invocation stands, its article is stored, it has joined every
match it committed over, and an article whose message was processed is clustered.
`LocksOK`: what a transaction locks is its article, a match of it, or shares a story with
one of those that it has locked. `OneSees`: of two articles that match each other one
is seen by every invocation of the other, because `Resolve` makes an article visible
before its message can be received. From `OneSees` follows `SimilarTogether`, from
`LocksOK` that a locked set is connected, which is `StoriesConnected`. For `NoLostStory`
every story must be told or owed: sent, about to be read back by an invocation at
`build`, in such an invocation's message as it now stands, or with a member whose
message is still to be processed.

**What a proof attempt brought up.** A story is not always announced. With a1 matching a2
but not the reverse, TLC finds a second delivery of a1, already processed, that matches a2
(processed in between, on its own), joins the two stories and crashes after its commit; its
message was deleted when the first delivery was done. Nobody is left to announce the
joined story. Had a2, resolved later, matched a1 itself, it would have been in the story
before. The scores of `similarity.py` are symmetric but for dates: `find_candidates` skips
a candidate without `published_at` (`:167`), while an article without one may still match
others. `NoLostStory` is therefore about the stories all of whose members are matched back
by what they match (`MatchedBack`), and so is its theorem, which assumes nothing of
`Similar`. The instance's `Similar` is symmetric, so that there every story is one of these.
The other safety properties and the refinement are about all stories.

**Model-checked only.** `EventuallyAnnounced`, which is liveness.

## CveRefresh

**State.** `nvd` is what NVD serves (versions are instants; `Modify` advances
`clock`); `present`, `lmd`, `score`, `cwes`, `matches`, `notFound` are the CVE nodes;
`locker` their locks; `watermark` the stored `last_success_at`, `windowEnd` the
captured instant. `rescored` and `rematched` are what L4 and the asset matcher
have been told; `missed` names the CVEs a failure left to the sweeps, `orphaned` those
nobody will enrich before NVD modifies them again: stubs whose one enrichment failed, and
stubs an article made.

**Actions.** `PollStart`, `PollFetch`, `Skip`, `PollDone` are `poll_nvd_delta` and its
handler; `Look`, `Reference` a feed's lazy creation; `ResolveCve` the stub that Resolution
makes of a CVE an article names; `Backfill`, `EnrichFetch`,
`EnrichDone` the other callers of `enrich_cve`; `Begin` and `Commit` are
`_apply_cve_tx`, split where the lock has been taken and the node read, `Publish` the
announcements after it. `Crash` may fall anywhere.

**Abstractions.** A feed run and the backfill take one CVE at a time. The answer is
complete (no paging). `ScoreAfter` is last-write-wins as the code documents. The first
poll's 24 h lookback, HTTP error classes, reference URLs and vendor edges are left out.

**Two creators.** A feed that makes a CVE enriches it at once, and only then: a CVE it finds
existing it leaves alone. `resolve_cve` makes the CVE an article names and sets
`enrichment_pending` "for L1's trigger to pick up" (`nlp/resolution/deterministic.py:12`);
there is no such trigger, as `nvd_backfill.py:3` says. Such a stub then stands in the way of
every feed. It is enriched when NVD modifies the CVE, since the poll takes every change
of a CVE the graph knows, or when an operator runs the backfill.

**Runs.** `cve_refresh`: a new and a legacy CVE (one enriched before CPEMatch nodes
existed), the poller and one enricher or backfill, articles that may name the new CVE at
any time, three versions (a score that rises and then is absent, a weakness dropped,
platforms that come, all go and come back as another), one crash. 1,028,235
states. Two writers suffice for what a run writes after another read; that two feeds take
one CVE for newly created at once (`ghsa.py:141`) is left to `EveryChangeAnnounced`, which
is for any number. `cve_refresh_dropped`: what happens where a version drops every
configuration; see Findings.

**MATCHES.** `MatchesMatchWatermark` is what the code says and the finding refutes.
What holds, and what the passing run checks on versions that do drop everything, is
`MatchesMatchUnlessDropped`: the edges are those of the version recorded, and only
where that has none they may be those of one older version, never a mixture.

**Fairness.** `SF` of the poller: EventBridge starts it again and again, and Neo4j hands a
lock to who waits for it, so that an operator who runs the backfill over and over cannot
keep the poll from a node. `WF` of an enricher's steps once it has started; nothing starts
one. `KnownCvesCatchUp` holds under it except for what is `orphaned`, which ends with the
CVE's next modification.

**Proved** (`CveRefreshProofs`), for every set of CVEs and enrichers, every content
and any number of crashes: `TypeOK`, `CategoriesMatchWatermark`, `WatermarksAdvance`,
`ChangesAnnounced`, and `MatchesMatchUnlessDropped`. The inductive invariant is

    Inv == TypeOK /\ RunsOK /\ WindowOK

`RunsOK`: a run that decides over a CVE has seen its current `lmd`, because it holds
the lock; with it the freshness comparison is against the stored version, so a commit
advances `lmd` or leaves it. `WindowOK`: the watermark is at most the window's end,
which is at most the clock. `PayloadOK` adds that no window reaches back before the first
version and that every payload is of a version NVD has served. `ChangesAnnounced`
is proved from the invariant that every single score and every single match of a CVE
has been told or is in the news of some run at the CVE: a commit decides under the lock
over what it has read there, so its news are exactly what it changed, and a run that
drops its news counts the CVE as missed. `KnownCvesCatchUp` is model-checked only.

## AssertionEdge

**State.** `edge` is the relationship; `queue` the story-clusters messages; `locker`
the endpoints' locks; per writer `pc`, the message, the time it will stamp, the edge
it has read and the outcome; `sweep` the confidence a decay page has computed.

**Actions.** `Receive`, `Open` (`_existing`: lock, read), `WriteInferred`
(`upsert_inferred_assertion`: `Fold` a new story or `Confirm` one already counted),
`Publish`, `Acknowledge` follow `_process_story_cluster`; `FeedAsserts`, `Open`,
`WriteAuthoritative` the feeds; `DecayScan`, `DecayWrite` are `decay_edges_batch`, split
because it holds no endpoint lock; `Tick` lets days pass; `Crash` ends an invocation.

**Abstractions.** Confidences are on the scale -log(1-x), on which the code's noisy-OR
is addition and `max` is `max`, up to a `Ceiling` that stands for 1: the code's doubles
reach it and stay there, so the addition saturates. Decay is any function that leaves
day 0 alone, never increases with age and is monotone. One edge and one message per
edge: relation extraction, the cache and the mapping to edge types decide which messages
those are. Which ids the cap keeps depends on their order in the message, hence
`CappedIds` is a set of outcomes.

**Runs.** `assertion_edge`: story s1 emitted twice (one article, then three, stronger),
s2 sharing its first article, a cap of 2, two workers, two feeds of different
credibility, one crash, no passing days, a `Ceiling` of 3, which the sum of both stories
reaches; 1,863,672 states up to symmetry. That is enough for every order of two
emissions and a third contributor, the count at and beyond the cap, and a redelivery
after each step. `assertion_edge_live`: one worker, one feed, two days, a `Ceiling` of
2, `ConfidenceSettles` under fairness; 162,750 states: SQS redelivers (`WF`), the sweep
runs every day (`WF`), a writer waiting for the endpoints' locks gets them although
others keep taking them (`SF`: Neo4j queues lock waiters).

**Proved** (`AssertionEdgeProofs`), for any messages, workers, feeds, cap, ceiling and
decay within the bounds: `TypeOK`, `CountExactBelowCap`, `NewStoriesSpike` and
`StoriesCountOnce`. The inductive invariant is

    Inv == TypeInv /\ SeenCurrent /\ Folded /\ Acknowledged /\ Counted /\ CountInv

`SeenCurrent`: a writer that holds the locks has read the evidence (everything but the
derived confidence) as it is, since only the sweep writes without them and it writes
nothing else. So a story is folded in at most once: a second emission or a redelivery
finds it in the list and confirms. `Folded` and `Acknowledged`: a message is deleted
only after its story is on the edge. `Counted`: the inferred confidence is a running
total over the stories with one strength each. The fold that `StoriesCountOnce` sums
with is a recursive function on finite sets, so the proof goes by a total that satisfies
the recursion whichever story comes last: the fold equals any such total
(`FoldIsTotal`), and a total extends by one story (`TotalsExtend`). `CountInv` counts
with the cardinality theorems of the library.

**Where words and code differ.** Three sentences of the code are stronger than what it
does. A story that is emitted again, grown, leaves `supporting_article_count` alone
(`assertion_edges.py:177`), so the count may stay below the articles of its stories,
while the comment at `:203` says it "never undercounts": `CountExactBelowCap` counts
what was folded in and does not notice. A decay write that was computed before an
upsert and lands after it lowers the stored confidence until the next sweep
(`confidence.py:215`), while the docstring (`:8`) says decay "needs no lock":
`ConfidenceSettles` shows that the sweep repairs it. The third is in the next section.

## NodeConfidence

**State.** `scores` is the node's pair of parallel lists as one function, `Absent`
where a story is not listed; `locker` its lock. `key` is what
`coalesce(a.story_cluster_id, a.source_guid_key)` yields for each article and belongs
to Dedup; `mentioned` are the MENTIONS edges; `deliveries` counts how often each was
announced to an invocation. Per invocation `pc`, the article, the story it was in when
the mention's context was read, and the lists read under the lock; `seenKeys` is what
the sweep's rebuild has read. `countedAs` is history: under which stories each article
was counted.

**Actions.** `Context`, `Lock`, `Refine` are `refine_from_mention` and
`refine_provisional_confidence`, split at the unlocked read of the context and at the
lock; `RescanRead`, `RescanWrite` are `_CONFIDENCE_WRITE`, split because the evidence it
reads is not under the node's lock except for the edges themselves. `Gather` is Dedup's
commit (`Clustering` models how it gets there), `Mention` Resolution's edge. Resolution
announces a mention before it hands the article to Dedup, so being counted under its
own id is an article's normal course.

**Abstractions.** One node, and an article is extracted once, so its contribution is a
constant. Scores are on the scale -log(1-x); `confidence` is derived from the lists and
written with them in one SET, so it is not a variable. An announcement may
be handled at any time after the edge is committed, up to `MaxDeliveries` times,
concurrently, or not at all: this stands for SNS, retries and failures alike. The
rebuild reads all stories at one instant; one that fails rolls back and is as if it had
not begun. Promotion and merging of the node, retracted
edges (only deterministic entities lose any) and lists of unequal length are left out.

**Runs.** `node_confidence`: two mentions of different weight, two uuids (so a story can
be minted and then merged into another), two invocations and the sweep, two deliveries
each; 89,519 states. Two articles suffice for a score to be raised, for a redelivery
to race it and for their stories to become one under each of the steps.
A mention handled before its article is clustered is counted under the article's id
(`confidence.py:62`) and stays so: handled again, or joined by another mention of the
story, the story counts twice. The docstring (`:326`) says the rescan of "a node whose
events all landed is a no-op"; it is what puts this right, which `EvidenceWins` shows.

**Fairness.** `WF` of the sweep, which runs every day, and of the steps of an invocation
that has started. `EvidenceWins` needs nothing from Dedup, Resolution or SNS.

**Proved** (`NodeConfidenceProofs`), for every set of articles, handlers and
contributions: `TypeOK`, `OrderIndependent`, `OnlyTheSweepLowers`. The inductive
invariant is

    Inv == TypeOK /\ LocalsOK /\ OrderIndependent

where `LocalsOK` says what an invocation that has begun knows: an article and the story
it was then in. `TypeOK` holds the heart of it: who is about to write has the lock and
what it has read is still there, so `Refined` computes the maximum of what is stored
and what is new. That the rebuild's maximum exists is a lemma over bounded sets of
naturals, from the library's well-foundedness of the naturals. `EvidenceWins` is
model-checked only.

## CveScoring

**State.** `facts` are what severity is computed from (base score, EPSS, the KEV flag,
the number of EXPLOITED_BY edges), `credible` the best source that mentions the CVE;
`severity`, `relevance` and `clock` (`last_significant_event`) are the stored scores;
`inbox` the announcements on their way, `locker` the node's lock. Per process `pc`, the
announcement, and what it has read. `heard` is history: the instants of handled news.

**Actions.** `NvdScores`, `KevLists`, `EpssRefresh`, `Assert`, `Mention` are the writers of
the facts, each with the announcement its code makes, or loses. `Take`, `ReadFacts`,
`WriteSeverity`, `Open`, `Weigh`, `Rank`, `Finish` are the event handler: `score_cve` reads
and writes without a lock, so it is two steps; `_score_endpoint` stamps the clock first,
which locks the node until the commit, so `Open` takes the lock if the announcement is
news. `Scan` starts the sweep's two phases over the CVE with the same steps. `Fail` rolls
a transaction back, `Lose` is SNS giving up.

**Abstractions.** Percentages are integers and a score is in hundredths of one; the
formula is `severity()` term by term. Relevance is represented by what it is computed
from; age enters as the clock. Handlers that score the other endpoint are other nodes.

**Runs.** `cve_scoring`: two handlers and the sweep, base scores on both sides of the
KEV floor, the knobs of `config/scoring.yaml`, two changes of the facts, one failure;
775,644 states. Two changes and three processes are the least with which an older
recomputation lands after a newer one while a third holds the lock.

**Fairness.** `WF` of `Scan` (the state machine starts the sweep daily and retries a
phase) and of each process's steps. Nothing makes SNS deliver, so that
`ScoresSettle` rests on the sweep alone, as the handler's docstring says.

**Proved** (`CveScoringProofs`), for every set of handlers, scores and knobs within the
assumptions: `TypeOK`, `ClockIsLatestNews`, `EvidenceNeverLowers`. The invariant adds to
`TypeOK` that there are no more exploiters than changes. `ClockIsLatestNews` holds
because who works on news holds the lock from the read of the old clock to the write.
`EvidenceNeverLowers` is the monotonicity of the formula in each fact; the floor must
bound the weighted sum as well as stand in for it, or a base score would lower what KEV
raised. `ScoresSettle` is model-checked only.

## FeedPipeline

**State.** `published` is the item as its feed shows it, `fingerprint` what DedupState
remembers, `discovered`, `announced`, `mentioned` the messages on their three hops,
`article`, `nodes`, `mentions` the graph, `handed` the versions sent to Dedup; `poller`,
`fetcher`, `resolver` the invocations. `overlapped` and `lost` are history: that two
versions or texts were under way at a time, and that a message was given up.

**Actions.** `Poll`, `SendItem`, `PutFingerprint` are the poller; `TakeItem`, `FetchPage` (the
page as it is by then, or the feed's summary), `MergeArticle`, `AnnounceArticle`, `AckItem`
extraction; `ExtractMentions` the NLP step; `TakeMentions`, `ResolveCode`, `ReadIndex`,
`LinkName`, `Retract`, `SendArticle`, `AckMentions` resolution, one transaction a step.
`DeadLetterName` is what happens to a name whose key belongs to a node of the other label:
the endpoint is not found however often it is tried. `PollerFails`, `FetcherFails`,
`ResolverFails`, `GiveUp` fail an invocation or lose a message anywhere.

**Abstractions.** One item of one feed. What a text names is a constant, which of its
names the LLM finds is not; names that fuzzy matching or the LLM take for the same
have the same `Key`. Two texts of one version (page and summary) may be under way at
once, which counts as overlap. Source health, poll outcomes and parsing are left out.

**Runs.** `feed_pipeline`: two versions, one of whose techniques is imported at some
time, a name that is a group in one and malware in the other, two resolvers, one
failure; 764,824 states. Two versions are what it takes for one to overtake the other.

**What the properties leave out.** Each is exact about what it excepts. `StoredAsPublished`
excepts items of which two versions or texts were under way at a time (`overlapped`): then
the older version may be the one stored (`extraction.py:151`), and two resolutions may each
retract what only the other's text names (`resolution/handler.py:82`). `NeverForgets` has no
such exception, and is about the links that every text asks for. `LatestHandedOn` excepts
what was dead-lettered or lost: that a name whose key belongs to the other label takes the
message of its article with it is what the code does (`fuzzy.py:221`).

**Fairness.** `WF` of any progress: nothing but the bounded failures undoes anything, so
it is enough that somebody moves on.

**Proved** (`FeedPipelineProofs`), for any number of versions, invocations, failures,
codes and names, whatever the texts name: `TypeOK`, `NeverForgets` and
`StoredAsPublished`. There are two invariants. The first holds whatever happens,

    Typed == TypeOK /\ PollerOK /\ FetchersOK /\ ResolversOK

and is what types already need: a page is no older than the message that led to it
(`FetchersOK`), and what a resolution has kept and has still to do are of its text and
leave out no code of it (`ResolversOK`). When nothing is left to do, what it keeps
contains every code that all texts name, which is `NeverForgets`. The second holds as
long as nothing overlapped and nothing was lost:

    Careful == OneItem /\ OneText /\ Written /\ Linked /\ Calmed

`OneItem`, `OneText`: there is one version in the discovery queue, one invocation at it,
one text announced or later, each message at one resolver. `Written`: an extraction past
its merge finds the Article as it left it. `Linked`: resolutions at a time are of one text,
so none links or retracts anything the others would not. `Calmed`: once no item waits
to be extracted, the Article is at least as new as the fingerprint and as what the
poller is about to remember, and its text is the one under way or the one linked; or
nothing has ever been announced. At rest this is `StoredAsPublished`.
`LatestHandedOn` is model-checked only.

## Export

**State.** `version` are an object's writes; `faded` the relations that have decayed below
any floor, `strict` which of its two values the floor has, `Weak` the objects scored
between them; `updated` is `last_updated`; `exported` and `revoked` the flags; `events`
announcements in flight, `stamper` the watermark invocation, `sweep` the withdrawal phase,
`poll` the poll: its step, how many pages it has read, the ids up to its cursor, what it
has found and has yet to mark. `held` are the client's copies. Instants are told apart by
the client's cursor only: before it, after it, after the start of the poll that is running.
Two variables are history: `gap`, the objects whose date was left behind a cursor, and
`missed`, the rows that the client's answers left beyond their last page.

**Actions.** `Write`, `Decay` and `MoveFloor` change what there is to export, with the
announcements the code makes. `ReceiveEvent` and `Stamp` are the watermark handler,
`SweepStart` and `SweepRevoke` the withdrawal phase (it takes the time and the floor first).
`PollStart`, `ReadPage`, `MarkExported`, `Answer` are the objects query: nodes, relations,
reports (a scan of nodes of all kinds at floor 0, of which the articles are kept),
revocations; each page of `Batch` rows in elementId order in a transaction of its own, at
most `MaxPages` of a kind. `PollFails` is a request that dies: objects may be marked that
nobody was served.

**The limit.** The code's loops end after 100 pages of 100 rows (`taxii_handler.py:85`,
`105`, `131`, `157`), and the answer says `"more": False` (`:193`). So a client that
polls everything sees the 10,000 lowest elementIds of a kind and an incremental one the
10,000 lowest of what is new to it; the next cursor is behind the rest. Nothing clears
`revoked`, so revoked rows only accumulate, the articles of the finding below among
them, and displace later revocations. The model has the limit as a parameter and the
instance one row: dropping the exceptions for it (`missed`, `CrowdedOut`) has TLC
refute `UpToDate` and `Withdrawn` in the same instance.

**What changes the gate.** Of the nodes only provisional ones have a confidence that
changes and may be flagged for pruning, and these are never exported; a relation decays,
and regains its confidence by a write. A node that is exported comes to be below the floor
when the floor is raised, and is above it again when that is lowered: the knob
`export_confidence_floor` reaches the sweep and the query with a deployment. The model has
it change for both at once; that `config.py` caches what a container has read, so that
one may go on with the old value, is modelled no further than a poll or a sweep that
took the floor before the change.

**Abstractions.** STIX ids are the objects. A sweep page holds every exported node: the
phase is called with its cursor until no page is left, so nothing is cut off there. Merge
tombstones are left out: nothing in the package runs a merge.

**Runs.** `export`: two nodes of which an answer holds one, a relation, two changes, one
fault (an announcement lost or repeated, or a poll failed), a client that polls everything
and one that asks by `added_after`; 626,011 states. Two changes are the least for a node to
sink and recover around a withdrawal, two nodes the least for one to displace the other.
`export_reports`: see Findings.

**What the properties leave out.** `UpToDate` and `Withdrawn` except the objects in
`gap`: those announced by an instant that a client's cursor has passed by the time it
is stored (`watermark_handler.py:26`, `queries.py:28`), those whose announcement was
lost, and those that came above the floor without one. The code misses them until they
are written again. Both except the rows beyond the limit: `UpToDate` those that the
client's last answer on them left, `Withdrawn` for a client that polls everything the
revocations with as many revoked rows before them as an answer holds. Everything else,
which is the order of the handlers and of the pages of a poll against the sweep, they
are about.

**Fairness.** `WF` of the sweep, which runs daily, and of the polls: a client that learns
nothing because it stopped asking is not what `Withdrawn` is about. Nothing is assumed of
the announcements.

**Proved** (`ExportProofs`), for all objects, any size and number of pages, any number of
changes and faults: `TypeOK`, `RevocationIsFinal` and `UpToDate`. The inductive invariant is

    Inv == TypeOK /\ Numbered /\ Dates /\ GoneStays

`GoneStays`: what the client was told is gone is revoked, and the answer under way says
nothing else of it, because the pages of objects leave out what is revoked and the pages
of revocations, read last, replace what the earlier ones found. It rests on nothing ever
clearing `revoked`. `Dates`: time passes in steps of the client's polls, so between two
polls nothing is dated in between. `UpToDate` needs a case for every place a date may be
between a write and a cursor:

    Owed == DatedNew /\ FloorMoved /\ AllCovered

`AllCovered`: an object that passes the gate and is not in `gap` is announced or being
dated, has a date the next poll will see, or is covered: the client has its version or an
answer left it, or the poll under way has found it, has left it, or will come to it, its
elementId being beyond the cursor (`BeyondTheCursor`: what matches a page's query and is
not in the page has a higher id than all of it). `DatedNew`: what is announced of such an
object is dated after the cursor. `FloorMoved`: a poll that started under the higher floor
and finds it lowered reads less than passes by then, and what it lacks is in `gap`.
`Withdrawn` is model-checked only, being liveness.

## AssetMatching

**State.** `assets`, `matches` (MATCHES), `range` (a CPEMatch's properties), `affects`
(AFFECTS); `events` the criteria announced; `matcher` the invocations of the API and of the
event handler with the rows they have read; `sweep` the daily one. `silent` is history:
pairs that nobody was told of in time.

**Actions.** `Resync` is the NVD refresh's `resync_matches` with its announcement or without.
`CreateAsset`, `MatchAsset`, `WriteEdges` the API's two transactions, the second split at its
read; `ReceiveEvent`, `WriteEdges` the event handler; `DeleteAsset`; `MatcherFails` a failed
invocation, whose event comes again or is given up. `SweepPage`, `SweepCandidates`,
`SweepExisting` are the sweep's three reads, each in a transaction, `SweepWrite` and
`SweepDelete` its chunks one row at a time, `SweepFails` a timeout between two of them.

**Abstractions.** One vendor and product. Versions are an order; the code compares
components that are not numbers by a heuristic. `Satisfies` is `version_satisfies`.

**Runs.** `asset_matching`: two CVEs that share a match whose range changes, two assets of
which a page of one shows the first, two invocations, two changes, one failure; 482,331
states. Two CVEs are needed for a shared match, two invocations and the sweep for
each pair of writers to interleave.

**What the properties leave out.** `Prompt` excepts `silent` pairs: changes that nobody
announced, calls that failed or were given up, and an edge that the sweep had found
unjustified before it became justified and deletes afterwards
(`assets/sweep_handler.py:153`). All these are left to the next sweep, which
`AffectsSettle` is about. That property speaks of the first page of assets, the only
one the schedule ever reaches (`sweep_handler.py:172`).

**Fairness.** `WF` of the sweep, which is scheduled daily. `AffectsSettle` needs no event.

**Proved** (`AssetMatchingProofs`), for all CVEs, matches, ranges and assets: `TypeOK`, which
says that no edge outlives its asset, and `Prompt`. The inductive invariant is

    Inv == TypeOK /\ Promised /\ SweepOK /\ CreatedOK

`Promised`: an edge that should be there and is not is announced, owed by an invocation
that has the asset or a row of the match in hand, or excused. `SweepOK`: what the sweep
will delete was not justified when it read the candidates, so that a deletion of what
has become justified since is excused. `AffectsSettle` is model-checked only.

## Findings

Each is a run that TLC finds violated; the property states what the code's own text says.

* `cve_refresh_dropped`: `nvd.py:302` re-syncs MATCHES when they are missing whatever
  the payload's age, so a slow run puts back edges that a newer version dropped; the
  docstring (`nvd.py:238`) says re-sync is skipped when the payload is not newer.
* `export_reports`: `withdrawal.py:42` lists Article among the labels the withdrawal
  phase scans. No writer gives an Article a confidence and the scan counts a missing
  one as 0, so the first sweep after a client was served a report revokes it. The
  objects query says "Articles aren't score-gated" (`taxii_handler.py:134`).

More that modelling brought up, for which the code promises nothing else or which its
own comments know of:

* the asset sweep is scheduled without a cursor (`infra/stacks/assets_stack.py:92`) and
  nobody passes on the one it returns, so assets beyond the first page are never
  reconciled (`AffectsSettle` speaks of the first page only);
* a relation, once exported, is never withdrawn, because the phase scans nodes
  (`Withdrawn` speaks of nodes only);
* an answer of the objects query ends after 100 pages of a kind and says there is no more
  (`UpToDate` and `Withdrawn` except the rows it left);
* a CVE first named by an article is enriched by no feed (`KnownCvesCatchUp` excepts it
  until NVD modifies it or an operator runs the backfill);
* where a match is one-sided, a redelivered article may join stories that nobody announces
  (`NoLostStory` is about the others).

## What is out of reach

Every invariant and every action property of a passing run is the subject of a theorem.
What stays with TLC is liveness under fairness, and ENABLED, which the prover does not
handle: `EventuallyAnnounced`, `KnownCvesCatchUp`, `ConfidenceSettles`, `EvidenceWins`,
`ScoresSettle`, `LatestHandedOn`, `Withdrawn`, `AffectsSettle`; and the two properties
that the runs of the findings violate. Induction over data is out of reach as well: where
a fold is involved (`StoriesCountOnce`) the proof is about any function that satisfies
its recursion, one step at a time.

## Not modelled

* Text similarity, regular expressions, LLM prompts and answers, HTTP, STIX layout and
  the user interface: what they return is a constant or a nondeterministic choice.
* `collection/stix/attck_sync.py`, `source_config`: a single sequential importer each,
  with one idempotent upsert per object.
* `nlp/resolution/reconciliation.py`, `cleanup.py`, `interop/merge_tombstone.py`: nothing in
  the package starts a merge or a deletion, so there is no behaviour to interleave.
* `delivery/queries.py` and the other read-only handlers: no state.
* `nlp/inference/re_cache.py`: a story's relations are what its message carries. A cache
  entry is keyed by the representative's text, so which relations a grown story yields is
  a question about data.
* NVD's paging, indicators of abuse.ch and OTX, GHSA's own fields, prune flags.
* `infra`, `frontend`: deployment; limits and schedules are constants and fairness here.

## Plan

What is left, most important first:

1. Refinements to state and prove beyond `ImplementsPartition`: an edge as the set of
   stories folded into it, a score as the maximum of what was counted.
2. Safety halves of the liveness properties, as lemmas: that each step a progress
   argument needs never undoes what an earlier one did (the sweep of `CveScoring` and
   of `NodeConfidence` first).
3. `Clustering` and `AssertionEdge` in one state space (a story bridged after its parts
   have contributed to an edge): so far `NodeConfidence` shows the like for a node.
