---------------------------- MODULE FeedPipeline ----------------------------
(***************************************************************************)
(* One item of one feed on its way into the graph.  The poller compares    *)
(* the item with the fingerprint it has stored and sends what is new; an   *)
(* extraction invocation fetches the page, writes the Article and          *)
(* announces it; NLP extraction turns the announcement into the mentions   *)
(* of its text; a resolution invocation links the Article to the entities  *)
(* it mentions, one transaction each, retracts the links of earlier texts  *)
(* and hands the Article to Dedup.  Every hand-over is at least once and   *)
(* in any order, every invocation may fail between two steps, and the item *)
(* changes meanwhile.                                                      *)
(*                                                                         *)
(* Another item shares nothing with this one but the entities.  What a     *)
(* text names is a constant; which of its names the LLM finds is not.      *)
(*                                                                         *)
(* A definition marked "Mistake" is a plausible bug; the mutation runs put *)
(* it in place of the definition after it, to show a property notices.     *)
(***************************************************************************)
EXTENDS Naturals, FiniteSets

CONSTANTS
    MaxVersion,    \* bound: how often the item is published or changed
    Fetchers,      \* concurrent extraction invocations
    Resolvers,     \* concurrent resolution invocations
    Codes,         \* CVEs and IOCs: a mention creates what it names
    Techniques,    \* ATT&CK techniques: linked only if already known
    Names,         \* threat actors and malware families, by name and label
    Key,           \* the merge key of a name: two labels may share one
    Named,         \* what a text names
    None,          \* no text, no message
    MaxFails       \* bound: failed invocations and repeated deliveries

Deterministic == Codes \cup Techniques
Entities == Deterministic \cup Names
Versions == 1..MaxVersion
\* The page as it was at some version, or the summary the feed gave with it.
Texts == [version : Versions, of : {"page", "summary"}]
\* What NLP found in a text: its names are the LLM's, its codes always the same.
RawMentions == [text : Texts, names : SUBSET Names]
Articles == [title : Versions, text : Texts]

ASSUME BoundsAssumption == MaxVersion \in Nat \ {0} /\ MaxFails \in Nat
ASSUME EntitiesAssumption ==
    Codes \cap Techniques = {} /\ Deterministic \cap Names = {}
ASSUME TextsAssumption ==
    /\ Named \in [Texts -> SUBSET Entities]
    /\ None \notin Texts \cup RawMentions \cup Articles

VARIABLES
    published,    \* the version of the item its feed and its page show
    fingerprint,  \* of the version DedupState remembers, 0: none
    poller,       \* what the poller is about to do, with which version
    discovered,   \* versions in the discovery queue
    fetcher,      \* the extraction invocations
    article,      \* the Article node
    announced,    \* texts announced on graph-writes
    mentioned,    \* messages in the RawMentions queue
    resolver,     \* the resolution invocations
    nodes,        \* the techniques and names that have a node
    mentions,     \* what the Article has a MENTIONS edge to
    handed,       \* versions sent on to Dedup
    fails,        \* bounded by MaxFails
    overlapped,   \* history: two versions or texts were under way at a time
    lost          \* history: a message was dead-lettered or given up

pollVars == <<fingerprint, poller>>
graphVars == <<article, nodes, mentions>>
history == <<handed, overlapped, lost>>
vars == <<published, pollVars, discovered, fetcher, graphVars, announced,
          mentioned, resolver, fails, history>>

Idle == [at |-> "idle", version |-> 0]
NotFetching == [at |-> "idle", version |-> 0, text |-> None]
NotResolving == [at |-> "idle", message |-> None, todo |-> {}, keep |-> {},
                 index |-> {}]

Init ==
    /\ published = 0
    /\ fingerprint = 0
    /\ poller = Idle
    /\ discovered = {}
    /\ fetcher = [f \in Fetchers |-> NotFetching]
    /\ article = None
    /\ announced = {}
    /\ mentioned = {}
    /\ resolver = [r \in Resolvers |-> NotResolving]
    /\ nodes = {}
    /\ mentions = {}
    /\ handed = {}
    /\ fails = 0
    /\ overlapped = FALSE
    /\ lost = FALSE

(***************************************************************************)
(* Outside: the feed, and the import of ATT&CK.                            *)
(***************************************************************************)
PublishItem ==
    /\ published < MaxVersion
    /\ published' = published + 1
    /\ UNCHANGED <<pollVars, discovered, fetcher, graphVars, announced,
                   mentioned, resolver, fails, history>>

ImportTechnique ==
    /\ \E t \in Techniques \ nodes : nodes' = nodes \cup {t}
    /\ UNCHANGED <<published, pollVars, discovered, fetcher, article, mentions,
                   announced, mentioned, resolver, fails, history>>

(***************************************************************************)
(* The poller, one invocation at a time.                                   *)
(***************************************************************************)
\* Mistake: the fingerprint is stored before the message is sent.
RememberedAtOnce(v) == v
(* Nothing is stored yet when the item is found changed.                   *)
Remembered(v) == fingerprint

(* The feed is fetched and the item's fingerprint is not the stored one.   *)
Poll ==
    /\ poller = Idle
    /\ published # fingerprint
    /\ poller' = [at |-> "send", version |-> published]
    /\ fingerprint' = Remembered(published)
    /\ UNCHANGED <<published, discovered, fetcher, graphVars, announced,
                   mentioned, resolver, fails, history>>

AnnouncedOrLater == announced \cup {m.text : m \in mentioned}
UnderWay == discovered # {} \/ AnnouncedOrLater # {}
OtherUnderWay(v) ==
    discovered \ {v} # {} \/ \E text \in AnnouncedOrLater : text.version # v

SendItem ==
    /\ poller.at = "send"
    /\ discovered' = discovered \cup {poller.version}
    /\ overlapped' = (overlapped \/ OtherUnderWay(poller.version))
    /\ poller' = [poller EXCEPT !.at = "put"]
    /\ UNCHANGED <<published, fingerprint, fetcher, graphVars, announced,
                   mentioned, resolver, fails, handed, lost>>

PutFingerprint ==
    /\ poller.at = "put"
    /\ fingerprint' = poller.version
    /\ poller' = Idle
    /\ UNCHANGED <<published, discovered, fetcher, graphVars, announced,
                   mentioned, resolver, fails, history>>

(***************************************************************************)
(* Extraction.                                                             *)
(***************************************************************************)
(* A message that is being worked on is invisible to the others.           *)
TakeItem(f) ==
    /\ fetcher[f] = NotFetching
    /\ \E v \in discovered \ {fetcher[g].version : g \in Fetchers} :
           fetcher' = [fetcher EXCEPT ![f] =
                           [at |-> "fetch", version |-> v, text |-> None]]
    /\ UNCHANGED <<published, pollVars, discovered, graphVars, announced,
                   mentioned, resolver, fails, history>>

(* The page as it is now, or after the last attempt the message's summary. *)
FetchPage(f) ==
    /\ fetcher[f].at = "fetch"
    /\ \E text \in {[version |-> published, of |-> "page"],
                    [version |-> fetcher[f].version, of |-> "summary"]} :
           fetcher' = [fetcher EXCEPT ![f].at = "merge", ![f].text = text]
    /\ UNCHANGED <<published, pollVars, discovered, graphVars, announced,
                   mentioned, resolver, fails, history>>

(* _merge_article_tx: the last writer's properties.                        *)
MergedFrom(f) == [title |-> fetcher[f].version, text |-> fetcher[f].text]

MergeArticle(f) ==
    /\ fetcher[f].at = "merge"
    /\ article' = MergedFrom(f)
    /\ fetcher' = [fetcher EXCEPT ![f].at = "announce"]
    /\ UNCHANGED <<published, pollVars, discovered, nodes, mentions, announced,
                   mentioned, resolver, fails, history>>

AnnounceArticle(f) ==
    /\ fetcher[f].at = "announce"
    /\ announced' = announced \cup {fetcher[f].text}
    /\ overlapped' = (overlapped \/ AnnouncedOrLater \ {fetcher[f].text} # {})
    /\ fetcher' = [fetcher EXCEPT ![f].at = "ack"]
    /\ UNCHANGED <<published, pollVars, discovered, graphVars, mentioned,
                   resolver, fails, handed, lost>>

AckItem(f) ==
    /\ fetcher[f].at = "ack"
    /\ discovered' = discovered \ {fetcher[f].version}
    /\ fetcher' = [fetcher EXCEPT ![f] = NotFetching]
    /\ UNCHANGED <<published, pollVars, graphVars, announced, mentioned,
                   resolver, fails, history>>

(* NLP extraction: the text's codes and techniques, and of its names what  *)
(* the LLM finds, which is nothing when it fails.                          *)
ExtractMentions ==
    /\ \E text \in announced, found \in SUBSET Names :
           /\ found \subseteq Named[text]
           /\ announced' = announced \ {text}
           /\ mentioned' = mentioned \cup {[text |-> text, names |-> found]}
    /\ UNCHANGED <<published, pollVars, discovered, fetcher, graphVars,
                   resolver, fails, history>>

(***************************************************************************)
(* Resolution.                                                             *)
(***************************************************************************)
TakeMentions(r) ==
    /\ resolver[r] = NotResolving
    /\ \E m \in mentioned \ {resolver[q].message : q \in Resolvers} :
           resolver' = [resolver EXCEPT ![r] =
               [NotResolving EXCEPT
                   !.at = "resolve", !.message = m,
                   !.todo = (Named[m.text] \cap Deterministic) \cup m.names]]
    /\ UNCHANGED <<published, pollVars, discovered, fetcher, graphVars,
                   announced, mentioned, fails, history>>

(* resolve_cve, resolve_ioc and resolve_ttp: a technique without a node is *)
(* rejected, everything else is linked and kept.                           *)
ResolveCode(r) ==
    /\ resolver[r].at = "resolve"
    /\ \E e \in resolver[r].todo \cap Deterministic :
           LET known == {e} \cap (Codes \cup nodes)
           IN  /\ mentions' = mentions \cup known
               /\ resolver' = [resolver EXCEPT ![r].todo = @ \ {e},
                                               ![r].keep = @ \cup known]
    /\ UNCHANGED <<published, pollVars, discovered, fetcher, article, nodes,
                   announced, mentioned, fails, history>>

(* build_alias_index, over both labels; names come after the codes.        *)
ReadIndex(r) ==
    /\ resolver[r].at = "resolve"
    /\ resolver[r].todo # {} /\ resolver[r].todo \subseteq Names
    /\ resolver' = [resolver EXCEPT
                       ![r].at = "link", ![r].index = {Key[n] : n \in nodes \cap Names}]
    /\ UNCHANGED <<published, pollVars, discovered, fetcher, graphVars,
                   announced, mentioned, fails, history>>

Linkable(r, n) == Key[n] \in resolver[r].index => n \in nodes

(* A key in the index is linked under the mention's own label, a new one   *)
(* becomes a provisional node.                                             *)
LinkName(r) ==
    /\ resolver[r].at = "link"
    /\ \E n \in resolver[r].todo :
           /\ Linkable(r, n)
           /\ nodes' = nodes \cup {n}
           /\ mentions' = mentions \cup {n}
           /\ resolver' = [resolver EXCEPT ![r].at = "resolve", ![r].index = {},
                                           ![r].todo = @ \ {n}]
    /\ UNCHANGED <<published, pollVars, discovered, fetcher, article,
                   announced, mentioned, fails, history>>

(* The key belongs to a node of the other label: the endpoint is not found *)
(* and the message fails whenever it is tried, until it is dead-lettered.  *)
DeadLetterName(r) ==
    /\ resolver[r].at = "link"
    /\ \E n \in resolver[r].todo : ~Linkable(r, n)
    /\ resolver' = [resolver EXCEPT ![r] = NotResolving]
    /\ mentioned' = mentioned \ {resolver[r].message}
    /\ lost' = TRUE
    /\ UNCHANGED <<published, pollVars, discovered, fetcher, graphVars,
                   announced, fails, handed, overlapped>>

\* Mistake: whatever this text does not name goes.
StaleAny(r) == mentions \ resolver[r].keep
\* Mistake: nothing is retracted.
StaleNone(r) == {}
(* _retract_stale_deterministic_mentions.                                  *)
Stale(r) == (mentions \cap Deterministic) \ resolver[r].keep

Retract(r) ==
    /\ resolver[r].at = "resolve"
    /\ resolver[r].todo = {}
    /\ mentions' = mentions \ Stale(r)
    /\ resolver' = [resolver EXCEPT ![r].at = "send"]
    /\ UNCHANGED <<published, pollVars, discovered, fetcher, article, nodes,
                   announced, mentioned, fails, history>>

SendArticle(r) ==
    /\ resolver[r].at = "send"
    /\ handed' = handed \cup {resolver[r].message.text.version}
    /\ resolver' = [resolver EXCEPT ![r].at = "ack"]
    /\ UNCHANGED <<published, pollVars, discovered, fetcher, graphVars,
                   announced, mentioned, fails, overlapped, lost>>

\* Mistake: the next message starts with what the last one kept.
Finished(r) == [NotResolving EXCEPT !.keep = resolver[r].keep]
(* The locals of an invocation end with it.                                *)
Ended(r) == NotResolving

AckMentions(r) ==
    /\ resolver[r].at = "ack"
    /\ mentioned' = mentioned \ {resolver[r].message}
    /\ resolver' = [resolver EXCEPT ![r] = Ended(r)]
    /\ UNCHANGED <<published, pollVars, discovered, fetcher, graphVars,
                   announced, fails, history>>

(***************************************************************************)
(* Failures.  A failed invocation's message is handed out again; failing   *)
(* at "ack" is a delivery too many.  A message that never gets through is  *)
(* dead-lettered, one SNS cannot deliver is given up.                      *)
(***************************************************************************)
Failing ==
    /\ fails < MaxFails
    /\ fails' = fails + 1
    /\ UNCHANGED <<published, fingerprint, graphVars>>

PollerFails ==
    /\ Failing
    /\ poller # Idle
    /\ poller' = Idle
    /\ UNCHANGED <<discovered, fetcher, announced, mentioned, resolver, history>>

FetcherFails(f) ==
    /\ Failing
    /\ fetcher[f] # NotFetching
    /\ fetcher' = [fetcher EXCEPT ![f] = NotFetching]
    /\ UNCHANGED <<poller, discovered, announced, mentioned, resolver, history>>

ResolverFails(r) ==
    /\ Failing
    /\ resolver[r] # NotResolving
    /\ resolver' = [resolver EXCEPT ![r] = NotResolving]
    /\ UNCHANGED <<poller, discovered, fetcher, announced, mentioned, history>>

GiveUp ==
    /\ Failing
    /\ \/ /\ \E v \in discovered : discovered' = discovered \ {v}
          /\ UNCHANGED <<announced, mentioned>>
       \/ /\ \E text \in announced : announced' = announced \ {text}
          /\ UNCHANGED <<discovered, mentioned>>
       \/ /\ \E m \in mentioned : mentioned' = mentioned \ {m}
          /\ UNCHANGED <<discovered, announced>>
    /\ lost' = TRUE
    /\ UNCHANGED <<poller, fetcher, resolver, handed, overlapped>>

(***************************************************************************)
(* Specification.                                                          *)
(***************************************************************************)
Polling == Poll \/ SendItem \/ PutFingerprint
Fetch(f) ==
    TakeItem(f) \/ FetchPage(f) \/ MergeArticle(f) \/ AnnounceArticle(f) \/ AckItem(f)
Resolve(r) ==
    \/ TakeMentions(r) \/ ResolveCode(r) \/ ReadIndex(r) \/ LinkName(r)
    \/ DeadLetterName(r) \/ Retract(r) \/ SendArticle(r) \/ AckMentions(r)

Progress ==
    \/ Polling \/ ExtractMentions
    \/ \E f \in Fetchers : Fetch(f)
    \/ \E r \in Resolvers : Resolve(r)

Next ==
    \/ PublishItem \/ ImportTechnique \/ Progress
    \/ PollerFails \/ GiveUp
    \/ \E f \in Fetchers : FetcherFails(f)
    \/ \E r \in Resolvers : ResolverFails(r)

Spec == Init /\ [][Next]_vars

(* The schedule starts the poller every ten minutes, queues and topics     *)
(* deliver, and invocations run to their end or fail.  As nothing but the  *)
(* bounded failures is ever undone, it is enough that somebody moves on.   *)
Fairness == WF_vars(Progress)
FairSpec == Spec /\ Fairness

-----------------------------------------------------------------------------
PollerStates == [at : {"idle", "send", "put"}, version : 0..MaxVersion]
FetcherStates == [at : {"idle", "fetch", "merge", "announce", "ack"},
                  version : 0..MaxVersion, text : Texts \cup {None}]
ResolverStates == [at : {"idle", "resolve", "link", "send", "ack"},
                   message : RawMentions \cup {None},
                   todo : SUBSET Entities, keep : SUBSET Deterministic,
                   index : SUBSET {Key[n] : n \in Names}]

TypeOK ==
    /\ published \in 0..MaxVersion
    /\ fingerprint \in 0..MaxVersion
    /\ poller \in PollerStates
    /\ discovered \subseteq Versions
    /\ fetcher \in [Fetchers -> FetcherStates]
    /\ article \in {None} \cup Articles
    /\ announced \subseteq Texts
    /\ mentioned \subseteq RawMentions
    /\ resolver \in [Resolvers -> ResolverStates]
    /\ nodes \subseteq Techniques \cup Names
    /\ mentions \subseteq Codes \cup nodes
    /\ handed \subseteq Versions
    /\ fails \in 0..MaxFails
    /\ overlapped \in BOOLEAN /\ lost \in BOOLEAN
    /\ \A r \in Resolvers : resolver[r].at = "idle" => resolver[r] = NotResolving

(* Once the Article mentions a name, or a code that every text of the item *)
(* names, no version, duplicate or concurrent retraction takes the edge    *)
(* away (resolution/handler.py: _retract_stale_deterministic_mentions).    *)
NeverForgets ==
    [][\A e \in mentions :
           e \in Names \/ (e \in Codes /\ \A text \in Texts : e \in Named[text])
           => e \in mentions']_vars

(* If no two versions or texts of it were under way at a time and no mess- *)
(* age was lost, then whatever failed, was repeated or was read from a     *)
(* page that had already changed, an item at rest is stored as published:  *)
(* its latest version, linked to the codes its text names and no others.   *)
AtRest == published # 0 /\ poller = Idle /\ fingerprint = published /\ ~UnderWay
StoredAsPublished ==
    AtRest /\ ~overlapped /\ ~lost =>
        /\ article.title = published /\ article.text.version = published
        /\ Named[article.text] \cap Codes \subseteq mentions
        /\ mentions \cap Deterministic \subseteq Named[article.text]

(* The version the feed ends with reaches Dedup, resolved, unless one of   *)
(* its messages was dead-lettered or given up.                             *)
LatestHandedOn ==
    <>[](published = 0 \/ lost \/ published \in handed)
=============================================================================
