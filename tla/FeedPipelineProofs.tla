------------------------- MODULE FeedPipelineProofs -------------------------
(***************************************************************************)
(* An item on its way into the graph: what every invocation holds has the  *)
(* right type, no edge the text keeps naming is ever retracted, and an     *)
(* item at rest is stored as published.                                    *)
(***************************************************************************)
EXTENDS FeedPipeline, TLAPS

Fetching(f) == fetcher[f].at # "idle"
Resolving(r) == resolver[r].at # "idle"

(* No component is ahead of the feed, and the poller never goes back.      *)
PollerOK ==
    /\ fingerprint <= published
    /\ poller.at = "idle" => poller = Idle
    /\ poller.at # "idle" => /\ poller.version \in 1..published
                             /\ fingerprint <= poller.version
    /\ \A v \in discovered : v <= published
    /\ \A text \in AnnouncedOrLater : text.version <= published

(* A page is never older than the message that led to it.                  *)
FetchersOK ==
    /\ \A f \in Fetchers :
        /\ Fetching(f) => fetcher[f].version \in 1..published
        /\ fetcher[f].at \in {"merge", "announce", "ack"} =>
              /\ fetcher[f].text \in Texts
              /\ fetcher[f].text.version \in fetcher[f].version..published
    /\ article # None => article.text.version \in article.title..published

(* What is resolved and what is still to resolve are of the message's text *)
(* and leave out no code of it.                                            *)
ResolversOK ==
    \A r \in Resolvers :
        Resolving(r) =>
            LET named == Named[resolver[r].message.text]
            IN  /\ resolver[r].message \in RawMentions
                /\ resolver[r].todo \cap Deterministic \subseteq named
                /\ resolver[r].keep \subseteq named
                /\ named \cap Codes \subseteq resolver[r].todo \cup resolver[r].keep
                /\ resolver[r].at = "link" => resolver[r].todo \subseteq Names
                /\ resolver[r].at \in {"send", "ack"} => resolver[r].todo = {}

Typed == TypeOK /\ PollerOK /\ FetchersOK /\ ResolversOK

-----------------------------------------------------------------------------
(* The records the invocations start from are of their types.              *)
LEMMA Starts ==
    /\ Idle \in PollerStates
    /\ NotFetching \in FetcherStates
    /\ NotResolving \in ResolverStates
<1>1. 0 \in 0..MaxVersion
  BY BoundsAssumption
<1>2. Idle \in PollerStates
  BY <1>1 DEF Idle, PollerStates
<1>3. NotFetching \in FetcherStates
  BY <1>1 DEF NotFetching, FetcherStates
<1>4. NotResolving \in ResolverStates
  BY DEF NotResolving, ResolverStates
<1> QED
  BY <1>2, <1>3, <1>4

(* Before the first poll nothing is held, queued or linked.                *)
LEMMA InitTyped == Init => Typed
<1> SUFFICES ASSUME Init PROVE Typed
  OBVIOUS
<1> USE BoundsAssumption
<1>1. TypeOK
  <2>1. fetcher \in [Fetchers -> FetcherStates]
    BY Starts DEF Init
  <2>2. resolver \in [Resolvers -> ResolverStates]
    BY Starts DEF Init
  <2>3. \A r \in Resolvers : resolver[r] = NotResolving
    BY DEF Init
  <2>4. /\ published \in 0..MaxVersion /\ fingerprint \in 0..MaxVersion
        /\ fails \in 0..MaxFails
    BY DEF Init
  <2>5. poller \in PollerStates /\ discovered \subseteq Versions
    BY Starts DEF Init
  <2> QED
    BY <2>1, <2>2, <2>3, <2>4, <2>5 DEF Init, TypeOK
<1>2. PollerOK
  BY DEF Init, PollerOK, Idle, AnnouncedOrLater
<1>3. FetchersOK
  BY DEF Init, FetchersOK, NotFetching, Fetching
<1>4. ResolversOK
  BY DEF Init, ResolversOK, NotResolving, Resolving
<1> QED
  BY <1>1, <1>2, <1>3, <1>4 DEF Typed

(* What a step is, with who takes it.                                      *)
LEMMA EveryStep ==
    ASSUME [Next]_vars
    PROVE  \/ PublishItem \/ ImportTechnique \/ Poll \/ SendItem \/ PutFingerprint
           \/ PollerFails \/ ExtractMentions \/ GiveUp \/ UNCHANGED vars
           \/ \E f \in Fetchers : \/ TakeItem(f) \/ FetchPage(f) \/ MergeArticle(f)
                                  \/ AnnounceArticle(f) \/ AckItem(f) \/ FetcherFails(f)
           \/ \E r \in Resolvers :
                 \/ TakeMentions(r) \/ ResolveCode(r) \/ ReadIndex(r) \/ LinkName(r)
                 \/ DeadLetterName(r) \/ Retract(r) \/ SendArticle(r) \/ AckMentions(r)
                 \/ ResolverFails(r)
  BY DEF Next, Progress, Polling, Fetch, Resolve

(* The steps outside extraction and resolution.                            *)
LEMMA TypeKeptOutside ==
    ASSUME Typed,
           \/ PublishItem \/ ImportTechnique \/ Poll \/ SendItem \/ PutFingerprint
           \/ PollerFails \/ ExtractMentions \/ GiveUp \/ UNCHANGED vars
    PROVE  TypeOK'
<1> USE BoundsAssumption
<1> USE DEF TypeOK, vars, pollVars, graphVars, history
<1>1. CASE PublishItem
  BY <1>1 DEF PublishItem, Typed
<1>2. CASE ImportTechnique
  BY <1>2 DEF ImportTechnique, Typed
<1>3. CASE Poll
  BY <1>3 DEF Poll, Remembered, PollerStates, Typed
<1>4. CASE SendItem
  BY <1>4 DEF SendItem, PollerStates, Versions, Typed, PollerOK
<1>5. CASE PutFingerprint
  BY <1>5, Starts DEF PutFingerprint, PollerStates, Typed
<1>6. CASE PollerFails
  BY <1>6, Starts DEF PollerFails, Failing, Typed
<1>7. CASE ExtractMentions
  BY <1>7 DEF ExtractMentions, RawMentions, Typed
<1>8. CASE GiveUp
  BY <1>8 DEF GiveUp, Failing, Typed
<1>9. CASE UNCHANGED vars
  BY <1>9 DEF Typed
<1> QED
  BY <1>1, <1>2, <1>3, <1>4, <1>5, <1>6, <1>7, <1>8, <1>9

(* The steps of an extraction invocation.                                  *)
LEMMA TypeKeptFetching ==
    ASSUME Typed, NEW f \in Fetchers,
           \/ TakeItem(f) \/ FetchPage(f) \/ MergeArticle(f)
           \/ AnnounceArticle(f) \/ AckItem(f) \/ FetcherFails(f)
    PROVE  TypeOK'
<1> USE BoundsAssumption
<1> USE DEF TypeOK, pollVars, graphVars, history
<1>1. \A s \in FetcherStates : [fetcher EXCEPT ![f] = s] \in [Fetchers -> FetcherStates]
  BY DEF Typed
<1>2. fetcher[f] \in FetcherStates
  BY DEF Typed
<1>3. CASE TakeItem(f)
  <2>1. PICK v \in discovered :
            fetcher' = [fetcher EXCEPT ![f] = [at |-> "fetch", version |-> v, text |-> None]]
    BY <1>3 DEF TakeItem
  <2> v \in 0..MaxVersion
    BY DEF Versions, Typed
  <2>2. [at |-> "fetch", version |-> v, text |-> None] \in FetcherStates
    BY DEF FetcherStates
  <2>3. fetcher' \in [Fetchers -> FetcherStates]
    BY <1>1, <2>1, <2>2
  <2> QED
    BY <1>3, <2>3 DEF TakeItem, Typed
<1>4. CASE FetchPage(f)
  <2>1. fetcher[f].version \in Versions /\ published \in Versions
    BY <1>4 DEF FetchPage, Typed, FetchersOK, Fetching, Versions
  <2>2. PICK text \in {[version |-> published, of |-> "page"],
                      [version |-> fetcher[f].version, of |-> "summary"]} :
            fetcher' = [fetcher EXCEPT ![f].at = "merge", ![f].text = text]
    BY <1>4 DEF FetchPage
  <2> DEFINE s == [fetcher[f] EXCEPT !.at = "merge", !.text = text]
  <2>3. fetcher' = [fetcher EXCEPT ![f] = s]
    BY <2>2
  <2> text \in Texts
    BY <2>1 DEF Texts
  <2>5. s \in FetcherStates
    BY <1>2 DEF FetcherStates
  <2>4. fetcher' \in [Fetchers -> FetcherStates]
    BY <1>1, <2>3, <2>5
  <2> QED
    BY <1>4, <2>4 DEF FetchPage, Typed
<1>5. CASE MergeArticle(f)
  <2>1. fetcher[f].version \in Versions /\ fetcher[f].text \in Texts
    BY <1>5 DEF MergeArticle, Typed, FetchersOK, Fetching, Versions
  <2>2. fetcher' \in [Fetchers -> FetcherStates]
    BY <1>2, <1>5 DEF MergeArticle, FetcherStates, Typed
  <2>3. article' \in Articles
    BY <1>5, <2>1 DEF MergeArticle, MergedFrom, Articles
  <2> QED
    BY <1>5, <2>2, <2>3 DEF MergeArticle, Typed
<1>6. CASE AnnounceArticle(f)
  <2>1. fetcher[f].text \in Texts
    BY <1>6 DEF AnnounceArticle, Typed, FetchersOK
  <2>2. fetcher' \in [Fetchers -> FetcherStates]
    BY <1>2, <1>6 DEF AnnounceArticle, FetcherStates, Typed
  <2> QED
    BY <1>6, <2>1, <2>2 DEF AnnounceArticle, Typed
<1>7. CASE AckItem(f)
  BY <1>1, <1>7, Starts DEF AckItem, Typed
<1>8. CASE FetcherFails(f)
  BY <1>1, <1>8, Starts DEF FetcherFails, Failing, Typed
<1> QED
  BY <1>3, <1>4, <1>5, <1>6, <1>7, <1>8

(* The steps of a resolution invocation.                                   *)
LEMMA TypeKeptResolving ==
    ASSUME Typed, NEW r \in Resolvers,
           \/ TakeMentions(r) \/ ResolveCode(r) \/ ReadIndex(r) \/ LinkName(r)
           \/ DeadLetterName(r) \/ Retract(r) \/ SendArticle(r) \/ AckMentions(r)
           \/ ResolverFails(r)
    PROVE  TypeOK'
<1> USE DEF pollVars, graphVars, history
<1>1. \A s \in ResolverStates :
          /\ [resolver EXCEPT ![r] = s] \in [Resolvers -> ResolverStates]
          /\ (s.at = "idle" => s = NotResolving) =>
             \A q \in Resolvers : [resolver EXCEPT ![r] = s][q].at = "idle"
                                     => [resolver EXCEPT ![r] = s][q] = NotResolving
  BY DEF Typed, TypeOK
<1>2. resolver[r] \in ResolverStates
  BY DEF Typed, TypeOK
<1>3. NotResolving \in ResolverStates
  BY Starts
<1>0. \A s \in ResolverStates :
           (s.at = "idle" => s = NotResolving) /\ resolver' = [resolver EXCEPT ![r] = s] =>
           /\ resolver' \in [Resolvers -> ResolverStates]
           /\ \A q \in Resolvers : resolver'[q].at = "idle" => resolver'[q] = NotResolving
  BY <1>1
<1>4. CASE TakeMentions(r)
  <2>1. PICK m \in mentioned : resolver' = [resolver EXCEPT ![r] =
               [NotResolving EXCEPT
                   !.at = "resolve", !.message = m,
                   !.todo = (Named[m.text] \cap Deterministic) \cup m.names]]
    BY <1>4 DEF TakeMentions
  <2> DEFINE s == [NotResolving EXCEPT
                   !.at = "resolve", !.message = m,
                   !.todo = (Named[m.text] \cap Deterministic) \cup m.names]
  <2>2. m \in RawMentions /\ m.names \subseteq Names
    BY DEF Typed, TypeOK, RawMentions
  <2>3. s \in ResolverStates /\ s.at = "resolve"
    BY <1>3, <2>2 DEF NotResolving, ResolverStates, Entities
  <2> HIDE DEF s
  <2> QED
    BY <1>1, <1>4, <2>1, <2>3 DEF TakeMentions, Typed, TypeOK, s
<1>5. CASE ResolveCode(r)
  <2>1. PICK e \in resolver[r].todo \cap Deterministic :
          /\ mentions' = mentions \cup ({e} \cap (Codes \cup nodes))
          /\ resolver' = [resolver EXCEPT
                ![r].todo = @ \ {e}, ![r].keep = @ \cup ({e} \cap (Codes \cup nodes))]
    BY <1>5 DEF ResolveCode
  <2> DEFINE s == [resolver[r] EXCEPT !.todo = @ \ {e},
                                      !.keep = @ \cup ({e} \cap (Codes \cup nodes))]
  <2>2. resolver' = [resolver EXCEPT ![r] = s]
    BY <2>1
  <2>3. s \in ResolverStates /\ s.at = "resolve"
    BY <1>2, <1>5 DEF ResolveCode, ResolverStates
  <2> HIDE DEF s
  <2>5. /\ resolver' \in [Resolvers -> ResolverStates]
        /\ \A q \in Resolvers : resolver'[q].at = "idle" => resolver'[q] = NotResolving
    BY <1>0, <2>2, <2>3
  <2> QED
    BY <1>5, <2>5, <2>1 DEF ResolveCode, Typed, TypeOK
<1>6. CASE ReadIndex(r)
  <2> DEFINE s == [resolver[r] EXCEPT !.at = "link", !.index = {Key[n] : n \in nodes \cap Names}]
  <2>1. resolver' = [resolver EXCEPT ![r] = s]
    BY <1>6 DEF ReadIndex
  <2>2. s \in ResolverStates /\ s.at = "link"
    BY <1>2 DEF ResolverStates
  <2> HIDE DEF s
  <2>5. /\ resolver' \in [Resolvers -> ResolverStates]
        /\ \A q \in Resolvers : resolver'[q].at = "idle" => resolver'[q] = NotResolving
    BY <1>0, <2>1, <2>2
  <2> QED
    BY <1>6, <2>5 DEF ReadIndex, Typed, TypeOK
<1>7. CASE LinkName(r)
  <2>1. PICK n \in resolver[r].todo :
          /\ nodes' = nodes \cup {n}
          /\ mentions' = mentions \cup {n}
          /\ resolver' = [resolver EXCEPT ![r].at = "resolve", ![r].index = {},
                                          ![r].todo = @ \ {n}]
    BY <1>7 DEF LinkName
  <2> DEFINE s == [resolver[r] EXCEPT !.at = "resolve", !.index = {}, !.todo = @ \ {n}]
  <2>2. resolver' = [resolver EXCEPT ![r] = s]
    BY <2>1
  <2>3. s \in ResolverStates /\ s.at = "resolve"
    BY <1>2 DEF ResolverStates
  <2>4. n \in Names
    BY <1>7 DEF LinkName, Typed, ResolversOK, Resolving
  <2> HIDE DEF s
  <2>5. /\ resolver' \in [Resolvers -> ResolverStates]
        /\ \A q \in Resolvers : resolver'[q].at = "idle" => resolver'[q] = NotResolving
    BY <1>0, <2>2, <2>3
  <2> QED
    BY <1>7, <2>5, <2>1, <2>4 DEF LinkName, Typed, TypeOK
<1>8. CASE DeadLetterName(r)
  BY <1>1, <1>3, <1>8 DEF DeadLetterName, Typed, TypeOK
<1>9. CASE Retract(r)
  <2> DEFINE s == [resolver[r] EXCEPT !.at = "send"]
  <2>1. resolver' = [resolver EXCEPT ![r] = s]
    BY <1>9 DEF Retract
  <2>2. s \in ResolverStates /\ s.at = "send"
    BY <1>2 DEF ResolverStates
  <2> HIDE DEF s
  <2> QED
    BY <1>1, <1>9, <2>1, <2>2 DEF Retract, Typed, TypeOK
<1>10. CASE SendArticle(r)
  <2> DEFINE s == [resolver[r] EXCEPT !.at = "ack"]
  <2>1. resolver' = [resolver EXCEPT ![r] = s]
    BY <1>10 DEF SendArticle
  <2>2. s \in ResolverStates /\ s.at = "ack"
    BY <1>2 DEF ResolverStates
  <2>3. resolver[r].message.text.version \in Versions
    BY <1>10 DEF SendArticle, Typed, ResolversOK, Resolving, RawMentions, Texts
  <2> HIDE DEF s
  <2> QED
    BY <1>1, <1>10, <2>1, <2>2, <2>3 DEF SendArticle, Typed, TypeOK
<1>11. CASE AckMentions(r)
  BY <1>1, <1>3, <1>11 DEF AckMentions, Ended, Typed, TypeOK
<1>12. CASE ResolverFails(r)
  BY <1>1, <1>3, <1>12, BoundsAssumption DEF ResolverFails, Failing, Typed, TypeOK
<1> QED
  BY <1>4, <1>5, <1>6, <1>7, <1>8, <1>9, <1>10, <1>11, <1>12

(* Every step keeps every variable of its type.                            *)
LEMMA TypeKept == ASSUME Typed, [Next]_vars PROVE TypeOK'
  BY EveryStep, TypeKeptOutside, TypeKeptFetching, TypeKeptResolving

(* What a step may add to the texts announced or later: only the text an   *)
(* extraction announces.                                                   *)
LEMMA AnnouncedByFetchers ==
    ASSUME Typed, [Next]_vars, NEW text \in AnnouncedOrLater'
    PROVE  \/ text \in AnnouncedOrLater
           \/ \E f \in Fetchers : AnnounceArticle(f) /\ text = fetcher[f].text
<1> USE DEF AnnouncedOrLater
<1>1. CASE \E f \in Fetchers : AnnounceArticle(f)
  BY <1>1 DEF AnnounceArticle
<1>2. CASE ExtractMentions
  BY <1>2 DEF ExtractMentions
<1>3. CASE GiveUp
  BY <1>3 DEF GiveUp
<1>4. CASE announced' = announced /\ mentioned' \subseteq mentioned
  BY <1>4
<1>5. \/ \E f \in Fetchers : AnnounceArticle(f)
      \/ ExtractMentions \/ GiveUp
      \/ announced' = announced /\ mentioned' \subseteq mentioned
  <2>1. CASE \E r \in Resolvers :
                 \/ TakeMentions(r) \/ ResolveCode(r) \/ ReadIndex(r) \/ LinkName(r)
                 \/ DeadLetterName(r) \/ Retract(r) \/ SendArticle(r) \/ AckMentions(r)
                 \/ ResolverFails(r)
    BY <2>1 DEF TakeMentions, ResolveCode, ReadIndex, LinkName, DeadLetterName, Retract,
                SendArticle, AckMentions, ResolverFails
  <2>2. CASE \E f \in Fetchers : \/ TakeItem(f) \/ FetchPage(f) \/ MergeArticle(f)
                                 \/ AckItem(f) \/ FetcherFails(f)
    BY <2>2 DEF TakeItem, FetchPage, MergeArticle, AckItem, FetcherFails
  <2>3. CASE \/ PublishItem \/ ImportTechnique \/ Poll \/ SendItem \/ PutFingerprint
             \/ PollerFails \/ UNCHANGED vars
    BY <2>3 DEF PublishItem, ImportTechnique, Poll, SendItem, PutFingerprint,
                PollerFails, vars
  <2> QED
    BY <2>1, <2>2, <2>3, EveryStep
<1> QED
  BY <1>1, <1>2, <1>3, <1>4, <1>5

(* The rest of the pipeline leaves the feed and the poller alone, and only *)
(* takes from the discovery queue.                                         *)
LEMMA PollerSteps ==
    ASSUME [Next]_vars
    PROVE  \/ PublishItem \/ Poll \/ SendItem \/ PutFingerprint \/ PollerFails
           \/ /\ UNCHANGED <<published, fingerprint, poller>>
              /\ discovered' \subseteq discovered
  BY EveryStep DEF ImportTechnique, Failing, ExtractMentions, GiveUp, vars, pollVars,
     TakeItem, FetchPage, MergeArticle, AnnounceArticle, AckItem, FetcherFails,
     TakeMentions, ResolveCode, ReadIndex, LinkName, DeadLetterName, Retract,
     SendArticle, AckMentions, ResolverFails

(* The feed moves on, and only the poller moves towards it.                *)
LEMMA PollerKept == ASSUME Typed, [Next]_vars PROVE PollerOK'
<1> USE DEF Typed, TypeOK, PollerOK, pollVars, Failing, PollerStates
<1>1. published' \in Nat /\ published' >= published
  BY PollerSteps DEF PublishItem, Poll, SendItem, PutFingerprint, PollerFails
<1>2. \A text \in AnnouncedOrLater' : text.version <= published'
  <2> SUFFICES ASSUME NEW text \in AnnouncedOrLater'
               PROVE  text.version <= published'
    OBVIOUS
  <2>1. text.version \in Nat /\ text.version <= published
    <3>1. CASE text \in AnnouncedOrLater
      BY <3>1 DEF AnnouncedOrLater, Texts, RawMentions, Versions
    <3>2. CASE \E f \in Fetchers : AnnounceArticle(f) /\ text = fetcher[f].text
      BY <3>2 DEF AnnounceArticle, FetchersOK, Texts, Versions
    <3> QED
      BY <3>1, <3>2, AnnouncedByFetchers
  <2> QED
    BY <1>1, <2>1
<1>3. \A v \in discovered' : v <= published'
  <2>1. CASE discovered' \subseteq discovered
    BY <1>1, <2>1 DEF Versions
  <2>2. CASE SendItem
    BY <2>2 DEF SendItem
  <2> QED
    BY <2>1, <2>2, PollerSteps DEF PublishItem, Poll, PutFingerprint, PollerFails
<1>4. /\ fingerprint' <= published'
      /\ poller'.at = "idle" => poller' = Idle
      /\ poller'.at # "idle" => /\ poller'.version \in 1..published'
                                /\ fingerprint' <= poller'.version
  <2>1. CASE PublishItem
    BY <2>1 DEF PublishItem
  <2>2. CASE Poll
    BY <2>2 DEF Poll, Remembered
  <2>3. CASE SendItem
    BY <2>3 DEF SendItem
  <2>4. CASE PutFingerprint
    BY <2>4 DEF PutFingerprint, Idle
  <2>5. CASE PollerFails
    BY <2>5 DEF PollerFails, Idle
  <2>6. CASE UNCHANGED <<published, fingerprint, poller>>
    BY <2>6
  <2> QED
    BY <2>1, <2>2, <2>3, <2>4, <2>5, <2>6, PollerSteps
<1> QED
  BY <1>2, <1>3, <1>4

(* The rest of the pipeline leaves extraction and the Article alone.       *)
LEMMA FetcherSteps ==
    ASSUME [Next]_vars
    PROVE  \/ \E f \in Fetchers : \/ TakeItem(f) \/ FetchPage(f) \/ MergeArticle(f)
                                  \/ AnnounceArticle(f) \/ AckItem(f) \/ FetcherFails(f)
           \/ /\ UNCHANGED <<fetcher, article>>
              /\ published' = published \/ published' = published + 1
  BY EveryStep DEF PublishItem, ImportTechnique, Poll, SendItem, PutFingerprint,
     PollerFails, Failing, ExtractMentions, GiveUp, vars, graphVars,
     TakeMentions, ResolveCode, ReadIndex, LinkName, DeadLetterName, Retract,
     SendArticle, AckMentions, ResolverFails

(* What one extraction invocation holds.                                   *)
HoldsOK(s) ==
    /\ s.at # "idle" => s.version \in 1..published
    /\ s.at \in {"merge", "announce", "ack"} =>
          s.text \in Texts /\ s.text.version \in s.version..published

(* The page is fetched after the message was sent, so it is no older.      *)
LEMMA FetchersKept == ASSUME Typed, [Next]_vars PROVE FetchersOK'
<1> USE DEF Typed, TypeOK
<1>1. FetchersOK <=> /\ \A f \in Fetchers : HoldsOK(fetcher[f])
                     /\ article # None => article.text.version \in article.title..published
  BY DEF FetchersOK, HoldsOK, Fetching
<1>2. CASE UNCHANGED <<fetcher, article>>
           /\ (published' = published \/ published' = published + 1)
  <2>1. \A f \in Fetchers : fetcher[f].version \in Nat
    BY DEF FetcherStates
  <2>2. article # None => article.title \in Nat /\ article.text.version \in Nat
    BY DEF Articles, Texts, Versions
  <2>3. \A f \in Fetchers : fetcher[f].text \in Texts => fetcher[f].text.version \in Nat
    BY DEF Texts, Versions
  <2> QED
    BY <1>2, <2>1, <2>2, <2>3 DEF FetchersOK, Fetching
<1>3. ASSUME NEW f \in Fetchers, NEW s \in FetcherStates,
             fetcher' = [fetcher EXCEPT ![f] = s], HoldsOK(s), UNCHANGED <<article, published>>
      PROVE  FetchersOK'
  BY <1>1, <1>3 DEF FetchersOK, HoldsOK, Fetching
<1>4. ASSUME NEW f \in Fetchers, TakeItem(f) PROVE FetchersOK'
  <2>1. PICK v \in discovered :
            fetcher' = [fetcher EXCEPT ![f] = [at |-> "fetch", version |-> v, text |-> None]]
    BY <1>4 DEF TakeItem
  <2>2. v \in 0..MaxVersion /\ v \in 1..published
    BY DEF Versions, PollerOK
  <2>3. [at |-> "fetch", version |-> v, text |-> None] \in FetcherStates
    BY <2>2 DEF FetcherStates
  <2>4. HoldsOK([at |-> "fetch", version |-> v, text |-> None])
    BY <2>2 DEF HoldsOK
  <2> QED
    BY <1>3, <1>4, <2>1, <2>3, <2>4 DEF TakeItem, graphVars
<1>5. ASSUME NEW f \in Fetchers, FetchPage(f) PROVE FetchersOK'
  <2>1. PICK text \in {[version |-> published, of |-> "page"],
                      [version |-> fetcher[f].version, of |-> "summary"]} :
            fetcher' = [fetcher EXCEPT ![f].at = "merge", ![f].text = text]
    BY <1>5 DEF FetchPage
  <2> DEFINE s == [fetcher[f] EXCEPT !.at = "merge", !.text = text]
  <2>2. fetcher' = [fetcher EXCEPT ![f] = s]
    BY <2>1
  <2>3. fetcher[f].version \in 1..published /\ published \in Versions
    BY <1>5 DEF FetchPage, FetchersOK, Fetching, Versions
  <2>4. text \in Texts /\ text.version \in fetcher[f].version..published
    BY <2>3, BoundsAssumption DEF Texts, Versions
  <2>5. s \in FetcherStates
    BY <2>4 DEF FetcherStates
  <2>6. s.version = fetcher[f].version /\ s.text = text
    BY DEF FetcherStates
  <2>7. HoldsOK(s)
    BY <2>3, <2>4, <2>6 DEF HoldsOK
  <2> HIDE DEF s
  <2> QED
    BY <1>3, <1>5, <2>2, <2>5, <2>7 DEF FetchPage, graphVars
<1>6. ASSUME NEW f \in Fetchers, MergeArticle(f) PROVE FetchersOK'
  <2>1. /\ article'.title = fetcher[f].version /\ article'.text = fetcher[f].text
        /\ fetcher[f].text.version \in fetcher[f].version..published
    BY <1>6 DEF MergeArticle, MergedFrom, FetchersOK
  <2>2. \A g \in Fetchers : /\ fetcher'[g].version = fetcher[g].version
                            /\ fetcher'[g].text = fetcher[g].text
                            /\ fetcher'[g].at = fetcher[g].at \/ fetcher[g].at = "merge"
    BY <1>6 DEF MergeArticle, FetcherStates
  <2>3. published' = published
    BY <1>6 DEF MergeArticle
  <2> QED
    BY <2>1, <2>2, <2>3 DEF FetchersOK, Fetching
<1>7. ASSUME NEW f \in Fetchers, AnnounceArticle(f) PROVE FetchersOK'
  <2>1. \A g \in Fetchers : /\ fetcher'[g].version = fetcher[g].version
                            /\ fetcher'[g].text = fetcher[g].text
                            /\ fetcher'[g].at = fetcher[g].at \/ fetcher[g].at = "announce"
    BY <1>7 DEF AnnounceArticle, FetcherStates
  <2>2. published' = published /\ article' = article
    BY <1>7 DEF AnnounceArticle, graphVars
  <2> QED
    BY <2>1, <2>2 DEF FetchersOK, Fetching
<1>8. ASSUME NEW f \in Fetchers, AckItem(f) \/ FetcherFails(f) PROVE FetchersOK'
  <2>1. HoldsOK(NotFetching)
    BY DEF HoldsOK, NotFetching
  <2> QED
    BY <1>3, <1>8, <2>1, Starts DEF AckItem, FetcherFails, Failing, graphVars
<1> QED
  BY <1>2, <1>4, <1>5, <1>6, <1>7, <1>8, FetcherSteps

(* The rest of the pipeline leaves resolution and the links alone.         *)
LEMMA ResolverSteps ==
    ASSUME [Next]_vars
    PROVE  \/ \E r \in Resolvers :
                 \/ TakeMentions(r) \/ ResolveCode(r) \/ ReadIndex(r) \/ LinkName(r)
                 \/ DeadLetterName(r) \/ Retract(r) \/ SendArticle(r) \/ AckMentions(r)
                 \/ ResolverFails(r)
           \/ resolver' = resolver /\ mentions' = mentions
  BY EveryStep DEF PublishItem, ImportTechnique, Poll, SendItem, PutFingerprint,
     PollerFails, Failing, ExtractMentions, GiveUp, vars, graphVars,
     TakeItem, FetchPage, MergeArticle, AnnounceArticle, AckItem, FetcherFails

(* What one resolution invocation has done of its message.                 *)
WorksOK(s) ==
    s.at # "idle" =>
        /\ s.message \in RawMentions
        /\ s.todo \cap Deterministic \subseteq Named[s.message.text]
        /\ s.keep \subseteq Named[s.message.text]
        /\ Named[s.message.text] \cap Codes \subseteq s.todo \cup s.keep
        /\ s.at = "link" => s.todo \subseteq Names
        /\ s.at \in {"send", "ack"} => s.todo = {}

(* A code leaves what is to do only for what is kept.                      *)
LEMMA ResolversKept == ASSUME Typed, [Next]_vars PROVE ResolversOK'
<1> USE DEF Typed, TypeOK
<1>1. ResolversOK <=> \A r \in Resolvers : WorksOK(resolver[r])
  BY DEF ResolversOK, WorksOK, Resolving
<1>2. ResolversOK' <=> \A r \in Resolvers : WorksOK(resolver'[r])
  BY DEF ResolversOK, WorksOK, Resolving
<1>3. ASSUME NEW r \in Resolvers, NEW s,
             resolver' = [resolver EXCEPT ![r] = s], WorksOK(s)
      PROVE  ResolversOK'
  BY <1>1, <1>2, <1>3
<1>4. ASSUME NEW r \in Resolvers, TakeMentions(r) PROVE ResolversOK'
  <2>1. PICK m \in mentioned : resolver' = [resolver EXCEPT ![r] =
               [NotResolving EXCEPT
                   !.at = "resolve", !.message = m,
                   !.todo = (Named[m.text] \cap Deterministic) \cup m.names]]
    BY <1>4 DEF TakeMentions
  <2>2. m \in RawMentions /\ m.names \cap Deterministic = {}
    BY EntitiesAssumption DEF RawMentions
  <2>3. WorksOK([NotResolving EXCEPT
                   !.at = "resolve", !.message = m,
                   !.todo = (Named[m.text] \cap Deterministic) \cup m.names])
    BY <2>2 DEF WorksOK, NotResolving, Deterministic
  <2> QED
    BY <1>3, <2>1, <2>3
<1>5. ASSUME NEW r \in Resolvers, ResolveCode(r) PROVE ResolversOK'
  <2>1. PICK e \in resolver[r].todo \cap Deterministic :
          resolver' = [resolver EXCEPT
                ![r].todo = @ \ {e}, ![r].keep = @ \cup ({e} \cap (Codes \cup nodes))]
    BY <1>5 DEF ResolveCode
  <2> DEFINE s == [resolver[r] EXCEPT !.todo = @ \ {e},
                                      !.keep = @ \cup ({e} \cap (Codes \cup nodes))]
  <2>2. resolver' = [resolver EXCEPT ![r] = s]
    BY <2>1
  <2>3. /\ s.at = "resolve" /\ s.message = resolver[r].message
        /\ s.todo = resolver[r].todo \ {e}
        /\ s.keep = resolver[r].keep \cup ({e} \cap (Codes \cup nodes))
    BY <1>5 DEF ResolveCode, ResolverStates
  <2>4. WorksOK(resolver[r]) /\ resolver[r].at = "resolve"
    BY <1>1, <1>5 DEF ResolveCode
  <2> HIDE DEF s
  <2>5. WorksOK(s)
    BY <2>3, <2>4 DEF WorksOK
  <2> QED
    BY <1>3, <2>2, <2>5
<1>6. ASSUME NEW r \in Resolvers, ReadIndex(r) PROVE ResolversOK'
  <2> DEFINE s == [resolver[r] EXCEPT !.at = "link", !.index = {Key[n] : n \in nodes \cap Names}]
  <2>1. resolver' = [resolver EXCEPT ![r] = s]
    BY <1>6 DEF ReadIndex
  <2>2. /\ s.at = "link" /\ s.message = resolver[r].message
        /\ s.todo = resolver[r].todo /\ s.keep = resolver[r].keep
    BY DEF ResolverStates
  <2>3. WorksOK(resolver[r]) /\ resolver[r].at = "resolve" /\ resolver[r].todo \subseteq Names
    BY <1>1, <1>6 DEF ReadIndex
  <2> HIDE DEF s
  <2>4. WorksOK(s)
    BY <2>2, <2>3 DEF WorksOK
  <2> QED
    BY <1>3, <2>1, <2>4
<1>7. ASSUME NEW r \in Resolvers, LinkName(r) PROVE ResolversOK'
  <2>1. PICK n \in resolver[r].todo :
          resolver' = [resolver EXCEPT ![r].at = "resolve", ![r].index = {},
                                       ![r].todo = @ \ {n}]
    BY <1>7 DEF LinkName
  <2> DEFINE s == [resolver[r] EXCEPT !.at = "resolve", !.index = {}, !.todo = @ \ {n}]
  <2>2. resolver' = [resolver EXCEPT ![r] = s]
    BY <2>1
  <2>3. /\ s.at = "resolve" /\ s.message = resolver[r].message
        /\ s.todo = resolver[r].todo \ {n} /\ s.keep = resolver[r].keep
    BY DEF ResolverStates
  <2>4. WorksOK(resolver[r]) /\ resolver[r].at = "link" /\ n \in Names
    BY <1>1, <1>7 DEF LinkName, WorksOK
  <2>5. n \notin Codes
    BY <2>4, EntitiesAssumption DEF Deterministic
  <2> HIDE DEF s
  <2>6. WorksOK(s)
    BY <2>3, <2>4, <2>5 DEF WorksOK
  <2> QED
    BY <1>3, <2>2, <2>6
<1>8. ASSUME NEW r \in Resolvers, NEW a \in {"send", "ack"},
             resolver' = [resolver EXCEPT ![r].at = a],
             resolver[r].at # "idle", resolver[r].todo = {}
      PROVE  ResolversOK'
  <2> DEFINE s == [resolver[r] EXCEPT !.at = a]
  <2>1. resolver' = [resolver EXCEPT ![r] = s]
    BY <1>8
  <2>2. /\ s.at = a /\ s.message = resolver[r].message
        /\ s.todo = resolver[r].todo /\ s.keep = resolver[r].keep
    BY DEF ResolverStates
  <2>3. WorksOK(resolver[r])
    BY <1>1
  <2> HIDE DEF s
  <2>4. WorksOK(s)
    BY <1>8, <2>2, <2>3 DEF WorksOK
  <2> QED
    BY <1>3, <2>1, <2>4
<1>9. ASSUME NEW r \in Resolvers, Retract(r) PROVE ResolversOK'
  BY <1>8, <1>9 DEF Retract
<1>10. ASSUME NEW r \in Resolvers, SendArticle(r) PROVE ResolversOK'
  BY <1>8, <1>10 DEF SendArticle, ResolversOK, Resolving
<1>11. ASSUME NEW r \in Resolvers, DeadLetterName(r) \/ AckMentions(r) \/ ResolverFails(r)
       PROVE  ResolversOK'
  <2>1. WorksOK(NotResolving)
    BY DEF WorksOK, NotResolving
  <2> QED
    BY <1>3, <1>11, <2>1 DEF DeadLetterName, AckMentions, Ended, ResolverFails
<1>12. CASE resolver' = resolver
  BY <1>12, <1>1, <1>2
<1> QED
  BY <1>4, <1>5, <1>6, <1>7, <1>9, <1>10, <1>11, <1>12, ResolverSteps

(* Types and what every invocation holds are an invariant.                 *)
LEMMA Invariance == Spec => []Typed
<1>1. Typed /\ [Next]_vars => Typed'
  <2> SUFFICES ASSUME Typed, [Next]_vars PROVE Typed'
    OBVIOUS
  <2> QED
    BY TypeKept, PollerKept, FetchersKept, ResolversKept DEF Typed
<1> QED
  BY <1>1, InitTyped, PTL DEF Spec

(* Every variable keeps to its type, in particular: no invocation ever     *)
(* merges, announces or hands on a text or a version that is none.         *)
THEOREM TypeCorrect == Spec => []TypeOK
  BY Invariance, PTL DEF Typed

-----------------------------------------------------------------------------
(* A name is never retracted, and a code that every text names is among    *)
(* what the retracting invocation has kept, whichever text it resolves.    *)
THEOREM LinksAreKept == Spec => NeverForgets
<1>1. ASSUME Typed, [Next]_vars, NEW e \in mentions,
             e \in Names \/ (e \in Codes /\ \A text \in Texts : e \in Named[text])
      PROVE  e \in mentions'
  <2>1. CASE \E r \in Resolvers : Retract(r)
    <3>1. PICK r \in Resolvers : Retract(r)
      BY <2>1
    <3>2. CASE e \in Names
      BY <3>1, <3>2, EntitiesAssumption DEF Retract, Stale
    <3>3. CASE e \in Codes /\ \A text \in Texts : e \in Named[text]
      <4>1. resolver[r].message \in RawMentions /\ resolver[r].todo = {}
            /\ Named[resolver[r].message.text] \cap Codes \subseteq resolver[r].keep
        BY <1>1, <3>1 DEF Retract, Typed, ResolversOK, Resolving
      <4>2. e \in resolver[r].keep
        BY <3>3, <4>1 DEF RawMentions
      <4> QED
        BY <3>1, <4>2 DEF Retract, Stale
    <3> QED
      BY <1>1, <3>2, <3>3
  <2>2. CASE ~ \E r \in Resolvers : Retract(r)
    BY <1>1, <2>2, ResolverSteps DEF TakeMentions, ResolveCode, ReadIndex, LinkName,
       DeadLetterName, SendArticle, AckMentions, ResolverFails, Failing, graphVars
  <2> QED
    BY <2>1, <2>2
<1>2. Typed /\ [Next]_vars =>
        [\A e \in mentions :
           e \in Names \/ (e \in Codes /\ \A text \in Texts : e \in Named[text])
           => e \in mentions']_vars
  BY <1>1
<1> QED
  BY <1>2, Invariance, PTL DEF Spec, NeverForgets

-----------------------------------------------------------------------------
(* What it takes for the Article to end as published.  As long as neither  *)
(* two versions nor two texts are under way at a time ...                  *)
OneItem ==
    /\ \A v, w \in discovered : v = w
    /\ \A f \in Fetchers : Fetching(f) => fetcher[f].version \in discovered
    /\ \A f, g \in Fetchers : Fetching(f) /\ Fetching(g) => f = g
    /\ \A v \in discovered : fingerprint <= v
    /\ poller.at = "put" => discovered \subseteq {poller.version}

OneText ==
    /\ \A s, u \in AnnouncedOrLater : s = u
    /\ \A r \in Resolvers : Resolving(r) => resolver[r].message \in mentioned
    /\ \A r, q \in Resolvers :
          Resolving(r) /\ resolver[r].message = resolver[q].message => r = q

(* ... an extraction that has merged the Article finds it as it left it,   *)
Written ==
    \A f \in Fetchers : fetcher[f].at \in {"announce", "ack"} =>
        article = [title |-> fetcher[f].version, text |-> fetcher[f].text]

(* a resolution finds every link it has made,                              *)
Stored(text) ==
    /\ Named[text] \cap Codes \subseteq mentions
    /\ mentions \cap Deterministic \subseteq Named[text]
Linked ==
    \A r \in Resolvers : Resolving(r) =>
        /\ resolver[r].keep \cap Codes \subseteq mentions
        /\ resolver[r].at \in {"send", "ack"} => Stored(resolver[r].message.text)

(* and when no item waits to be extracted, the Article is not older than   *)
(* the fingerprint, and its text the one under way or the one linked.      *)
Calm == discovered = {} \/ \E f \in Fetchers : fetcher[f].at = "ack"
Untouched ==
    article = None /\ fingerprint = 0 /\ poller.at # "put" /\ AnnouncedOrLater = {}
UpToText ==
    /\ article # None
    /\ fingerprint <= article.title
    /\ poller.at = "put" => poller.version <= article.title
    /\ AnnouncedOrLater \subseteq {article.text}
    /\ AnnouncedOrLater = {} => Stored(article.text)
Calmed == Calm => Untouched \/ UpToText

Careful == OneItem /\ OneText /\ Written /\ Linked /\ Calmed
Faithful == ~overlapped /\ ~lost => Careful

(* Before the first poll the Article is untouched.                         *)
LEMMA InitFaithful == Init => Faithful
  BY DEF Init, Faithful, Careful, OneItem, OneText, Written, Linked, Calmed, Untouched,
         Idle, NotFetching, NotResolving, Fetching, Resolving, AnnouncedOrLater

(* What was lost or overlapped stays so.                                   *)
LEMMA HistoryStays ==
    ASSUME Typed, [Next]_vars
    PROVE  (overlapped => overlapped') /\ (lost => lost')
<1>1. \/ SendItem \/ (\E f \in Fetchers : AnnounceArticle(f)) \/ GiveUp
      \/ (\E r \in Resolvers : DeadLetterName(r))
      \/ overlapped' = overlapped /\ lost' = lost
  BY EveryStep DEF PublishItem, ImportTechnique, Poll, PutFingerprint,
     PollerFails, Failing, ExtractMentions, vars, history, TakeItem, FetchPage,
     MergeArticle, AckItem, FetcherFails, TakeMentions, ResolveCode,
     ReadIndex, LinkName, Retract, SendArticle, AckMentions, ResolverFails
<1>2. CASE SendItem
  BY Zenon, <1>2 DEF SendItem
<1>3. CASE \E f \in Fetchers : AnnounceArticle(f)
  <2>1. PICK f \in Fetchers : AnnounceArticle(f)
    BY <1>3
  <2> QED
    BY Zenon, <2>1 DEF AnnounceArticle
<1>4. CASE GiveUp
  BY <1>4 DEF GiveUp
<1>5. CASE \E r \in Resolvers : DeadLetterName(r)
  BY <1>5 DEF DeadLetterName
<1>6. CASE overlapped' = overlapped /\ lost' = lost
  BY Zenon, <1>6
<1> QED
  BY Zenon, <1>1, <1>2, <1>3, <1>4, <1>5, <1>6

(* How an extraction step changes the invocations.                         *)
LEMMA FetchersMove ==
    ASSUME Typed, NEW f \in Fetchers,
           FetchPage(f) \/ MergeArticle(f) \/ AnnounceArticle(f)
    PROVE  \A g \in Fetchers : /\ fetcher'[g].at = "idle" <=> fetcher[g].at = "idle"
                               /\ fetcher'[g].version = fetcher[g].version
                               /\ g # f => fetcher'[g] = fetcher[g]
<1> USE DEF Typed, TypeOK, FetcherStates
<1>1. CASE FetchPage(f)
  BY <1>1 DEF FetchPage
<1>2. CASE MergeArticle(f)
  BY <1>2 DEF MergeArticle
<1>3. CASE AnnounceArticle(f)
  BY <1>3 DEF AnnounceArticle
<1> QED
  BY <1>1, <1>2, <1>3

(* A second version in the queue, or a second invocation, would overlap.   *)
LEMMA OneItemKept ==
    ASSUME Typed, OneItem, [Next]_vars, ~overlapped', ~lost'
    PROVE  OneItem'
<1> USE DEF Typed, TypeOK, OneItem, Fetching, pollVars
<1>1. CASE UNCHANGED <<discovered, fetcher, poller, fingerprint>>
  BY <1>1
<1>2. CASE Poll \/ PollerFails
  BY <1>2 DEF Poll, Remembered, PollerFails, Failing, Idle
<1>3. CASE SendItem
  <2>1. discovered' = {poller.version}
    BY <1>3 DEF SendItem, OtherUnderWay
  <2>2. fingerprint <= poller.version
    BY <1>3 DEF SendItem, PollerOK
  <2>3. fetcher' = fetcher /\ fingerprint' = fingerprint /\ poller'.version = poller.version
        /\ discovered \subseteq discovered'
    BY <1>3 DEF SendItem, PollerStates
  <2> QED
    BY <2>1, <2>2, <2>3
<1>4. CASE PutFingerprint
  BY <1>4 DEF PutFingerprint, Idle, PollerOK, Versions
<1>5. ASSUME NEW f \in Fetchers, TakeItem(f) PROVE OneItem'
  <2>1. PICK v \in discovered \ {fetcher[g].version : g \in Fetchers} :
            fetcher' = [fetcher EXCEPT ![f] = [at |-> "fetch", version |-> v, text |-> None]]
    BY <1>5 DEF TakeItem
  <2>2. \A g \in Fetchers : ~Fetching(g)
    BY <2>1
  <2> QED
    BY <1>5, <2>1, <2>2 DEF TakeItem
<1>6. ASSUME NEW f \in Fetchers, FetchPage(f) \/ MergeArticle(f) \/ AnnounceArticle(f)
      PROVE  OneItem'
  <2>1. UNCHANGED <<discovered, poller, fingerprint>>
    BY <1>6 DEF FetchPage, MergeArticle, AnnounceArticle
  <2> QED
    BY <1>6, <2>1, FetchersMove
<1>7. ASSUME NEW f \in Fetchers, FetcherFails(f) PROVE OneItem'
  BY <1>7 DEF FetcherFails, Failing, NotFetching
<1>8. ASSUME NEW f \in Fetchers, AckItem(f) PROVE OneItem'
  <2>1. \A g \in Fetchers : ~Fetching(g)'
    BY <1>8 DEF AckItem, NotFetching
  <2> QED
    BY <1>8, <2>1 DEF AckItem
<1>9. ASSUME NEW r \in Resolvers,
             \/ TakeMentions(r) \/ ResolveCode(r) \/ ReadIndex(r) \/ LinkName(r)
             \/ DeadLetterName(r) \/ Retract(r) \/ SendArticle(r) \/ AckMentions(r)
             \/ ResolverFails(r)
      PROVE  OneItem'
  BY <1>1, <1>9 DEF TakeMentions, ResolveCode, ReadIndex, LinkName, DeadLetterName, Retract,
     SendArticle, AckMentions, ResolverFails, Failing
<1>10. CASE PublishItem \/ ImportTechnique \/ ExtractMentions \/ UNCHANGED vars
  BY <1>1, <1>10 DEF PublishItem, ImportTechnique, ExtractMentions, vars
<1> QED
  BY <1>2, <1>3, <1>4, <1>5, <1>6, <1>7, <1>8, <1>9, <1>10, EveryStep DEF GiveUp

(* How a step in the middle of a resolution changes the invocations.       *)
LEMMA ResolversMove ==
    ASSUME Typed, NEW r \in Resolvers,
           ResolveCode(r) \/ ReadIndex(r) \/ LinkName(r) \/ Retract(r) \/ SendArticle(r)
    PROVE  \A q \in Resolvers : /\ resolver'[q].at = "idle" <=> resolver[q].at = "idle"
                                /\ resolver'[q].message = resolver[q].message
                                /\ q # r => resolver'[q] = resolver[q]
<1> USE DEF Typed, TypeOK, ResolverStates
<1>1. CASE ResolveCode(r)
  <2>1. PICK e \in resolver[r].todo \cap Deterministic :
          resolver' = [resolver EXCEPT
                ![r].todo = @ \ {e}, ![r].keep = @ \cup ({e} \cap (Codes \cup nodes))]
    BY <1>1 DEF ResolveCode
  <2> QED
    BY <2>1
<1>2. CASE ReadIndex(r)
  <2>1. PICK index : resolver' = [resolver EXCEPT ![r].at = "link", ![r].index = index]
    BY <1>2 DEF ReadIndex
  <2> QED
    BY <1>2, <2>1 DEF ReadIndex
<1>3. CASE LinkName(r)
  <2>1. PICK n \in resolver[r].todo :
          resolver' = [resolver EXCEPT ![r].at = "resolve", ![r].index = {},
                                       ![r].todo = @ \ {n}]
    BY <1>3 DEF LinkName
  <2> QED
    BY <1>3, <2>1 DEF LinkName
<1>4. CASE Retract(r)
  BY <1>4 DEF Retract
<1>5. CASE SendArticle(r)
  BY <1>5 DEF SendArticle
<1> QED
  BY <1>1, <1>2, <1>3, <1>4, <1>5

(* A second text announced would overlap; a message is taken once at a     *)
(* time.                                                                   *)
LEMMA OneTextKept ==
    ASSUME Typed, OneText, [Next]_vars, ~overlapped', ~lost'
    PROVE  OneText'
<1> USE DEF Typed, TypeOK, OneText, Resolving, AnnouncedOrLater
<1>1. CASE UNCHANGED <<announced, mentioned, resolver>>
  BY <1>1
<1>2. ASSUME NEW f \in Fetchers, AnnounceArticle(f) PROVE OneText'
  <2>1. AnnouncedOrLater' = {fetcher[f].text}
    BY <1>2 DEF AnnounceArticle
  <2> QED
    BY <1>2, <2>1 DEF AnnounceArticle
<1>3. CASE ExtractMentions
  <2>1. AnnouncedOrLater' \subseteq AnnouncedOrLater
    BY <1>3 DEF ExtractMentions
  <2>2. mentioned \subseteq mentioned' /\ resolver' = resolver
    BY <1>3 DEF ExtractMentions
  <2> QED
    BY <2>1, <2>2
<1>4. ASSUME NEW r \in Resolvers, TakeMentions(r) PROVE OneText'
  <2>1. PICK m \in mentioned \ {resolver[q].message : q \in Resolvers} :
            resolver' = [resolver EXCEPT ![r] =
               [NotResolving EXCEPT
                   !.at = "resolve", !.message = m,
                   !.todo = (Named[m.text] \cap Deterministic) \cup m.names]]
    BY <1>4 DEF TakeMentions
  <2>2. /\ resolver'[r].message = m
        /\ \A q \in Resolvers : q # r => resolver'[q] = resolver[q]
        /\ \A q \in Resolvers : resolver[q].message # m
    BY <2>1 DEF NotResolving
  <2>3. announced' = announced /\ mentioned' = mentioned
    BY <1>4 DEF TakeMentions
  <2>4. \A p, q \in Resolvers :
            Resolving(p)' /\ resolver'[p].message = resolver'[q].message => p = q
    BY <2>2
  <2>5. \A q \in Resolvers : Resolving(q)' => resolver'[q].message \in mentioned'
    BY <2>2, <2>3
  <2>6. AnnouncedOrLater' = AnnouncedOrLater
    BY <2>3
  <2> HIDE DEF Resolving, AnnouncedOrLater
  <2> QED
    BY <2>4, <2>5, <2>6
<1>5. ASSUME NEW r \in Resolvers,
             ResolveCode(r) \/ ReadIndex(r) \/ LinkName(r) \/ Retract(r) \/ SendArticle(r)
      PROVE  OneText'
  <2>1. announced' = announced /\ mentioned' = mentioned
    BY <1>5 DEF ResolveCode, ReadIndex, LinkName, Retract, SendArticle
  <2> QED
    BY <1>5, <2>1, ResolversMove
<1>6. ASSUME NEW r \in Resolvers, ResolverFails(r) \/ AckMentions(r) PROVE OneText'
  <2>1. /\ resolver'[r] = NotResolving
        /\ \A q \in Resolvers : q # r => resolver'[q] = resolver[q]
    BY <1>6 DEF ResolverFails, AckMentions, Ended
  <2>2. /\ announced' = announced
        /\ mentioned \ {resolver[r].message} \subseteq mentioned'
        /\ mentioned' \subseteq mentioned
    BY <1>6 DEF ResolverFails, AckMentions
  <2>3. \A q \in Resolvers : Resolving(q) => resolver[q].message # None
    BY TextsAssumption DEF ResolversOK
  <2>4. \A p, q \in Resolvers :
            Resolving(p)' /\ resolver'[p].message = resolver'[q].message => p = q
    BY <2>1, <2>3 DEF NotResolving
  <2>5. \A q \in Resolvers : Resolving(q)' => resolver'[q].message \in mentioned'
    BY <2>1, <2>2 DEF NotResolving
  <2>6. AnnouncedOrLater' \subseteq AnnouncedOrLater
    BY <2>2
  <2> HIDE DEF Resolving, AnnouncedOrLater
  <2> QED
    BY <2>4, <2>5, <2>6
<1>7. ASSUME NEW f \in Fetchers,
             \/ TakeItem(f) \/ FetchPage(f) \/ MergeArticle(f) \/ AckItem(f)
             \/ FetcherFails(f)
      PROVE  OneText'
  BY <1>1, <1>7 DEF TakeItem, FetchPage, MergeArticle, AckItem, FetcherFails, Failing
<1>8. CASE \/ PublishItem \/ ImportTechnique \/ Poll \/ SendItem \/ PutFingerprint
           \/ PollerFails \/ UNCHANGED vars
  BY <1>1, <1>8 DEF PublishItem, ImportTechnique, Poll, SendItem, PutFingerprint,
     PollerFails, Failing, vars
<1> QED
  BY <1>2, <1>3, <1>4, <1>5, <1>6, <1>7, <1>8, EveryStep DEF GiveUp, DeadLetterName

(* Nobody else merges between an extraction's merge and its end.           *)
LEMMA WrittenKept ==
    ASSUME Typed, OneItem, Written, [Next]_vars
    PROVE  Written'
<1> USE DEF Typed, TypeOK, Written, graphVars
<1>1. CASE UNCHANGED <<fetcher, article>>
  BY <1>1
<1>2. ASSUME NEW f \in Fetchers, MergeArticle(f) PROVE Written'
  <2>1. /\ article' = [title |-> fetcher[f].version, text |-> fetcher[f].text]
        /\ fetcher'[f].version = fetcher[f].version /\ fetcher'[f].text = fetcher[f].text
    BY <1>2 DEF MergeArticle, MergedFrom, FetcherStates
  <2>2. \A g \in Fetchers : g # f => fetcher'[g].at = "idle"
    BY <1>2, FetchersMove DEF MergeArticle, OneItem, Fetching
  <2> QED
    BY <2>1, <2>2
<1>3. ASSUME NEW f \in Fetchers, AnnounceArticle(f) PROVE Written'
  <2>1. \A g \in Fetchers : /\ fetcher'[g].version = fetcher[g].version
                            /\ fetcher'[g].text = fetcher[g].text
                            /\ fetcher'[g].at = fetcher[g].at \/ fetcher[g].at = "announce"
    BY <1>3 DEF AnnounceArticle, FetcherStates
  <2> QED
    BY <1>3, <2>1 DEF AnnounceArticle
<1>4. ASSUME NEW f \in Fetchers,
             TakeItem(f) \/ FetchPage(f) \/ AckItem(f) \/ FetcherFails(f)
      PROVE  Written'
  <2>1. /\ article' = article
        /\ \A g \in Fetchers : g # f => fetcher'[g] = fetcher[g]
        /\ fetcher'[f].at \in {"idle", "fetch", "merge"}
    BY <1>4 DEF TakeItem, FetchPage, AckItem, FetcherFails, Failing, NotFetching, FetcherStates
  <2> QED
    BY <2>1
<1> QED
  BY <1>1, <1>2, <1>3, <1>4, FetcherSteps

(* What one resolution invocation has linked.                              *)
LinkedBy(s) ==
    s.at # "idle" =>
        /\ s.keep \cap Codes \subseteq mentions
        /\ s.at \in {"send", "ack"} => Stored(s.message.text)

(* Two resolutions at a time are of one text, so that neither links what   *)
(* the other's text does not name nor retracts a code that it does.        *)
LEMMA LinkedKept ==
    ASSUME Typed, OneText, Linked, [Next]_vars
    PROVE  Linked'
<1>1. \A r, q \in Resolvers :
          Resolving(r) /\ Resolving(q) => resolver[r].message.text = resolver[q].message.text
  <2>1. \A r \in Resolvers : Resolving(r) => resolver[r].message.text \in AnnouncedOrLater
    BY DEF OneText, AnnouncedOrLater
  <2> QED
    BY <2>1 DEF OneText
<1> USE DEF Typed, TypeOK
<1>2. Codes \subseteq Deterministic /\ Deterministic \cap Names = {}
  BY EntitiesAssumption DEF Deterministic
<1>3. \A q \in Resolvers : LinkedBy(resolver[q])
  BY DEF Linked, LinkedBy, Resolving
<1>4. Linked' <=> \A q \in Resolvers : LinkedBy(resolver[q])'
  BY DEF Linked, LinkedBy, Resolving
<1>5. CASE resolver' = resolver /\ mentions' = mentions
  BY <1>3, <1>4, <1>5 DEF LinkedBy, Stored
<1>6. ASSUME NEW r \in Resolvers, UNCHANGED mentions, LinkedBy(resolver'[r]),
             \A q \in Resolvers : q # r => resolver'[q] = resolver[q]
      PROVE  Linked'
  BY <1>3, <1>4, <1>6 DEF LinkedBy, Stored
<1>7. ASSUME NEW r \in Resolvers, TakeMentions(r) PROVE Linked'
  <2>1. /\ mentions' = mentions /\ resolver'[r].keep = {} /\ resolver'[r].at = "resolve"
        /\ \A q \in Resolvers : q # r => resolver'[q] = resolver[q]
    BY <1>7 DEF TakeMentions, NotResolving, graphVars
  <2> QED
    BY <1>6, <2>1 DEF LinkedBy
<1>8. ASSUME NEW r \in Resolvers, ResolveCode(r) PROVE Linked'
  <2>1. PICK e \in resolver[r].todo \cap Deterministic :
          /\ mentions' = mentions \cup ({e} \cap (Codes \cup nodes))
          /\ resolver' = [resolver EXCEPT
                ![r].todo = @ \ {e}, ![r].keep = @ \cup ({e} \cap (Codes \cup nodes))]
    BY <1>8 DEF ResolveCode
  <2>2. /\ resolver'[r].keep = resolver[r].keep \cup ({e} \cap (Codes \cup nodes))
        /\ resolver'[r].at = "resolve"
        /\ \A q \in Resolvers : q # r => resolver'[q] = resolver[q]
    BY <1>8, <2>1 DEF ResolveCode, ResolverStates
  <2>3. Resolving(r) /\ e \in Named[resolver[r].message.text]
    BY <1>8, <2>1 DEF ResolveCode, ResolversOK, Resolving
  <2>4. \A q \in Resolvers : Resolving(q) => e \in Named[resolver[q].message.text]
    BY <1>1, <2>3
  <2>5. LinkedBy(resolver[r])'
    BY <1>3, <1>8, <2>1, <2>2 DEF LinkedBy, ResolveCode
  <2>6. \A q \in Resolvers : q # r => LinkedBy(resolver[q])'
    BY <1>3, <2>1, <2>2, <2>4 DEF LinkedBy, Stored, Resolving
  <2> QED
    BY <1>4, <2>5, <2>6
<1>9. ASSUME NEW r \in Resolvers, ReadIndex(r) PROVE Linked'
  <2>1. PICK index : resolver' = [resolver EXCEPT ![r].at = "link", ![r].index = index]
    BY <1>9 DEF ReadIndex
  <2>2. /\ resolver'[r].keep = resolver[r].keep /\ resolver'[r].at = "link"
        /\ \A q \in Resolvers : q # r => resolver'[q] = resolver[q]
    BY <2>1 DEF ResolverStates
  <2>3. resolver[r].at # "idle" /\ mentions' = mentions
    BY <1>9 DEF ReadIndex, graphVars
  <2> QED
    BY <1>3, <1>6, <2>2, <2>3 DEF LinkedBy
<1>10. ASSUME NEW r \in Resolvers, LinkName(r) PROVE Linked'
  <2>1. PICK n \in resolver[r].todo :
          /\ mentions' = mentions \cup {n}
          /\ resolver' = [resolver EXCEPT ![r].at = "resolve", ![r].index = {},
                                          ![r].todo = @ \ {n}]
    BY <1>10 DEF LinkName
  <2>2. /\ resolver'[r].keep = resolver[r].keep /\ resolver'[r].at = "resolve"
        /\ \A q \in Resolvers : q # r => resolver'[q] = resolver[q]
    BY <2>1 DEF ResolverStates
  <2>3. resolver[r].at # "idle" /\ n \notin Deterministic
    BY <1>2, <1>10 DEF LinkName, ResolversOK, Resolving
  <2>4. LinkedBy(resolver[r])'
    BY <1>3, <2>1, <2>2, <2>3 DEF LinkedBy
  <2>5. \A q \in Resolvers : q # r => LinkedBy(resolver[q])'
    BY <1>3, <2>1, <2>2, <2>3 DEF LinkedBy, Stored
  <2> QED
    BY <1>4, <2>4, <2>5
<1>11. ASSUME NEW r \in Resolvers, Retract(r) PROVE Linked'
  <2>1. /\ resolver'[r].keep = resolver[r].keep
        /\ resolver'[r].message = resolver[r].message
        /\ \A q \in Resolvers : q # r => resolver'[q] = resolver[q]
        /\ resolver[r].at # "idle"
    BY <1>11 DEF Retract, ResolverStates
  <2> DEFINE named == Named[resolver[r].message.text]
             keep == resolver[r].keep
  <2>2. keep \subseteq named /\ named \cap Codes \subseteq keep /\ keep \cap Codes \subseteq mentions
    BY <1>3, <1>11, <2>1 DEF Retract, ResolversOK, Resolving, LinkedBy
  <2>3. mentions' = mentions \ ((mentions \cap Deterministic) \ keep)
    BY <1>11 DEF Retract, Stale
  <2>4. named \cap Codes \subseteq mentions' /\ mentions' \cap Deterministic \subseteq named
    BY <2>2, <2>3
  <2>5. LinkedBy(resolver[r])'
    BY <2>1, <2>2, <2>4 DEF LinkedBy, Stored
  <2>6. \A q \in Resolvers : Resolving(q) =>
            /\ Named[resolver[q].message.text] = named
            /\ resolver[q].keep \subseteq named
    BY <1>1, <2>1 DEF Resolving, ResolversOK
  <2>7. \A q \in Resolvers : q # r => LinkedBy(resolver[q])'
    BY <2>1, <2>4, <2>6 DEF LinkedBy, Stored, Resolving
  <2> QED
    BY <1>4, <2>5, <2>7
<1>12. ASSUME NEW r \in Resolvers, SendArticle(r) PROVE Linked'
  <2>1. /\ resolver'[r].keep = resolver[r].keep /\ resolver[r].at = "send"
        /\ resolver'[r].message = resolver[r].message
        /\ \A q \in Resolvers : q # r => resolver'[q] = resolver[q]
        /\ mentions' = mentions
    BY <1>12 DEF SendArticle, ResolverStates, graphVars
  <2> QED
    BY <1>3, <1>6, <2>1 DEF LinkedBy
<1>13. ASSUME NEW r \in Resolvers, DeadLetterName(r) \/ AckMentions(r) \/ ResolverFails(r)
       PROVE  Linked'
  <2>1. /\ resolver'[r] = NotResolving /\ mentions' = mentions
        /\ \A q \in Resolvers : q # r => resolver'[q] = resolver[q]
    BY <1>13 DEF DeadLetterName, AckMentions, Ended, ResolverFails, Failing, graphVars
  <2> QED
    BY <1>6, <2>1 DEF LinkedBy, NotResolving
<1> QED
  BY <1>5, <1>7, <1>8, <1>9, <1>10, <1>11, <1>12, <1>13, ResolverSteps

(* The Article is merged while its item is under way, announced before the *)
(* item is done with, and resolved before its message is.                  *)
LEMMA CalmedKept ==
    ASSUME Typed, Careful, [Next]_vars, ~overlapped', ~lost'
    PROVE  Calmed'
<1> USE DEF Typed, TypeOK, Careful, pollVars, graphVars, history
<1>1. \A f \in Fetchers : fetcher[f].at = "ack" =>
          /\ UpToText /\ article.title = fetcher[f].version
          /\ discovered = {article.title}
  <2> SUFFICES ASSUME NEW f \in Fetchers, fetcher[f].at = "ack"
               PROVE  /\ UpToText /\ article.title = fetcher[f].version
                      /\ discovered = {article.title}
    OBVIOUS
  <2>1. article = [title |-> fetcher[f].version, text |-> fetcher[f].text]
    BY DEF Written
  <2>2. fetcher[f].version \in discovered /\ fetcher[f].text \in Texts
    BY DEF OneItem, Fetching, FetchersOK
  <2>3. article # None
    BY <2>1, <2>2, TextsAssumption DEF Articles
  <2>4. UpToText
    BY <2>3 DEF Calmed, Calm, Untouched
  <2> QED
    BY <2>1, <2>2, <2>4 DEF OneItem
<1>2. \A r \in Resolvers : Resolving(r) => resolver[r].message.text \in AnnouncedOrLater
  BY DEF OneText, AnnouncedOrLater
(* Nothing that counts changes, or Calm ends. *)
<1>3. CASE /\ Calm' => Calm
           /\ UNCHANGED <<article, fingerprint, AnnouncedOrLater>>
           /\ poller'.at = "put" => poller'.at = poller.at /\ poller'.version = poller.version
           /\ mentions' = mentions \/ AnnouncedOrLater # {}
  BY <1>3 DEF Calmed, Untouched, UpToText, Stored
<1>4. CASE PublishItem \/ ImportTechnique \/ UNCHANGED vars
  <2>1. /\ UNCHANGED <<article, fingerprint, poller, mentions, announced, mentioned>>
        /\ UNCHANGED <<discovered, fetcher>>
    BY <1>4 DEF PublishItem, ImportTechnique, vars
  <2> QED
    BY <1>3, <2>1 DEF Calm, AnnouncedOrLater
<1>5. CASE Poll \/ PollerFails
  <2>1. /\ UNCHANGED <<article, fingerprint, mentions, announced, mentioned>>
        /\ UNCHANGED <<discovered, fetcher>>
        /\ poller'.at # "put"
    BY <1>5 DEF Poll, Remembered, PollerFails, Failing, Idle
  <2> QED
    BY <1>3, <2>1 DEF Calm, AnnouncedOrLater
<1>6. CASE SendItem
  <2>1. discovered' = {poller.version} /\ discovered \subseteq discovered'
    BY <1>6 DEF SendItem, OtherUnderWay
  <2>2. /\ UNCHANGED <<article, fingerprint, mentions, announced, mentioned, fetcher>>
        /\ poller'.version = poller.version
    BY <1>6 DEF SendItem, PollerStates
  <2>3. Calm' => UpToText /\ poller.version = article.title
    BY <1>1, <2>1, <2>2 DEF Calm
  <2>4. poller.version <= poller.version
    BY DEF PollerStates
  <2>5. Calm' => UpToText'
    BY <2>2, <2>3, <2>4 DEF UpToText, AnnouncedOrLater, Stored
  <2> QED
    BY <2>5 DEF Calmed
<1>7. CASE PutFingerprint
  <2>1. /\ UNCHANGED <<article, mentions, announced, mentioned, fetcher, discovered>>
        /\ poller.at = "put" /\ fingerprint' = poller.version /\ poller'.at # "put"
    BY <1>7 DEF PutFingerprint, Idle
  <2>2. Calm' => Calm
    BY <2>1 DEF Calm
  <2>3. Calm => UpToText
    BY <2>1 DEF Calmed, Untouched
  <2>4. UpToText => UpToText'
    BY <2>1 DEF UpToText, AnnouncedOrLater, Stored
  <2> QED
    BY <2>2, <2>3, <2>4 DEF Calmed
<1>8. ASSUME NEW f \in Fetchers, TakeItem(f) \/ FetchPage(f) \/ FetcherFails(f)
      PROVE  Calmed'
  <2>1. UNCHANGED <<article, fingerprint, poller, mentions, announced, mentioned, discovered>>
    BY <1>8 DEF TakeItem, FetchPage, FetcherFails, Failing
  <2>2. \A g \in Fetchers : fetcher'[g].at = "ack" => fetcher[g].at = "ack"
    BY <1>8 DEF TakeItem, FetchPage, FetcherFails, NotFetching, FetcherStates
  <2>3. Calm' => Calm
    BY <2>1, <2>2 DEF Calm
  <2> QED
    BY <1>3, <2>1, <2>3 DEF AnnouncedOrLater
<1>9. ASSUME NEW f \in Fetchers, MergeArticle(f) PROVE Calmed'
  <2>1. fetcher[f].version \in discovered' /\ fetcher'[f].at = "announce"
    BY <1>9 DEF MergeArticle, OneItem, Fetching, FetcherStates
  <2>2. \A g \in Fetchers : g # f => fetcher'[g].at = "idle"
    BY <1>9, FetchersMove DEF MergeArticle, OneItem, Fetching
  <2>3. ~Calm'
    BY <2>1, <2>2 DEF Calm
  <2> QED
    BY <2>3 DEF Calmed
<1>10. ASSUME NEW f \in Fetchers, AnnounceArticle(f) PROVE Calmed'
  <2>1. AnnouncedOrLater' = {fetcher[f].text}
    BY <1>10 DEF AnnounceArticle, AnnouncedOrLater
  <2>2. article = [title |-> fetcher[f].version, text |-> fetcher[f].text]
    BY <1>10 DEF AnnounceArticle, Written
  <2>3. fetcher[f].version \in discovered /\ fetcher[f].text \in Texts
    BY <1>10 DEF AnnounceArticle, OneItem, Fetching, FetchersOK
  <2>4. article # None
    BY <2>2, <2>3, TextsAssumption DEF Articles
  <2>5. fingerprint <= fetcher[f].version
    BY <2>3 DEF OneItem
  <2>6. poller.at = "put" => poller.version = fetcher[f].version
    BY <2>3 DEF OneItem
  <2>7. fetcher[f].version <= fetcher[f].version
    BY DEF FetcherStates
  <2>8. UNCHANGED <<article, fingerprint, poller, mentions>>
    BY <1>10 DEF AnnounceArticle
  <2>9. UpToText'
    BY <2>1, <2>2, <2>4, <2>5, <2>6, <2>7, <2>8 DEF UpToText
  <2> QED
    BY <2>9 DEF Calmed
<1>11. ASSUME NEW f \in Fetchers, AckItem(f) PROVE Calmed'
  <2>1. UNCHANGED <<article, fingerprint, poller, mentions, announced, mentioned>>
    BY <1>11 DEF AckItem
  <2>2. Calm
    BY <1>11 DEF AckItem, Calm
  <2> QED
    BY <1>3, <2>1, <2>2 DEF AnnouncedOrLater
<1>12. CASE ExtractMentions
  <2>1. AnnouncedOrLater' = AnnouncedOrLater
    <3>1. PICK text \in announced, found \in SUBSET Names :
              /\ announced' = announced \ {text}
              /\ mentioned' = mentioned \cup {[text |-> text, names |-> found]}
      BY <1>12 DEF ExtractMentions
    <3> DEFINE new == [text |-> text, names |-> found]
    <3>2. {m.text : m \in mentioned'} = {m.text : m \in mentioned} \cup {text}
      <4>1. new.text = text /\ mentioned' = mentioned \cup {new}
        BY <3>1
      <4> HIDE DEF new
      <4> QED
        BY <4>1
    <3> QED
      BY <3>1, <3>2 DEF AnnouncedOrLater
  <2>2. UNCHANGED <<article, fingerprint, poller, mentions, discovered, fetcher>>
    BY <1>12 DEF ExtractMentions
  <2> QED
    BY <1>3, <2>1, <2>2 DEF Calm
<1>13. ASSUME NEW r \in Resolvers,
              \/ TakeMentions(r) \/ ResolveCode(r) \/ ReadIndex(r) \/ LinkName(r)
              \/ Retract(r) \/ SendArticle(r) \/ ResolverFails(r)
       PROVE  Calmed'
  <2>1. UNCHANGED <<article, fingerprint, poller, discovered, fetcher, announced, mentioned>>
    BY <1>13 DEF TakeMentions, ResolveCode, ReadIndex, LinkName, Retract, SendArticle,
       ResolverFails, Failing
  <2>2. mentions' = mentions \/ Resolving(r)
    BY <1>13 DEF TakeMentions, ResolveCode, ReadIndex, LinkName, Retract, SendArticle,
       ResolverFails, Failing, Resolving
  <2> QED
    BY <1>2, <1>3, <2>1, <2>2 DEF Calm, AnnouncedOrLater
<1>14. ASSUME NEW r \in Resolvers, AckMentions(r) PROVE Calmed'
  <2>1. UNCHANGED <<article, fingerprint, poller, mentions, discovered, fetcher, announced>>
    BY <1>14 DEF AckMentions
  <2>2. Resolving(r) /\ resolver[r].at = "ack"
    BY <1>14 DEF AckMentions, Resolving
  <2>3. resolver[r].message.text \in AnnouncedOrLater /\ Stored(resolver[r].message.text)
    BY <1>2, <2>2 DEF Linked
  <2>4. AnnouncedOrLater' \subseteq AnnouncedOrLater
    BY <1>14 DEF AckMentions, AnnouncedOrLater
  <2>5. Calm => UpToText
    BY <2>3 DEF Calmed, Untouched
  <2>6. UpToText => resolver[r].message.text = article.text
    BY <2>3 DEF UpToText
  <2>7. UpToText => UpToText'
    BY <2>1, <2>3, <2>4, <2>6 DEF UpToText, Stored
  <2>8. Calm' => Calm
    BY <2>1 DEF Calm
  <2> QED
    BY <2>5, <2>7, <2>8 DEF Calmed
<1> QED
  BY <1>4, <1>5, <1>6, <1>7, <1>8, <1>9, <1>10, <1>11, <1>12, <1>13, <1>14, EveryStep
     DEF GiveUp, DeadLetterName

(* As long as nothing overlaps and nothing is lost, all of it is an        *)
(* invariant.                                                              *)
LEMMA FaithfulInvariance == Spec => []Faithful
<1>1. Typed /\ Faithful /\ [Next]_vars => Faithful'
  <2> SUFFICES ASSUME Typed, Faithful, [Next]_vars, ~overlapped', ~lost'
               PROVE  Careful'
    BY DEF Faithful
  <2>1. Careful
    BY HistoryStays DEF Faithful
  <2> QED
    BY <2>1, OneItemKept, OneTextKept, WrittenKept, LinkedKept, CalmedKept DEF Careful
<1> QED
  BY <1>1, InitFaithful, Invariance, PTL DEF Spec

(* An item at rest is stored as published: its latest version, linked to   *)
(* the codes its text names and no others, unless two versions or texts of *)
(* it were under way at a time or a message was lost.                      *)
THEOREM ItemsEndAsPublished == Spec => []StoredAsPublished
<1>1. Typed /\ Faithful => StoredAsPublished
  <2> SUFFICES ASSUME Typed, Careful, AtRest
               PROVE  /\ article.title = published /\ article.text.version = published
                      /\ Named[article.text] \cap Codes \subseteq mentions
                      /\ mentions \cap Deterministic \subseteq Named[article.text]
    BY DEF StoredAsPublished, Faithful
  <2>1. discovered = {} /\ AnnouncedOrLater = {} /\ fingerprint = published /\ published # 0
    BY DEF AtRest, UnderWay
  <2>2. UpToText
    BY <2>1 DEF Careful, Calmed, Calm, Untouched
  <2>3. Stored(article.text)
    BY <2>1, <2>2 DEF UpToText
  <2>4. published <= article.title /\ article.text.version \in article.title..published
    BY <2>1, <2>2 DEF UpToText, Typed, FetchersOK
  <2>5. article.title \in Nat /\ published \in Nat
    BY <2>2 DEF UpToText, Typed, TypeOK, Articles, Versions
  <2>6. article.title = published /\ article.text.version = published
    BY <2>4, <2>5
  <2> QED
    BY <2>3, <2>6 DEF Stored
<1> QED
  BY <1>1, Invariance, FaithfulInvariance, PTL
=============================================================================
