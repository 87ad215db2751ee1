------------------------ MODULE AssetMatchingProofs ------------------------
(***************************************************************************)
(* What holds of AssetMatching for any CVEs, matches, ranges and assets,   *)
(* any number of invocations and any changes and failures.                 *)
(***************************************************************************)
EXTENDS AssetMatching, TLAPS

(* Match m says that CVE c affects asset a.                                *)
Link(c, a, m) == <<c, m>> \in matches /\ Satisfies(Version[a], range[m])
Linked(c, a) == \E m \in Criteria : Link(c, a, m)
Announced(c, a) == \E m \in events : Link(c, a, m)

(* Invocation w has still to link CVE c to asset a: it holds a row of a    *)
(* match that says so, it has yet to read for the asset, or it has read.   *)
Owes(w, c, a) ==
    /\ matcher[w] # Idle
    /\ \/ /\ matcher[w].for \in Criteria
          /\ <<c, a>> \in matcher[w].rows
          /\ Link(c, a, matcher[w].for)
       \/ /\ matcher[w].for = a
          /\ matcher[w].at = "created" \/ <<c, a>> \in matcher[w].rows

(* An edge that should be and is not is excused, announced, or owed.       *)
Kept(c, a) ==
    \/ <<c, a>> \in affects \cup silent
    \/ Announced(c, a)
    \/ \E w \in Matchers : Owes(w, c, a)
Promised == \A c \in Cves, a \in assets : Linked(c, a) => Kept(c, a)

(* What the sweep will delete was not justified when it read candidates.   *)
SweepOK ==
    /\ sweep.at = "existing" =>
           \A p \in Pairs : p[2] \in sweep.page /\ p \notin sweep.wanted
                            => p \in sweep.unmatched
    /\ sweep.at = "write" => sweep.stale \subseteq sweep.unmatched

(* Only the API works on an asset it has yet to read for.                  *)
CreatedOK ==
    \A w \in Matchers :
        matcher[w] # Idle /\ matcher[w].at = "created" => matcher[w].for \in Assets

Inv == TypeOK /\ Promised /\ SweepOK /\ CreatedOK

-----------------------------------------------------------------------------
(* The queries, one pair at a time.                                        *)

(* Reading off the definitions: what Justified, Announced and Hits say of  *)
(* a single pair.                                                          *)
LEMMA JustifiedMeansLinked ==
    ASSUME NEW c \in Cves, NEW a
    PROVE  /\ <<c, a>> \in Justified <=> a \in assets /\ Linked(c, a)
           /\ <<c, a>> \in Justified' <=> a \in assets' /\ Linked(c, a)'
BY DEF Justified, Hits, Linked, Link

LEMMA AnnouncedMeansHit ==
    ASSUME NEW c \in Cves, NEW a
    PROVE  /\ <<c, a>> \in Hits(events, assets) <=> a \in assets /\ Announced(c, a)
           /\ <<c, a>> \in Hits(events, assets)' <=> a \in assets' /\ Announced(c, a)'
BY DEF Hits, Announced, Link

LEMMA HitOfOne ==
    ASSUME NEW c \in Cves, NEW a, NEW m
    PROVE  <<c, a>> \in Hits({m}, assets) <=> a \in assets /\ Link(c, a, m)
BY DEF Hits, Link

LEMMA HitForOne ==
    ASSUME NEW c \in Cves, NEW a
    PROVE  <<c, a>> \in Hits(Criteria, {a}) <=> Linked(c, a)
BY DEF Hits, Linked, Link

LEMMA HitsPairs ==
    ASSUME NEW S, NEW K
    PROVE  Hits(S, K) \subseteq Cves \X K
BY DEF Hits

(* Where the refresh does not step in between, a link stays what it is.    *)
LEMMA LinkStays ==
    ASSUME UNCHANGED nvd, NEW c, NEW a
    PROVE  /\ \A m : Link(c, a, m)' <=> Link(c, a, m)
           /\ Linked(c, a)' <=> Linked(c, a)
BY DEF nvd, Link, Linked

-----------------------------------------------------------------------------
(* Types.                                                                  *)

MatcherType == {Idle} \cup Work

LEMMA HitsType ==
    ASSUME TypeOK, NEW S, NEW K, K \subseteq Assets
    PROVE  Hits(S, K) \subseteq Pairs
BY DEF Hits, Pairs

LEMMA AffectsType ==
    ASSUME TypeOK
    PROVE  affects \subseteq Pairs /\ Justified \subseteq Cves \X assets /\ Justified \subseteq Pairs
BY DEF TypeOK, Pairs, Justified, Hits

LEMMA JustifiedTypeAfter ==
    ASSUME assets' \subseteq Assets
    PROVE  (Justified \ Hits(events, assets))' \subseteq Pairs
BY DEF Justified, Hits, Pairs

LEMMA ResyncType ==
    ASSUME TypeOK, NEW c \in Cves, Resync(c)
    PROVE  TypeOK'
<1>1. PICK listed \in SUBSET Criteria : \E given \in [listed -> Ranges] :
           /\ matches' = {x \in matches : x[1] # c} \cup ({c} \X listed)
           /\ range' = [m \in Criteria |-> IF m \in listed THEN given[m] ELSE range[m]]
           /\ \/ events' = events \cup {m \in listed : <<c, m>> \notin matches}
              \/ events' = events
  BY DEF Resync
<1>2. matches' \subseteq Cves \X Criteria
  BY <1>1 DEF TypeOK
<1>3. range' \in [Criteria -> Ranges]
  BY <1>1 DEF TypeOK
<1>4. events' \subseteq Criteria
  BY <1>1 DEF TypeOK
<1>5. silent' \subseteq Pairs
  BY JustifiedTypeAfter DEF Resync, TypeOK
<1>6. changes' \in 0..MaxChanges
  BY BoundsAssumption DEF Resync, Change, TypeOK
<1>7. QED
  BY <1>2, <1>3, <1>4, <1>5, <1>6 DEF Resync, TypeOK

LEMMA CreateType ==
    ASSUME TypeOK, NEW w \in Matchers, NEW a \in Assets, CreateAsset(w, a)
    PROVE  TypeOK'
<1>1. [at |-> "created", for |-> a, rows |-> {}] \in MatcherType
  BY DEF MatcherType, Work
<1>2. matcher' \in [Matchers -> MatcherType]
  BY <1>1 DEF CreateAsset, TypeOK, MatcherType
<1>3. changes' \in 0..MaxChanges
  BY BoundsAssumption DEF CreateAsset, Change, TypeOK
<1>4. QED
  BY <1>2, <1>3 DEF CreateAsset, nvd, TypeOK, MatcherType

LEMMA MatchType ==
    ASSUME TypeOK, CreatedOK, NEW w \in Matchers, MatchAsset(w)
    PROVE  TypeOK' /\ matcher[w].for \in Assets
<1>1. matcher[w].for \in Assets
  BY DEF MatchAsset, CreatedOK
<1>2. Hits(Criteria, {matcher[w].for}) \subseteq Pairs
  BY <1>1, HitsType
<1>3. [at |-> "read", for |-> matcher[w].for,
       rows |-> Hits(Criteria, {matcher[w].for})] \in MatcherType
  BY <1>1, <1>2 DEF MatcherType, Work
<1>4. matcher' \in [Matchers -> MatcherType]
  BY <1>3 DEF MatchAsset, TypeOK, MatcherType
<1>5. QED
  BY <1>1, <1>4 DEF MatchAsset, nvd, TypeOK, MatcherType

LEMMA DeleteType ==
    ASSUME TypeOK, NEW a \in Assets, DeleteAsset(a)
    PROVE  TypeOK'
<1>1. affects' \subseteq Cves \X assets'
  BY DEF DeleteAsset, TypeOK
<1>2. changes' \in 0..MaxChanges
  BY BoundsAssumption DEF DeleteAsset, Change, TypeOK
<1>3. QED
  BY <1>1, <1>2 DEF DeleteAsset, nvd, TypeOK

LEMMA ReceiveType ==
    ASSUME TypeOK, NEW w \in Matchers, ReceiveEvent(w)
    PROVE  TypeOK'
<1>1. PICK m \in events :
          /\ matcher' = [matcher EXCEPT ![w] = [at |-> "read", for |-> m, rows |-> Found(m)]]
          /\ events' \in {events, events \ {m}}
  BY DEF ReceiveEvent
<1>2. Found(m) \subseteq Pairs
  BY HitsType DEF Found, TypeOK
<1>3. [at |-> "read", for |-> m, rows |-> Found(m)] \in MatcherType
  BY <1>2 DEF MatcherType, Work, TypeOK
<1>4. matcher' \in [Matchers -> MatcherType]
  BY <1>1, <1>3 DEF TypeOK, MatcherType
<1>5. events' \subseteq Criteria
  BY <1>1 DEF TypeOK
<1>6. QED
  BY <1>4, <1>5 DEF ReceiveEvent, nvd, TypeOK, MatcherType

LEMMA RowsType ==
    ASSUME TypeOK, NEW w \in Matchers, matcher[w] # Idle
    PROVE  matcher[w].rows \subseteq Pairs /\ matcher[w].for \in Assets \cup Criteria
BY DEF TypeOK, Work

LEMMA WriteType ==
    ASSUME TypeOK, NEW w \in Matchers, WriteEdges(w)
    PROVE  TypeOK'
<1>1. matcher[w].rows \subseteq Cves \X assets
  BY RowsType DEF WriteEdges, Writable, Pairs
<1>2. affects' \subseteq Cves \X assets'
  BY <1>1 DEF WriteEdges, TypeOK
<1>3. matcher' \in [Matchers -> MatcherType]
  BY DEF WriteEdges, TypeOK, MatcherType
<1>4. QED
  BY <1>2, <1>3 DEF WriteEdges, nvd, TypeOK, MatcherType

LEMMA MatcherFailsType ==
    ASSUME TypeOK, NEW w \in Matchers, MatcherFails(w)
    PROVE  TypeOK'
<1>1. matcher[w].for \in Assets \cup Criteria
  BY RowsType DEF MatcherFails
<1>2. Hits({matcher[w].for}, assets) \subseteq Pairs
  BY HitsType DEF TypeOK
<1>3. matcher[w].for \notin Criteria => Cves \X {matcher[w].for} \subseteq Pairs
  BY <1>1 DEF Pairs
<1>4. silent' \subseteq Pairs
  BY <1>2, <1>3 DEF MatcherFails, TypeOK
<1>5. events' \subseteq Criteria
  BY DEF MatcherFails, TypeOK
<1>6. matcher' \in [Matchers -> MatcherType]
  BY DEF MatcherFails, TypeOK, MatcherType
<1>7. crashes' \in 0..MaxCrashes
  BY BoundsAssumption DEF MatcherFails, Crash, TypeOK
<1>8. QED
  BY <1>4, <1>5, <1>6, <1>7 DEF MatcherFails, nvd, TypeOK, MatcherType

SweepType == [at : {"idle", "candidates", "existing", "write"},
              page : SUBSET Assets, wanted : SUBSET Pairs,
              stale : SUBSET Pairs, unmatched : SUBSET Pairs]

(* The types of what the sweep holds.                                      *)
LEMMA SweepFields ==
    ASSUME TypeOK
    PROVE  /\ sweep.page \subseteq Assets /\ sweep.wanted \subseteq Pairs
           /\ sweep.stale \subseteq Pairs /\ sweep.unmatched \subseteq Pairs
           /\ Done \in SweepType
BY DEF TypeOK, SweepType, Done

(* The steps that only read.                                               *)
LEMMA SweepReadsType ==
    ASSUME TypeOK, SweepPage \/ SweepCandidates \/ SweepExisting \/ SweepEnd \/ SweepFails
    PROVE  TypeOK'
<1>1. sweep' \in SweepType
  <2>1. CASE SweepPage
    <3>1. FirstPage \subseteq Assets
      BY DEF FirstPage, TypeOK
    <3>2. QED
      BY <2>1, <3>1 DEF SweepPage, Done, SweepType
  <2>2. CASE SweepCandidates
    <3>1. Hits(Criteria, sweep.page) \subseteq Pairs /\ Pairs \ Justified \subseteq Pairs
      BY HitsType, SweepFields
    <3>2. QED
      BY <2>2, <3>1 DEF SweepCandidates, TypeOK, SweepType
  <2>3. CASE SweepExisting
    <3>1. Stale \subseteq Pairs
      BY AffectsType DEF Stale
    <3>2. QED
      BY <2>3, <3>1 DEF SweepExisting, TypeOK, SweepType
  <2>4. CASE SweepEnd
    BY <2>4, SweepFields DEF SweepEnd
  <2>5. CASE SweepFails
    BY <2>5, SweepFields DEF SweepFails
  <2>6. QED
    BY <2>1, <2>2, <2>3, <2>4, <2>5
<1>2. crashes' \in 0..MaxCrashes
  BY BoundsAssumption
     DEF SweepPage, SweepCandidates, SweepExisting, SweepEnd, SweepFails, Crash, TypeOK
<1>3. UNCHANGED <<assets, nvd, affects, events, matcher, changes, silent>>
  BY DEF SweepPage, SweepCandidates, SweepExisting, SweepEnd, SweepFails
<1>4. QED
  BY <1>1, <1>2, <1>3 DEF nvd, TypeOK, SweepType

LEMMA SweepWriteType ==
    ASSUME TypeOK, SweepWrite
    PROVE  TypeOK'
<1>1. PICK p \in sweep.wanted :
          /\ affects' = affects \cup {q \in {p} : q[2] \in assets}
          /\ sweep' = [sweep EXCEPT !.wanted = @ \ {p}]
  BY DEF SweepWrite
<1>2. p \in Cves \X Assets
  BY <1>1, SweepFields DEF Pairs
<1>3. affects' \subseteq Cves \X assets
  BY <1>1, <1>2 DEF TypeOK
<1>4. sweep' \in SweepType
  BY <1>1 DEF TypeOK, SweepType
<1>5. QED
  BY <1>3, <1>4 DEF SweepWrite, nvd, TypeOK, SweepType

LEMMA SweepDeleteType ==
    ASSUME TypeOK, SweepDelete
    PROVE  TypeOK'
<1>1. PICK p \in sweep.stale :
          /\ affects' = affects \ {p}
          /\ silent' = silent \cup ({p} \cap sweep.unmatched)
          /\ sweep' = [sweep EXCEPT !.stale = @ \ {p}]
  BY DEF SweepDelete
<1>2. silent' \subseteq Pairs
  BY <1>1, SweepFields DEF TypeOK
<1>3. sweep' \in SweepType
  BY <1>1 DEF TypeOK, SweepType
<1>4. QED
  BY <1>1, <1>2, <1>3 DEF SweepDelete, nvd, TypeOK, SweepType

LEMMA InitInv == Init => Inv
<1> SUFFICES ASSUME Init PROVE Inv
  OBVIOUS
<1>1. TypeOK
  <2>1. Justified \subseteq Cves \X assets
    BY HitsPairs DEF Justified
  <2>2. QED
    BY <2>1, BoundsAssumption DEF Init, TypeOK, Done
<1>2. Promised
  BY JustifiedMeansLinked DEF Init, Promised, Kept
<1>3. SweepOK /\ CreatedOK
  BY DEF Init, Done, SweepOK, CreatedOK
<1>4. QED
  BY <1>1, <1>2, <1>3 DEF Inv

-----------------------------------------------------------------------------
(* The sweep deletes only what it found unjustified.                       *)

LEMMA SweepOKStays ==
    ASSUME SweepOK, UNCHANGED sweep
    PROVE  SweepOK'
BY DEF SweepOK

LEMMA CandidatesKeepSweepOK ==
    ASSUME TypeOK, SweepCandidates
    PROVE  SweepOK'
<1>1. /\ sweep'.at = "existing" /\ sweep'.page = sweep.page
      /\ sweep'.wanted = Hits(Criteria, sweep.page)
      /\ sweep'.unmatched = Pairs \ Justified
  BY DEF SweepCandidates, TypeOK
<1>2. ASSUME NEW c \in Cves, NEW a \in Assets, a \in sweep.page,
             <<c, a>> \notin Hits(Criteria, sweep.page)
      PROVE  <<c, a>> \notin Justified
  BY <1>2 DEF Hits, Justified
<1>3. QED
  BY <1>1, <1>2 DEF SweepOK, Pairs

LEMMA ExistingKeepsSweepOK ==
    ASSUME TypeOK, SweepOK, SweepExisting
    PROVE  SweepOK'
<1>1. /\ sweep'.at = "write" /\ sweep'.stale = Stale
      /\ sweep'.unmatched = sweep.unmatched
  BY DEF SweepExisting, TypeOK
<1>2. Stale \subseteq sweep.unmatched
  BY AffectsType DEF SweepExisting, SweepOK, Stale
<1>3. QED
  BY <1>1, <1>2 DEF SweepOK

-----------------------------------------------------------------------------
(* No promise is broken.                                                   *)

(* A promise stays kept while the match, its link and those who owe it     *)
(* stay.                                                                   *)
LEMMA PromiseStays ==
    ASSUME Promised, UNCHANGED <<assets, nvd, affects, events, matcher, silent>>
    PROVE  Promised'
BY DEF Promised, Kept, Linked, Announced, Owes, Link, nvd

(* It is enough to look at the pairs whose promise was kept before.        *)
LEMMA PromiseKept ==
    ASSUME Promised, UNCHANGED nvd, assets' \subseteq assets,
           \A c \in Cves, a \in assets' : Linked(c, a) /\ Kept(c, a) => Kept(c, a)'
    PROVE  Promised'
<1> SUFFICES ASSUME NEW c \in Cves, NEW a \in assets', Linked(c, a)'
             PROVE  Kept(c, a)'
  BY DEF Promised
<1>1. Linked(c, a) /\ a \in assets
  BY LinkStays
<1>2. Kept(c, a)
  BY <1>1 DEF Promised
<1>3. QED
  BY <1>1, <1>2

LEMMA OwesStays ==
    ASSUME UNCHANGED nvd, NEW v, matcher'[v] = matcher[v], NEW c, NEW a, Owes(v, c, a)
    PROVE  Owes(v, c, a)'
BY LinkStays DEF Owes

LEMMA AnnouncedStays ==
    ASSUME UNCHANGED nvd, events \subseteq events', NEW c, NEW a, Announced(c, a)
    PROVE  Announced(c, a)'
BY LinkStays DEF Announced

(* A promise stays kept that invocation w has no part in.                  *)
LEMMA OthersKeep ==
    ASSUME TypeOK, UNCHANGED nvd, affects \cup silent \subseteq affects' \cup silent',
           events \subseteq events',
           NEW w \in Matchers, \A v \in Matchers \ {w} : matcher'[v] = matcher[v],
           NEW c, NEW a, Kept(c, a), ~Owes(w, c, a)
    PROVE  Kept(c, a)'
<1>1. CASE <<c, a>> \in affects \cup silent
  BY <1>1 DEF Kept
<1>2. CASE Announced(c, a)
  BY <1>2, AnnouncedStays DEF Kept
<1>3. CASE \E v \in Matchers : Owes(v, c, a)
  <2>1. PICK v \in Matchers \ {w} : Owes(v, c, a)
    BY <1>3
  <2>2. Owes(v, c, a)'
    BY <2>1, OwesStays
  <2>3. QED
    BY <2>1, <2>2 DEF Kept
<1>4. QED
  BY <1>1, <1>2, <1>3 DEF Kept

(* What a refresh brings is announced, or excused as it happens.           *)
LEMMA ResyncPromised ==
    ASSUME TypeOK, NEW k \in Cves, Resync(k)
    PROVE  Promised'
<1> SUFFICES ASSUME NEW c \in Cves, NEW a \in assets', Linked(c, a)',
                    ~Announced(c, a)', <<c, a>> \notin affects'
             PROVE  <<c, a>> \in silent'
  BY DEF Promised, Kept
<1>1. <<c, a>> \in Justified' /\ <<c, a>> \notin Hits(events, assets)'
  BY JustifiedMeansLinked, AnnouncedMeansHit
<1>2. /\ silent' = silent \cup ((Justified \ Hits(events, assets))' \ affects)
      /\ affects' = affects
  BY DEF Resync
<1>3. QED
  BY <1>1, <1>2

(* One lemma per operation: whoever made a pair match, or took a link      *)
(* away, owes the pair a resync.                                           *)
LEMMA CreatePromised ==
    ASSUME TypeOK, Promised, NEW w \in Matchers, NEW b \in Assets, CreateAsset(w, b)
    PROVE  Promised'
<1>1. /\ UNCHANGED <<nvd, affects, events, silent>> /\ matcher[w] = Idle
      /\ assets' = assets \cup {b}
      /\ \A v \in Matchers \ {w} : matcher'[v] = matcher[v]
      /\ matcher'[w] = [at |-> "created", for |-> b, rows |-> {}]
  BY DEF CreateAsset, TypeOK
<1> SUFFICES ASSUME NEW c \in Cves, NEW a \in assets', Linked(c, a)'
             PROVE  Kept(c, a)'
  BY DEF Promised
<1>2. CASE a = b
  <2>1. matcher'[w] # Idle
    BY <1>1, IdleAssumption DEF Work
  <2>2. QED
    BY <1>1, <1>2, <2>1 DEF Kept, Owes
<1>3. CASE a # b
  <2>1. a \in assets /\ Linked(c, a)
    BY <1>1, <1>3, LinkStays
  <2>2. Kept(c, a) /\ ~Owes(w, c, a)
    BY <1>1, <2>1 DEF Promised, Owes
  <2>3. QED
    BY <1>1, <2>2, OthersKeep
<1>4. QED
  BY <1>2, <1>3

LEMMA MatchPromised ==
    ASSUME TypeOK, CreatedOK, Promised, NEW w \in Matchers, MatchAsset(w)
    PROVE  Promised'
<1>1. /\ UNCHANGED <<assets, nvd, affects, events, silent>>
      /\ \A v \in Matchers \ {w} : matcher'[v] = matcher[v]
      /\ matcher'[w] = [at |-> "read", for |-> matcher[w].for,
                        rows |-> Hits(Criteria, {matcher[w].for})]
      /\ matcher[w] # Idle
  BY DEF MatchAsset, TypeOK
<1>2. matcher[w].for \in Assets /\ matcher[w].for \notin Criteria
  BY AssetsAssumption DEF MatchAsset, CreatedOK
<1>3. matcher'[w] # Idle
  <2>1. Hits(Criteria, {matcher[w].for}) \subseteq Pairs
    BY <1>2, HitsType
  <2>2. matcher'[w] \in Work
    BY <1>1, <1>2, <2>1 DEF Work
  <2>3. QED
    BY <2>2, IdleAssumption
<1> SUFFICES ASSUME NEW c \in Cves, NEW a \in assets', Linked(c, a), Kept(c, a)
             PROVE  Kept(c, a)'
  BY <1>1, PromiseKept
<1>4. CASE Owes(w, c, a)
  <2>1. matcher[w].for = a
    BY <1>2, <1>4 DEF Owes
  <2>2. <<c, a>> \in matcher'[w].rows
    BY <1>1, <2>1, HitForOne
  <2>3. matcher'[w].for = a
    BY <1>1, <2>1
  <2>4. QED
    BY <1>3, <2>2, <2>3 DEF Kept, Owes
<1>5. CASE ~Owes(w, c, a)
  BY <1>1, <1>5, OthersKeep
<1>6. QED
  BY <1>4, <1>5

LEMMA DeletePromised ==
    ASSUME Promised, NEW b \in assets, DeleteAsset(b)
    PROVE  Promised'
<1>1. /\ UNCHANGED <<nvd, events, matcher, silent>> /\ assets' = assets \ {b}
      /\ affects' = {p \in affects : p[2] # b}
  BY DEF DeleteAsset
<1> SUFFICES ASSUME NEW c \in Cves, NEW a \in assets', Linked(c, a), Kept(c, a)
             PROVE  Kept(c, a)'
  BY <1>1, PromiseKept
<1>2. a # b
  BY <1>1
<1>3. CASE <<c, a>> \in affects \cup silent
  BY <1>1, <1>2, <1>3 DEF Kept
<1>4. CASE Announced(c, a)
  BY <1>1, <1>4, AnnouncedStays DEF Kept
<1>5. CASE \E v \in Matchers : Owes(v, c, a)
  BY <1>1, <1>5, OwesStays DEF Kept
<1>6. QED
  BY <1>3, <1>4, <1>5 DEF Kept

LEMMA ReceivePromised ==
    ASSUME TypeOK, Promised, NEW w \in Matchers, ReceiveEvent(w)
    PROVE  Promised'
<1>1. PICK m \in events :
          /\ matcher' = [matcher EXCEPT ![w] = [at |-> "read", for |-> m, rows |-> Found(m)]]
          /\ events' \in {events, events \ {m}}
  BY DEF ReceiveEvent
<1>2. /\ UNCHANGED <<assets, nvd, affects, silent>> /\ matcher[w] = Idle
      /\ \A v \in Matchers \ {w} : matcher'[v] = matcher[v]
      /\ matcher'[w] = [at |-> "read", for |-> m, rows |-> Found(m)]
  BY <1>1 DEF ReceiveEvent, TypeOK
<1>3. m \in Criteria
  BY <1>1 DEF TypeOK
<1>4. matcher'[w] # Idle
  <2>1. Found(m) \subseteq Pairs
    BY HitsType DEF Found, TypeOK
  <2>2. matcher'[w] \in Work
    BY <1>2, <1>3, <2>1 DEF Work
  <2>3. QED
    BY <2>2, IdleAssumption
<1> SUFFICES ASSUME NEW c \in Cves, NEW a \in assets', Linked(c, a), Kept(c, a)
             PROVE  Kept(c, a)'
  BY <1>2, PromiseKept
<1>5. CASE <<c, a>> \in affects \cup silent
  BY <1>2, <1>5 DEF Kept
<1>6. CASE Announced(c, a)
  <2>1. PICK n \in events : Link(c, a, n)
    BY <1>6 DEF Announced
  <2>2. CASE n = m
    <3>1. <<c, a>> \in Found(m) /\ Link(c, a, m)'
      BY <1>2, <2>1, <2>2, HitOfOne, LinkStays DEF Found
    <3>2. Owes(w, c, a)'
      BY <1>2, <1>3, <1>4, <3>1 DEF Owes
    <3>3. QED
      BY <3>2 DEF Kept
  <2>3. CASE n # m
    <3>1. n \in events' /\ Link(c, a, n)'
      BY <1>1, <1>2, <2>1, <2>3, LinkStays
    <3>2. QED
      BY <3>1 DEF Kept, Announced
  <2>4. QED
    BY <2>2, <2>3
<1>7. CASE \E v \in Matchers : Owes(v, c, a)
  <2>1. PICK v \in Matchers : Owes(v, c, a)
    BY <1>7
  <2>2. v # w
    BY <1>2, <2>1 DEF Owes
  <2>3. Owes(v, c, a)'
    BY <1>2, <2>1, <2>2, OwesStays
  <2>4. QED
    BY <2>3 DEF Kept
<1>8. QED
  BY <1>5, <1>6, <1>7 DEF Kept

LEMMA WritePromised ==
    ASSUME TypeOK, CreatedOK, Promised, NEW w \in Matchers, WriteEdges(w)
    PROVE  Promised'
<1>1. /\ UNCHANGED <<assets, nvd, events, silent>>
      /\ affects' = affects \cup matcher[w].rows
      /\ matcher[w].at = "read"
      /\ \A v \in Matchers \ {w} : matcher'[v] = matcher[v]
  BY DEF WriteEdges, TypeOK
<1> SUFFICES ASSUME NEW c \in Cves, NEW a \in assets', Linked(c, a), Kept(c, a)
             PROVE  Kept(c, a)'
  BY <1>1, PromiseKept
<1>2. CASE Owes(w, c, a)
  BY <1>1, <1>2 DEF Kept, Owes
<1>3. CASE ~Owes(w, c, a)
  BY <1>1, <1>3, OthersKeep
<1>4. QED
  BY <1>2, <1>3

LEMMA MatcherFailsPromised ==
    ASSUME TypeOK, Promised, NEW w \in Matchers, MatcherFails(w)
    PROVE  Promised'
<1>0. PICK x : x = matcher[w].for
  OBVIOUS
<1>1. /\ UNCHANGED <<assets, nvd, affects>>
      /\ \A v \in Matchers \ {w} : matcher'[v] = matcher[v]
      /\ events \subseteq events' /\ silent \subseteq silent'
      /\ x \in Criteria => x \in events' \/ Hits({x}, assets) \subseteq silent'
      /\ x \notin Criteria => Cves \X {x} \subseteq silent'
  BY <1>0 DEF MatcherFails, TypeOK
<1> SUFFICES ASSUME NEW c \in Cves, NEW a \in assets', Linked(c, a), Kept(c, a)
             PROVE  Kept(c, a)'
  BY <1>1, PromiseKept
<1>2. CASE Owes(w, c, a) /\ x \in Criteria
  <2>1. a \in assets /\ a # x
    BY <1>1, <1>2, AssetsAssumption DEF TypeOK
  <2>2. Link(c, a, x)
    BY <1>0, <1>2, <2>1 DEF Owes
  <2>3. Link(c, a, x)'
    BY <1>1, <2>2, LinkStays
  <2>4. <<c, a>> \in Hits({x}, assets)
    BY <2>1, <2>2, HitOfOne
  <2>5. Announced(c, a)' \/ <<c, a>> \in silent'
    BY <1>1, <1>2, <2>3, <2>4 DEF Announced
  <2>6. QED
    BY <2>5 DEF Kept
<1>3. CASE Owes(w, c, a) /\ x \notin Criteria
  <2>1. <<c, a>> \in Cves \X {x}
    BY <1>0, <1>3 DEF Owes
  <2>2. QED
    BY <1>1, <1>3, <2>1 DEF Kept
<1>4. CASE ~Owes(w, c, a)
  BY <1>1, <1>4, OthersKeep
<1>5. QED
  BY <1>2, <1>3, <1>4

LEMMA SweepWritePromised ==
    ASSUME Promised, SweepWrite
    PROVE  Promised'
<1>1. /\ UNCHANGED <<assets, nvd, events, matcher, silent>>
      /\ affects \subseteq affects'
  BY DEF SweepWrite
<1> SUFFICES ASSUME NEW c \in Cves, NEW a \in assets', Linked(c, a), Kept(c, a)
             PROVE  Kept(c, a)'
  BY <1>1, PromiseKept
<1>2. CASE <<c, a>> \in affects \cup silent
  BY <1>1, <1>2 DEF Kept
<1>3. CASE Announced(c, a)
  BY <1>1, <1>3, AnnouncedStays DEF Kept
<1>4. CASE \E v \in Matchers : Owes(v, c, a)
  BY <1>1, <1>4, OwesStays DEF Kept
<1>5. QED
  BY <1>2, <1>3, <1>4 DEF Kept

(* What the sweep deletes it had found unjustified, so it is excused.      *)
LEMMA SweepDeletePromised ==
    ASSUME Promised, SweepOK, SweepDelete
    PROVE  Promised'
<1>1. PICK p \in sweep.stale :
          /\ affects' = affects \ {p}
          /\ silent' = silent \cup ({p} \cap sweep.unmatched)
  BY DEF SweepDelete
<1>2. p \in sweep.unmatched
  BY DEF SweepDelete, SweepOK
<1>3. /\ UNCHANGED <<assets, nvd, events, matcher>>
      /\ affects \cup silent \subseteq affects' \cup silent'
  BY <1>1, <1>2 DEF SweepDelete
<1> SUFFICES ASSUME NEW c \in Cves, NEW a \in assets', Linked(c, a), Kept(c, a)
             PROVE  Kept(c, a)'
  BY <1>3, PromiseKept
<1>4. CASE <<c, a>> \in affects \cup silent
  BY <1>3, <1>4 DEF Kept
<1>5. CASE Announced(c, a)
  BY <1>3, <1>5, AnnouncedStays DEF Kept
<1>6. CASE \E v \in Matchers : Owes(v, c, a)
  BY <1>3, <1>6, OwesStays DEF Kept
<1>7. QED
  BY <1>4, <1>5, <1>6 DEF Kept

-----------------------------------------------------------------------------
(* Only the API starts an invocation that has yet to read.                 *)

LEMMA CreatedOKStays ==
    ASSUME CreatedOK, UNCHANGED matcher
    PROVE  CreatedOK'
BY DEF CreatedOK

LEMMA CreatedOKKept ==
    ASSUME TypeOK, CreatedOK, NEW w \in Matchers,
           \A v \in Matchers \ {w} : matcher'[v] = matcher[v],
           matcher'[w] = Idle \/ matcher'[w].at = "read" \/ matcher'[w].for \in Assets
    PROVE  CreatedOK'
BY DEF CreatedOK

-----------------------------------------------------------------------------
(* The invariant.                                                          *)

LEMMA ApiKeepsInv ==
    ASSUME Inv, NEW w \in Matchers,
           (\E a \in Assets : CreateAsset(w, a)) \/ MatchAsset(w)
               \/ ReceiveEvent(w) \/ WriteEdges(w) \/ MatcherFails(w)
    PROVE  Inv'
<1>1. TypeOK /\ CreatedOK /\ Promised /\ SweepOK
  BY DEF Inv
<1>2. UNCHANGED sweep
  BY DEF CreateAsset, MatchAsset, ReceiveEvent, WriteEdges, MatcherFails
<1>3. SweepOK'
  BY <1>1, <1>2, SweepOKStays
<1>4. \A v \in Matchers \ {w} : matcher'[v] = matcher[v]
  BY <1>1 DEF CreateAsset, MatchAsset, ReceiveEvent, WriteEdges, MatcherFails, TypeOK
<1>5. matcher'[w] = Idle \/ matcher'[w].at = "read" \/ matcher'[w].for \in Assets
  BY <1>1 DEF CreateAsset, MatchAsset, ReceiveEvent, WriteEdges, MatcherFails, TypeOK
<1>6. CreatedOK'
  BY <1>1, <1>4, <1>5, CreatedOKKept
<1>7. TypeOK' /\ Promised'
  BY <1>1, CreateType, MatchType, ReceiveType, WriteType, MatcherFailsType,
     CreatePromised, MatchPromised, ReceivePromised, WritePromised, MatcherFailsPromised
<1>8. QED
  BY <1>3, <1>6, <1>7 DEF Inv

LEMMA SweepKeepsInv ==
    ASSUME Inv, Sweeping \/ SweepFails
    PROVE  Inv'
<1>1. TypeOK /\ CreatedOK /\ Promised /\ SweepOK
  BY DEF Inv
<1>2. TypeOK'
  BY <1>1, SweepReadsType, SweepWriteType, SweepDeleteType DEF Sweeping
<1>3. CreatedOK'
  <2>1. UNCHANGED matcher
    BY DEF Sweeping, SweepPage, SweepCandidates, SweepExisting, SweepWrite, SweepDelete,
           SweepEnd, SweepFails
  <2>2. QED
    BY <1>1, <2>1, CreatedOKStays
<1>4. SweepOK'
  <2>1. CASE SweepPage \/ SweepEnd \/ SweepFails
    <3>1. CASE SweepPage
      <4>1. sweep'.at = "candidates"
        BY <3>1 DEF SweepPage, Done
      <4>2. QED
        BY <4>1 DEF SweepOK
    <3>2. CASE SweepEnd \/ SweepFails
      <4>1. sweep' = Done /\ Done.at = "idle"
        BY <3>2 DEF SweepEnd, SweepFails, Done
      <4>2. QED
        BY <4>1 DEF SweepOK
    <3>3. QED
      BY <2>1, <3>1, <3>2
  <2>2. CASE SweepCandidates
    BY <1>1, <2>2, CandidatesKeepSweepOK
  <2>3. CASE SweepExisting
    BY <1>1, <2>3, ExistingKeepsSweepOK
  <2>4. CASE SweepWrite \/ SweepDelete
    <3>1. /\ sweep'.at = "write" /\ sweep'.stale \subseteq sweep.stale
          /\ sweep'.unmatched = sweep.unmatched /\ sweep.at = "write"
      BY <1>1, <2>4 DEF SweepWrite, SweepDelete, TypeOK
    <3>2. QED
      BY <1>1, <3>1 DEF SweepOK
  <2>5. QED
    BY <2>1, <2>2, <2>3, <2>4 DEF Sweeping
<1>5. Promised'
  <2>1. CASE SweepPage \/ SweepCandidates \/ SweepExisting \/ SweepEnd \/ SweepFails
    <3>1. UNCHANGED <<assets, nvd, affects, events, matcher, silent>>
      BY <2>1 DEF SweepPage, SweepCandidates, SweepExisting, SweepEnd, SweepFails
    <3>2. QED
      BY <1>1, <3>1, PromiseStays
  <2>2. QED
    BY <1>1, <2>1, SweepWritePromised, SweepDeletePromised DEF Sweeping
<1>6. QED
  BY <1>2, <1>3, <1>4, <1>5 DEF Inv

(* Every step keeps the invariant.                                         *)
LEMMA NextInv == Inv /\ [Next]_vars => Inv'
<1> SUFFICES ASSUME Inv, [Next]_vars PROVE Inv'
  OBVIOUS
<1>1. TypeOK /\ CreatedOK /\ Promised /\ SweepOK
  BY DEF Inv
<1>2. ASSUME NEW c \in Cves, Resync(c) PROVE Inv'
  <2>1. UNCHANGED <<matcher, sweep>>
    BY <1>2 DEF Resync
  <2>2. QED
    BY <1>1, <1>2, <2>1, ResyncType, ResyncPromised, SweepOKStays, CreatedOKStays DEF Inv
<1>3. ASSUME NEW a \in Assets, DeleteAsset(a) PROVE Inv'
  <2>1. UNCHANGED <<matcher, sweep>> /\ a \in assets
    BY <1>3 DEF DeleteAsset
  <2>2. QED
    BY <1>1, <1>3, <2>1, DeleteType, DeletePromised, SweepOKStays, CreatedOKStays DEF Inv
<1>4. CASE UNCHANGED vars
  <2>1. UNCHANGED <<assets, nvd, affects, events, matcher, sweep, changes, crashes, silent>>
    BY <1>4 DEF vars
  <2>2. TypeOK'
    BY <1>1, <2>1 DEF TypeOK, nvd
  <2>3. QED
    BY <1>1, <2>1, <2>2, PromiseStays, SweepOKStays, CreatedOKStays DEF Inv
<1>5. QED
  BY <1>2, <1>3, <1>4, ApiKeepsInv, SweepKeepsInv DEF Next

(* The inductive invariant holds: types, and for every match that is not   *)
(* linked somebody who still owes it.                                      *)
THEOREM Invariance == Spec => []Inv
<1>1. QED
  BY InitInv, NextInv, PTL DEF Spec

(* Types, and that an edge always has its asset: a delete by the API       *)
(* leaves no edge behind and nothing that writes afterwards brings one.    *)
THEOREM TypeCorrect == Spec => []TypeOK
<1>1. Inv => TypeOK
  BY DEF Inv
<1>2. QED
  BY Invariance, <1>1, PTL

(* Whoever comes first of an asset and a match, and whatever the sweep     *)
(* deletes meanwhile, a CVE that matches is linked once the announcements  *)
(* and the invocations are done with, unless it is one of those excused.   *)
THEOREM NoMatchForgotten == Spec => []Prompt
<1>1. ASSUME Inv PROVE Prompt
  <2> SUFFICES ASSUME events = {}, \A w \in Matchers : matcher[w] = Idle,
                      NEW p \in Justified, p \notin affects
               PROVE  p \in silent
    BY DEF Prompt
  <2>1. PICK c \in Cves, a \in assets : p = <<c, a>>
    BY <1>1, AffectsType DEF Inv
  <2>2. Linked(c, a)
    BY <2>1, JustifiedMeansLinked
  <2>3. Kept(c, a)
    BY <1>1, <2>2 DEF Inv, Promised
  <2>4. QED
    BY <2>1, <2>3 DEF Kept, Announced, Owes
<1>2. QED
  BY Invariance, <1>1, PTL
=============================================================================
