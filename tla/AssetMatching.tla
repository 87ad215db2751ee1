---------------------------- MODULE AssetMatching ----------------------------
(***************************************************************************)
(* Which CVEs affect which of the user's assets.  An AFFECTS edge is       *)
(* derived: the CVE MATCHES a CPEMatch of the asset's vendor and product   *)
(* whose range holds the asset's version.  Three writers keep it: the API  *)
(* when an asset is created, the event handler when a CPEMatch is new to a *)
(* CVE, and the daily sweep, which alone takes edges away.  The NVD        *)
(* refresh changes what they derive it from.                               *)
(*                                                                         *)
(* A transaction of Neo4j sees what was committed when it reads and may    *)
(* write after others committed, so its read and its write are two steps.  *)
(* All assets and matches are of one vendor and product: no query crosses  *)
(* from one to another.                                                    *)
(*                                                                         *)
(* A definition marked "Mistake" is a plausible bug; the mutation runs put *)
(* it in place of the definition after it, to show a property notices.     *)
(***************************************************************************)
EXTENDS Naturals, FiniteSets

CONSTANTS
    Cves,
    Criteria,     \* CPEMatch nodes, by match_criteria_id
    Assets,       \* asset keys, in their order
    Version,      \* the version an asset key names
    Ranges,       \* what NVD may say of a match
    Matchers,     \* invocations of the API and of the event handler
    Idle,
    PageSize,     \* assets of one invocation of the sweep
    MaxChanges,   \* bound: changes by NVD and by the user
    MaxCrashes    \* bound: invocations that fail

Absent == 0   \* a bound the range does not have
Bound == Nat

ASSUME AssetsAssumption ==
    /\ Assets \subseteq Nat \ {0} /\ Version \in [Assets -> Nat \ {0}]
    /\ Assets \cap Criteria = {}
ASSUME RangesAssumption ==
    Ranges \subseteq [vulnerable : BOOLEAN, version : Bound,
                      startIncluding : Bound, startExcluding : Bound,
                      endIncluding : Bound, endExcluding : Bound]
ASSUME BoundsAssumption ==
    PageSize \in Nat \ {0} /\ MaxChanges \in Nat /\ MaxCrashes \in Nat

Pairs == Cves \X Assets

(* What an invocation has in hand: the asset or the match it works for,    *)
(* and the pairs it has found.                                             *)
Work == [at : {"created", "read"}, for : Assets \cup Criteria, rows : SUBSET Pairs]
ASSUME IdleAssumption == Idle \notin Work

VARIABLES
    assets,     \* those there are
    matches,    \* MATCHES: pairs of a CVE and a criterion
    range,      \* the properties of a CPEMatch
    affects,    \* AFFECTS: pairs of a CVE and an asset
    events,     \* criteria announced as written
    matcher,    \* what an invocation works on
    sweep,      \* the invocation of the sweep
    changes, crashes,
    silent      \* history: pairs nobody was told of in time

nvd == <<matches, range>>
vars == <<assets, nvd, affects, events, matcher, sweep, changes, crashes, silent>>

(***************************************************************************)
(* version_satisfies.                                                      *)
(***************************************************************************)
Satisfies(v, r) ==
    /\ r.vulnerable
    /\ IF r.version # Absent
       THEN v = r.version
       ELSE /\ r.startIncluding # Absent => v >= r.startIncluding
            /\ r.startExcluding # Absent => v > r.startExcluding
            /\ r.endIncluding # Absent => v <= r.endIncluding
            /\ r.endExcluding # Absent => v < r.endExcluding

(* The assets of a set that a CVE of a match is found to affect.           *)
Hits(criteria, keys) ==
    {p \in Cves \X keys :
        \E m \in criteria : <<p[1], m>> \in matches
                            /\ Satisfies(Version[p[2]], range[m])}

(* What the edges should be.                                               *)
Justified == Hits(Criteria, assets)

Done == [at |-> "idle", page |-> {}, wanted |-> {}, stale |-> {}, unmatched |-> {}]

Init ==
    /\ assets \in SUBSET Assets
    /\ matches \in SUBSET (Cves \X Criteria)
    /\ range \in [Criteria -> Ranges]
    /\ affects = Justified
    /\ events = {}
    /\ matcher = [w \in Matchers |-> Idle]
    /\ sweep = Done
    /\ changes = 0 /\ crashes = 0
    /\ silent = {}

Change == changes < MaxChanges /\ changes' = changes + 1
Crash == crashes < MaxCrashes /\ crashes' = crashes + 1

(***************************************************************************)
(* The NVD refresh (resync_matches): one transaction sets the matches of a *)
(* CVE and the properties of each; after it the matches that are new to    *)
(* the CVE are announced, unless it is the backfill or dies first.  A      *)
(* match that only changes its range is never announced.                   *)
(***************************************************************************)
Resync(c) ==
    /\ Change
    /\ \E listed \in SUBSET Criteria : \E given \in [listed -> Ranges] :
           /\ matches' = {x \in matches : x[1] # c} \cup ({c} \X listed)
           /\ range' = [m \in Criteria |-> IF m \in listed THEN given[m] ELSE range[m]]
           /\ \/ events' = events \cup {m \in listed : <<c, m>> \notin matches}
              \/ events' = events
    /\ UNCHANGED <<assets, affects, matcher, sweep, crashes>>
    /\ silent' = silent \cup ((Justified \ Hits(events, assets))' \ affects)

(***************************************************************************)
(* The API.  An asset is created, or found, in one transaction and matched *)
(* in the next.                                                            *)
(***************************************************************************)
CreateAsset(w, a) ==
    /\ matcher[w] = Idle
    /\ Change
    /\ assets' = assets \cup {a}
    /\ matcher' = [matcher EXCEPT ![w] = [at |-> "created", for |-> a, rows |-> {}]]
    /\ UNCHANGED <<nvd, affects, events, sweep, crashes, silent>>

(* match_asset reads the candidates of the asset's vendor and product.     *)
MatchAsset(w) ==
    /\ matcher[w] # Idle /\ matcher[w].at = "created"
    /\ matcher' = [matcher EXCEPT ![w] = [at |-> "read", for |-> matcher[w].for,
                                         rows |-> Hits(Criteria, {matcher[w].for})]]
    /\ UNCHANGED <<assets, nvd, affects, events, sweep, changes, crashes, silent>>

DeleteAsset(a) ==
    /\ a \in assets
    /\ Change
    /\ assets' = assets \ {a}
    /\ affects' = {p \in affects : p[2] # a}
    /\ UNCHANGED <<nvd, events, matcher, sweep, crashes, silent>>

(***************************************************************************)
(* The event handler: every CVE of the match, every asset of its product.  *)
(* SNS may deliver a message again.                                        *)
(***************************************************************************)
\* Mistake: LIMIT 1, one of the CVEs that share the match.
FoundOne(m) ==
    LET sharing == {c \in Cves : <<c, m>> \in matches}
    IN  {p \in Hits({m}, assets) : p[1] = CHOOSE c \in sharing : TRUE}
Found(m) == Hits({m}, assets)

ReceiveEvent(w) ==
    /\ matcher[w] = Idle
    /\ \E m \in events :
           /\ matcher' = [matcher EXCEPT ![w] = [at |-> "read", for |-> m, rows |-> Found(m)]]
           /\ events' \in {events, events \ {m}}
    /\ UNCHANGED <<assets, nvd, affects, sweep, changes, crashes, silent>>

\* Mistake: the end points are merged instead of matched.
WritableAny(w) == TRUE
(* write_affects_edge for every row, all or none: an asset that was        *)
(* deleted since makes it fail.                                            *)
Writable(w) == \A p \in matcher[w].rows : p[2] \in assets

WriteEdges(w) ==
    /\ matcher[w] # Idle /\ matcher[w].at = "read"
    /\ Writable(w)
    /\ affects' = affects \cup matcher[w].rows
    /\ matcher' = [matcher EXCEPT ![w] = Idle]
    /\ UNCHANGED <<assets, nvd, events, sweep, changes, crashes, silent>>

(* A failed event is delivered again, or given up; a failed call is not    *)
(* made again.                                                             *)
MatcherFails(w) ==
    /\ matcher[w] # Idle
    /\ \/ Crash
       \/ ~Writable(w) /\ UNCHANGED crashes
    /\ LET x == matcher[w].for
       IN  \/ /\ x \in Criteria
              /\ events' = events \cup {x}
              /\ UNCHANGED silent
           \/ /\ silent' = silent \cup (IF x \in Criteria THEN Hits({x}, assets)
                                                          ELSE Cves \X {x})
              /\ UNCHANGED events
    /\ matcher' = [matcher EXCEPT ![w] = Idle]
    /\ UNCHANGED <<assets, nvd, affects, sweep, changes>>

(***************************************************************************)
(* The sweep.  Three transactions read, in this order, the page, the       *)
(* candidates and the edges; the difference is written and then deleted,   *)
(* one chunk after the other.  The schedule passes no cursor, so the page  *)
(* is always the first.                                                    *)
(***************************************************************************)
FirstPage ==
    {a \in assets : Cardinality({b \in assets : b < a}) < PageSize}

SweepPage ==
    /\ sweep.at = "idle"
    /\ FirstPage # {}
    /\ sweep' = [Done EXCEPT !.at = "candidates", !.page = FirstPage]
    /\ UNCHANGED <<assets, nvd, affects, events, matcher, changes, crashes, silent>>

SweepCandidates ==
    /\ sweep.at = "candidates"
    /\ sweep' = [sweep EXCEPT !.at = "existing",
                              !.wanted = Hits(Criteria, sweep.page),
                              !.unmatched = Pairs \ Justified]
    /\ UNCHANGED <<assets, nvd, affects, events, matcher, changes, crashes, silent>>

\* Mistake: edges are added and none is retracted.
StaleNone == {}
Stale == {p \in affects : p[2] \in sweep.page} \ sweep.wanted

SweepExisting ==
    /\ sweep.at = "existing"
    /\ sweep' = [sweep EXCEPT !.at = "write", !.stale = Stale]
    /\ UNCHANGED <<assets, nvd, affects, events, matcher, changes, crashes, silent>>

(* A row whose asset is gone matches nothing and is passed over.           *)
SweepWrite ==
    /\ sweep.at = "write"
    /\ \E p \in sweep.wanted :
           /\ affects' = affects \cup {q \in {p} : q[2] \in assets}
           /\ sweep' = [sweep EXCEPT !.wanted = @ \ {p}]
    /\ UNCHANGED <<assets, nvd, events, matcher, changes, crashes, silent>>

(* The edge may have been justified, and written, since it was found stale. *)
SweepDelete ==
    /\ sweep.at = "write" /\ sweep.wanted = {}
    /\ \E p \in sweep.stale :
           /\ affects' = affects \ {p}
           /\ silent' = silent \cup ({p} \cap sweep.unmatched)
           /\ sweep' = [sweep EXCEPT !.stale = @ \ {p}]
    /\ UNCHANGED <<assets, nvd, events, matcher, changes, crashes>>

SweepEnd ==
    /\ sweep.at = "write" /\ sweep.wanted = {} /\ sweep.stale = {}
    /\ sweep' = Done
    /\ UNCHANGED <<assets, nvd, affects, events, matcher, changes, crashes, silent>>

SweepFails ==
    /\ sweep # Done
    /\ Crash
    /\ sweep' = Done
    /\ UNCHANGED <<assets, nvd, affects, events, matcher, changes, silent>>

Sweeping ==
    \/ SweepPage \/ SweepCandidates \/ SweepExisting
    \/ SweepWrite \/ SweepDelete \/ SweepEnd

Next ==
    \/ \E c \in Cves : Resync(c)
    \/ \E w \in Matchers, a \in Assets : CreateAsset(w, a)
    \/ \E a \in Assets : DeleteAsset(a)
    \/ \E w \in Matchers : MatchAsset(w) \/ ReceiveEvent(w) \/ WriteEdges(w)
                           \/ MatcherFails(w)
    \/ Sweeping \/ SweepFails

Spec == Init /\ [][Next]_vars

(* The sweep is scheduled every day.                                       *)
FairSpec == Spec /\ WF_vars(Sweeping)

-----------------------------------------------------------------------------
(* Every edge has its asset, whatever was deleted while it was written     *)
(* (delivery/assets_handler.py: delete_asset is a DETACH DELETE).          *)
TypeOK ==
    /\ assets \subseteq Assets
    /\ matches \subseteq Cves \X Criteria
    /\ range \in [Criteria -> Ranges]
    /\ affects \subseteq Cves \X assets
    /\ events \subseteq Criteria
    /\ matcher \in [Matchers -> {Idle} \cup Work]
    /\ sweep \in [at : {"idle", "candidates", "existing", "write"},
                  page : SUBSET Assets, wanted : SUBSET Pairs,
                  stale : SUBSET Pairs, unmatched : SUBSET Pairs]
    /\ changes \in 0..MaxChanges /\ crashes \in 0..MaxCrashes
    /\ silent \subseteq Pairs

(* With no announcement or invocation outstanding, a CVE that matches an   *)
(* asset is linked to it, without waiting for the sweep and in spite of    *)
(* it, whichever of the asset and the match came first and whoever shares  *)
(* the match (event_handler.py: every referencing CVE).  What may be       *)
(* missing is a change nobody announced, a call that failed, and an edge   *)
(* the sweep had found unjustified before it became justified.             *)
Prompt ==
    events = {} /\ (\A w \in Matchers : matcher[w] = Idle)
        => Justified \ affects \subseteq silent

(* Once NVD and the user rest, the edges of the first page become and stay *)
(* exactly the justified ones, in both directions (sweep_handler.py: "It   *)
(* RECONCILES, it does not merely add").                                   *)
OnPage(pairs) == {p \in pairs : p[2] \in FirstPage}
AffectsSettle == <>[](OnPage(affects) = OnPage(Justified))
=============================================================================
