----------------------------- MODULE CveRefresh -----------------------------
(***************************************************************************)
(* How a CVE node follows NVD (src/src/collection/rest/nvd.py): the hourly *)
(* delta poll updates the CVEs the graph knows, the feeds that reference   *)
(* an unseen CVE (KEV, GHSA, OTX) MERGE a stub and enrich it on demand,    *)
(* an article that mentions one MERGEs a stub nobody is to enrich, and an  *)
(* operator's backfill enriches silently what was never enriched.          *)
(* All of them fetch, without any lock, and later apply what they fetched  *)
(* in one transaction per CVE that locks the node, reads it again and      *)
(* decides; the announcement follows the commit.                           *)
(*                                                                         *)
(* A version of a CVE is the instant NVD modified it, its lastModified; 0  *)
(* is none.  The content of a version is constant.  What the referencing   *)
(* feed itself writes on the stub is left out.                             *)
(*                                                                         *)
(* A definition marked "Mistake" is a plausible bug; the mutation runs put *)
(* it in place of the definition after it, to show a property notices.     *)
(***************************************************************************)
EXTENDS Naturals

CONSTANTS
    Cves,
    Legacy,        \* CVEs enriched before CPEMatch nodes existed
    Poller,        \* the scheduled delta poll
    Enrichers,     \* concurrent runs that call enrich_cve
    Free,          \* the holder of an unlocked node; also "no CVE"
    Platform,      \* CPEMatch ids
    Weakness,      \* CWE ids
    MaxClock,      \* bound: the last instant NVD modifies anything at
    MaxCrashes,    \* bound: how many runs end by an exception
    Score,         \* version -> cvss_score, 0 where the payload has none
    Weaknesses,    \* version -> CWE ids
    Platforms      \* version -> CPEMatch ids

Procs == Enrichers \cup {Poller}
Versions == 0..MaxClock

ASSUME LegacyAssumption == Legacy \subseteq Cves
ASSUME ProcsAssumption == Poller \notin Enrichers /\ Free \notin Procs
ASSUME FreeAssumption == Free \notin Cves
ASSUME BoundsAssumption == MaxClock \in Nat \ {0} /\ MaxCrashes \in Nat
ASSUME ContentAssumption ==
    /\ Score \in [Versions -> Nat]
    /\ Weaknesses \in [Versions -> SUBSET Weakness]
    /\ Platforms \in [Versions -> SUBSET Platform]
    /\ Weaknesses[0] = {} /\ Platforms[0] = {}

VARIABLES
    clock,       \* the last instant anything was modified at
    nvd,         \* the version NVD serves of each CVE
    present,     \* the CVE nodes of the graph
    lmd,         \* CVE.last_modified_date
    score,       \* CVE.cvss_score
    cwes,        \* CATEGORIZED_AS edges
    matches,     \* MATCHES edges
    notFound,    \* CVEs with an nvd_not_found_at
    locker,      \* who holds each node's lock
    watermark,   \* PollingState.last_success_at of NVD
    windowEnd,   \* poll_nvd_delta's window_end
    pc, todo, payload, current, seen, news, silent,    \* the runs' locals
    rescored,    \* the cvss_score the last announcement had L4 read
    rematched,   \* the CPEMatch nodes announced to the asset matcher
    missed,      \* CVEs a change of which was committed, never announced
    orphaned,    \* CVEs of a version nobody is to fetch: made by a mention,
                 \* or their on-demand enrichment failed
    crashes

world == <<clock, nvd>>
node == <<present, lmd, score, cwes, matches>>
run == <<pc, todo, payload, current, seen, news, silent>>
heard == <<rescored, rematched, missed>>
vars == <<world, node, notFound, locker, watermark, windowEnd, run, heard,
          orphaned, crashes>>

NoNews == [score |-> FALSE, created |-> {}]
NothingSeen == [lmd |-> 0, score |-> 0, hasMatches |-> FALSE]

Init ==
    /\ clock = 1
    /\ nvd \in {f \in [Cves -> {0, 1}] : \A c \in Legacy : f[c] = 1}
    /\ present = Legacy
    /\ lmd = [c \in Cves |-> IF c \in Legacy THEN 1 ELSE 0]
    /\ score = [c \in Cves |-> IF c \in Legacy THEN Score[1] ELSE 0]
    /\ cwes = [c \in Cves |-> IF c \in Legacy THEN Weaknesses[1] ELSE {}]
    /\ matches = [c \in Cves |-> {}]
    /\ notFound = {}
    /\ locker = [c \in Cves |-> Free]
    /\ watermark = 1
    /\ windowEnd = 1
    /\ pc = [p \in Procs |-> "idle"]
    /\ todo = [p \in Procs |-> {}]
    /\ payload = [p \in Procs |-> [c \in Cves |-> 0]]
    /\ current = [p \in Procs |-> Free]
    /\ seen = [p \in Procs |-> NothingSeen]
    /\ news = [p \in Procs |-> NoNews]
    /\ silent = [p \in Procs |-> FALSE]
    /\ rescored = score
    /\ rematched = [c \in Cves |-> {}]
    /\ missed = {}
    /\ orphaned = {}
    /\ crashes = 0

-----------------------------------------------------------------------------
(* NVD publishes or modifies c, which is in the poll's next window.        *)
Modify(c) ==
    /\ clock < MaxClock
    /\ clock' = clock + 1
    /\ nvd' = [nvd EXCEPT ![c] = clock + 1]
    /\ orphaned' = orphaned \ {c}
    /\ UNCHANGED <<node, notFound, locker, watermark, windowEnd, run, heard,
                   crashes>>

(* resolve_cve: an article mentions a CVE the graph lacks.  Its stub is    *)
(* flagged enrichment_pending, which nothing reads.                        *)
ResolveCve(c) ==
    /\ c \notin present
    /\ present' = present \cup {c}
    /\ orphaned' = orphaned \cup {c}
    /\ UNCHANGED <<world, lmd, score, cwes, matches, notFound, locker, watermark,
                   windowEnd, run, heard, crashes>>

(* The poll captures its window's end before it asks.                      *)
PollStart ==
    /\ pc[Poller] = "idle"
    /\ windowEnd' = clock
    /\ pc' = [pc EXCEPT ![Poller] = "fetch"]
    /\ UNCHANGED <<world, node, notFound, locker, watermark, todo, payload,
                   current, seen, news, silent, heard, orphaned, crashes>>

(* NVD answers with the CVEs whose last modification lies in the window.   *)
PollFetch ==
    /\ pc[Poller] = "fetch"
    /\ todo' = [todo EXCEPT ![Poller] = {c \in Cves : nvd[c] \in watermark..windowEnd}]
    /\ payload' = [payload EXCEPT ![Poller] = nvd]
    /\ pc' = [pc EXCEPT ![Poller] = "apply"]
    /\ UNCHANGED <<world, node, notFound, locker, watermark, windowEnd,
                   current, seen, news, silent, heard, orphaned, crashes>>

(* A feed's transaction reads that it references an unseen CVE ...         *)
Look(p, c) ==
    /\ pc[p] = "idle"
    /\ c \notin present
    /\ pc' = [pc EXCEPT ![p] = "stub"]
    /\ todo' = [todo EXCEPT ![p] = {c}]
    /\ UNCHANGED <<world, node, notFound, locker, watermark, windowEnd, payload,
                   current, seen, news, silent, heard, orphaned, crashes>>

(* ... and MERGEs the stub, which somebody may have done by then; KEV      *)
(* does both in one statement, so nobody comes in between.                 *)
Reference(p) ==
    /\ pc[p] = "stub"
    /\ present' = present \cup todo[p]
    /\ pc' = [pc EXCEPT ![p] = "fetch"]
    /\ UNCHANGED <<world, lmd, score, cwes, matches, notFound, locker, watermark,
                   windowEnd, todo, payload, current, seen, news, silent, heard,
                   orphaned, crashes>>

(* backfill takes c from its work list and will announce nothing.          *)
Backfill(p, c) ==
    /\ pc[p] = "idle"
    /\ c \in present \ notFound
    /\ lmd[c] = 0 \/ matches[c] = {}
    /\ pc' = [pc EXCEPT ![p] = "fetch"]
    /\ todo' = [todo EXCEPT ![p] = {c}]
    /\ silent' = [silent EXCEPT ![p] = TRUE]
    /\ UNCHANGED <<world, node, notFound, locker, watermark, windowEnd, payload,
                   current, seen, news, heard, orphaned, crashes>>

(* enrich_cve asks NVD for one CVE, which NVD may have no record of; only  *)
(* the backfill remembers that.                                            *)
EnrichFetch(p) ==
    LET found == {c \in todo[p] : nvd[c] # 0} IN
    /\ p \in Enrichers
    /\ pc[p] = "fetch"
    /\ todo' = [todo EXCEPT ![p] = found]
    /\ notFound' = IF silent[p] THEN notFound \cup (todo[p] \ found) ELSE notFound
    /\ payload' = [payload EXCEPT ![p] = nvd]
    /\ pc' = [pc EXCEPT ![p] = "apply"]
    /\ UNCHANGED <<world, node, locker, watermark, windowEnd, current, seen,
                   news, silent, heard, orphaned, crashes>>

(* FR-DC-23: the delta poll leaves a CVE alone that the graph lacks.       *)
Skip(c) ==
    /\ pc[Poller] = "apply"
    /\ c \in todo[Poller] \ present
    /\ todo' = [todo EXCEPT ![Poller] = @ \ {c}]
    /\ UNCHANGED <<world, node, notFound, locker, watermark, windowEnd, pc,
                   payload, current, seen, news, silent, heard, orphaned, crashes>>

Seen(c) ==
    [lmd |-> lmd[c], score |-> score[c], hasMatches |-> matches[c] # {}]

\* Mistake: nobody waits for the lock.
BeginUnlocked(p, c) ==
    /\ pc[p] = "apply"
    /\ c \in todo[p] \cap present
    /\ seen' = [seen EXCEPT ![p] = Seen(c)]
    /\ todo' = [todo EXCEPT ![p] = @ \ {c}]
    /\ current' = [current EXCEPT ![p] = c]
    /\ pc' = [pc EXCEPT ![p] = "decide"]
    /\ UNCHANGED <<world, node, notFound, locker, watermark, windowEnd, payload,
                   news, silent, heard, orphaned, crashes>>

(* The transaction opens: lock the node, then read what decides.           *)
Begin(p, c) ==
    /\ pc[p] = "apply"
    /\ c \in todo[p] \cap present
    /\ locker[c] = Free
    /\ locker' = [locker EXCEPT ![c] = p]
    /\ seen' = [seen EXCEPT ![p] = Seen(c)]
    /\ todo' = [todo EXCEPT ![p] = @ \ {c}]
    /\ current' = [current EXCEPT ![p] = c]
    /\ pc' = [pc EXCEPT ![p] = "decide"]
    /\ UNCHANGED <<world, node, notFound, watermark, windowEnd, payload, news,
                   silent, heard, orphaned, crashes>>

Incoming(p) == payload[p][current[p]]

(* _is_newer: the payload drives the CATEGORIZED_AS re-sync.               *)
Fresh(p) == Incoming(p) > seen[p].lmd

(* MATCHES is re-synced whenever it is missing, too.                       *)
ResyncsMatches(p) == Fresh(p) \/ ~seen[p].hasMatches

ScoreAfter(p) == IF Score[Incoming(p)] = 0 THEN score[current[p]]
                                           ELSE Score[Incoming(p)]

\* Mistake: no freshness guard.
CategoriesUnguarded(p) == Weaknesses[Incoming(p)]
(* resync_categorized_as.                                                  *)
CategoriesAfter(p) ==
    IF Fresh(p) THEN Weaknesses[Incoming(p)] ELSE cwes[current[p]]

\* Mistake: the re-sync only adds.
MatchesAccumulated(p) ==
    IF ResyncsMatches(p) THEN matches[current[p]] \cup Platforms[Incoming(p)]
                         ELSE matches[current[p]]
(* resync_matches: add what the payload has, delete what it lacks.         *)
MatchesAfter(p) ==
    IF ResyncsMatches(p) THEN Platforms[Incoming(p)] ELSE matches[current[p]]

(* What the caller is to announce: a score other than the one read under   *)
(* the lock, and the MATCHES edges this transaction created.               *)
NewsOf(p) ==
    [score |-> Score[Incoming(p)] \notin {0, seen[p].score},
     created |-> MatchesAfter(p) \ matches[current[p]]]

(* _apply_cve_tx writes and commits. A silent run goes on at once.         *)
Commit(p) ==
    LET c == current[p] IN
    /\ pc[p] = "decide"
    /\ score' = [score EXCEPT ![c] = ScoreAfter(p)]
    /\ cwes' = [cwes EXCEPT ![c] = CategoriesAfter(p)]
    /\ matches' = [matches EXCEPT ![c] = MatchesAfter(p)]
    /\ lmd' = [lmd EXCEPT ![c] = IF Fresh(p) THEN Incoming(p) ELSE @]
    /\ locker' = [locker EXCEPT ![c] = Free]
    /\ orphaned' = orphaned \ {c}
    /\ news' = [news EXCEPT ![p] = IF silent[p] THEN NoNews ELSE NewsOf(p)]
    /\ missed' = IF silent[p] /\ NewsOf(p) # NoNews THEN missed \cup {c} ELSE missed
    /\ pc' = [pc EXCEPT ![p] = "publish"]
    /\ UNCHANGED <<world, present, notFound, watermark, windowEnd, todo, payload,
                   current, seen, silent, rescored, rematched, crashes>>

(* The announcements, and what their subscribers then read.                *)
Publish(p) ==
    LET c == current[p] IN
    /\ pc[p] = "publish"
    /\ rescored' = IF news[p].score THEN [rescored EXCEPT ![c] = score[c]] ELSE rescored
    /\ rematched' = [rematched EXCEPT ![c] = @ \cup news[p].created]
    /\ news' = [news EXCEPT ![p] = NoNews]
    /\ current' = [current EXCEPT ![p] = Free]
    /\ seen' = [seen EXCEPT ![p] = NothingSeen]
    /\ pc' = [pc EXCEPT ![p] = "apply"]
    /\ UNCHANGED <<world, node, notFound, locker, watermark, windowEnd, todo,
                   payload, silent, missed, orphaned, crashes>>

Reset(p) ==
    /\ pc' = [pc EXCEPT ![p] = "idle"]
    /\ todo' = [todo EXCEPT ![p] = {}]
    /\ payload' = [payload EXCEPT ![p] = [c \in Cves |-> 0]]
    /\ current' = [current EXCEPT ![p] = Free]
    /\ seen' = [seen EXCEPT ![p] = NothingSeen]
    /\ news' = [news EXCEPT ![p] = NoNews]
    /\ silent' = [silent EXCEPT ![p] = FALSE]

Done(p) == pc[p] = "apply" /\ todo[p] = {}

EnrichDone(p) ==
    /\ p \in Enrichers
    /\ Done(p)
    /\ Reset(p)
    /\ UNCHANGED <<world, node, notFound, locker, watermark, windowEnd, heard,
                   orphaned, crashes>>

\* Mistake: the poll records the time it ended at.
NextWatermarkNow == clock
(* The next window starts where this one ended.                            *)
NextWatermark == windowEnd

(* handler records the poll's success.                                     *)
PollDone ==
    /\ Done(Poller)
    /\ watermark' = NextWatermark
    /\ Reset(Poller)
    /\ UNCHANGED <<world, node, notFound, locker, windowEnd, heard, orphaned,
                   crashes>>

(* The run ends by an exception or a timeout at any point. An open         *)
(* transaction rolls back; a poll's watermark stays; a feed's retry finds  *)
(* its stub existing and enriches it no more.                              *)
Crash(p) ==
    /\ pc[p] # "idle"
    /\ crashes < MaxCrashes
    /\ crashes' = crashes + 1
    /\ locker' = [c \in Cves |-> IF locker[c] = p THEN Free ELSE locker[c]]
    /\ missed' = IF news[p] = NoNews THEN missed ELSE missed \cup {current[p]}
    /\ orphaned' = IF p = Poller \/ pc[p] = "publish" THEN orphaned
                   ELSE orphaned \cup {c \in (todo[p] \cup {current[p]}) \cap present :
                                          lmd[c] = 0}
    /\ Reset(p)
    /\ UNCHANGED <<world, node, notFound, watermark, windowEnd, rescored, rematched>>

Apply(p) == (\E c \in Cves : Begin(p, c)) \/ Commit(p) \/ Publish(p)

Poll == PollStart \/ PollFetch \/ (\E c \in Cves : Skip(c)) \/ PollDone \/ Apply(Poller)

Enrich(p) == Reference(p) \/ EnrichFetch(p) \/ Apply(p) \/ EnrichDone(p)

Next ==
    \/ \E c \in Cves : Modify(c) \/ ResolveCve(c)
    \/ Poll
    \/ \E p \in Enrichers :
          (\E c \in Cves : Look(p, c) \/ Backfill(p, c)) \/ Enrich(p)
    \/ \E p \in Procs : Crash(p)

Spec == Init /\ [][Next]_vars

(* EventBridge keeps starting the poll, and a run that has started goes on *)
(* to its end or to one of boundedly many failures; the poll gets a lock   *)
(* that is free again and again, for Neo4j hands it to who waits.  Nothing *)
(* makes a feed reference a CVE or an article name one, nor an operator    *)
(* start the backfill.                                                     *)
FairSpec == Spec /\ SF_vars(Poll) /\ \A p \in Enrichers : WF_vars(Enrich(p))

-----------------------------------------------------------------------------
PCs == {"idle", "stub", "fetch", "apply", "decide", "publish"}

LocksOK ==
    \A c \in Cves, p \in Procs :
        locker[c] = p <=> pc[p] = "decide" /\ current[p] = c

(* Every variable holds a value of its kind, and a node is locked exactly  *)
(* while a run decides over it.                                            *)
TypeOK ==
    /\ clock \in Versions
    /\ nvd \in [Cves -> Versions]
    /\ present \subseteq Cves
    /\ lmd \in [Cves -> Versions]
    /\ score \in [Cves -> Nat]
    /\ cwes \in [Cves -> SUBSET Weakness]
    /\ matches \in [Cves -> SUBSET Platform]
    /\ notFound \subseteq Cves
    /\ locker \in [Cves -> Procs \cup {Free}]
    /\ watermark \in Versions /\ windowEnd \in Versions
    /\ pc \in [Procs -> PCs]
    /\ todo \in [Procs -> SUBSET Cves]
    /\ payload \in [Procs -> [Cves -> Versions]]
    /\ current \in [Procs -> Cves \cup {Free}]
    /\ seen \in [Procs -> [lmd : Versions, score : Nat, hasMatches : BOOLEAN]]
    /\ news \in [Procs -> [score : BOOLEAN, created : SUBSET Platform]]
    /\ silent \in [Procs -> BOOLEAN]
    /\ rescored \in [Cves -> Nat]
    /\ rematched \in [Cves -> SUBSET Platform]
    /\ missed \subseteq Cves
    /\ orphaned \subseteq Cves
    /\ crashes \in 0..MaxCrashes
    /\ LocksOK

(* A CVE's CATEGORIZED_AS edges are those of the version its               *)
(* last_modified_date names, whoever applied which payload when: a stale   *)
(* one resurrects no dropped mapping.                                      *)
CategoriesMatchWatermark == \A c \in Cves : cwes[c] = Weaknesses[lmd[c]]

(* So are its MATCHES edges, but for a CVE that predates CPEMatch nodes    *)
(* and has not been caught up, and where that version names no platform:   *)
(* then a slow run may have put back those of an older version (nvd.py:    *)
(* resync_matches).                                                        *)
MatchesMatchUnlessDropped ==
    \A c \in Cves :
        \/ matches[c] = Platforms[lmd[c]]
        \/ c \in Legacy /\ matches[c] = {}
        \/ Platforms[lmd[c]] = {} /\ \E v \in 0..lmd[c] : matches[c] = Platforms[v]

(* What the code says of them: re-sync is skipped when the payload is not  *)
(* newer (nvd.py), so they are always those of the version.                *)
MatchesMatchWatermark ==
    \A c \in Cves :
        \/ matches[c] = Platforms[lmd[c]]
        \/ c \in Legacy /\ matches[c] = {}

(* Neither a CVE's last_modified_date nor the poll's watermark ever moves  *)
(* back, however late a slow run applies what it fetched.                  *)
WatermarksAdvance ==
    [][(\A c \in Cves : lmd'[c] >= lmd[c]) /\ watermark' >= watermark]_vars

(* Whatever cvss_score and MATCHES edges a CVE has, the scorer and the     *)
(* asset matcher have been told of, or are about to be: of racing runs     *)
(* none computes its news from a read another one has made stale. A crash  *)
(* between commit and announcement, or a backfill, leaves it to the sweeps.*)
ChangesAnnounced ==
    \A c \in Cves \ missed :
        LET coming == {news[p] : p \in {q \in Procs : current[q] = c}} IN
        /\ rescored[c] = score[c] \/ \E n \in coming : n.score
        /\ matches[c] \subseteq rematched[c] \cup UNION {n.created : n \in coming}

(* No modification falls between two windows: once NVD stops changing,     *)
(* every CVE of the graph reaches the version NVD serves.  Not so a stub   *)
(* made after its CVE's last modification by a mention, or by a feed whose *)
(* one enrichment failed: nothing ever enriches it (nvd_backfill.py).      *)
KnownCvesCatchUp == <>[](\A c \in present \ orphaned : lmd[c] = nvd[c])
=============================================================================
