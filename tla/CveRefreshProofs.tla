-------------------------- MODULE CveRefreshProofs --------------------------
(***************************************************************************)
(* What holds of CveRefresh for any number of CVEs and enrichment runs,    *)
(* any history of NVD and any bounds.                                      *)
(***************************************************************************)
EXTENDS CveRefresh, TLAPS

(* What a run's locals hold at each point: while it decides over a CVE,    *)
(* what it read is what the node holds.                                    *)
RunsOK ==
    \A p \in Procs :
        /\ pc[p] \in {"decide", "publish"} <=> current[p] \in Cves
        /\ pc[p] = "decide" => seen[p] = Seen(current[p])
        /\ pc[p] # "publish" => news[p] = NoNews

(* A poll's window ends no earlier than it starts, and not in the future.  *)
WindowOK == watermark <= windowEnd /\ windowEnd <= clock

Inv == TypeOK /\ RunsOK /\ WindowOK

LEMMA InitInv == Init => Inv
<1> SUFFICES ASSUME Init PROVE Inv
  OBVIOUS
<1>1. 0 \in Versions /\ 1 \in Versions
  BY BoundsAssumption DEF Versions
<1>2. /\ clock \in Versions /\ watermark \in Versions /\ windowEnd \in Versions
      /\ nvd \in [Cves -> Versions]
      /\ lmd \in [Cves -> Versions]
      /\ present \subseteq Cves
  BY <1>1, LegacyAssumption DEF Init
<1>3. /\ score \in [Cves -> Nat] /\ rescored \in [Cves -> Nat]
      /\ cwes \in [Cves -> SUBSET Weakness]
      /\ matches \in [Cves -> SUBSET Platform]
      /\ rematched \in [Cves -> SUBSET Platform]
  BY <1>1, ContentAssumption DEF Init
<1>4. /\ pc \in [Procs -> PCs] /\ todo \in [Procs -> SUBSET Cves]
      /\ payload \in [Procs -> [Cves -> Versions]]
      /\ current \in [Procs -> Cves \cup {Free}]
      /\ seen \in [Procs -> [lmd : Versions, score : Nat, hasMatches : BOOLEAN]]
      /\ news \in [Procs -> [score : BOOLEAN, created : SUBSET Platform]]
      /\ silent \in [Procs -> BOOLEAN]
  BY <1>1 DEF Init, PCs, NothingSeen, NoNews
<1>5. LocksOK
  BY ProcsAssumption, FreeAssumption DEF Init, LocksOK
<1>6. TypeOK
  BY <1>2, <1>3, <1>4, <1>5, BoundsAssumption DEF Init, TypeOK
<1>7. RunsOK
  BY FreeAssumption DEF Init, RunsOK
<1>8. QED
  BY <1>6, <1>7 DEF Init, Inv, WindowOK

-----------------------------------------------------------------------------
(* A step that touches no transaction: no run enters or leaves one, and    *)
(* nothing a deciding run has read changes.                                *)
LEMMA NoTransaction ==
    ASSUME Inv,
           UNCHANGED <<current, seen, news, locker, lmd, score, matches>>,
           \A p \in Procs : pc'[p] # pc[p] =>
               {pc[p], pc'[p]} \cap {"decide", "publish"} = {}
    PROVE  LocksOK' /\ RunsOK'
<1>1. \A c \in Cves : Seen(c)' = Seen(c)
  BY DEF Seen
<1>2. LocksOK'
  <2>1. \A p \in Procs : pc'[p] = "decide" <=> pc[p] = "decide"
    OBVIOUS
  <2>2. LocksOK
    BY DEF Inv, TypeOK
  <2>3. QED
    BY <2>1, <2>2 DEF LocksOK
<1>3. RunsOK'
  BY <1>1 DEF Inv, RunsOK
<1>4. QED
  BY <1>2, <1>3

(* A run p that ends, whose lock is free and whose transaction is over or  *)
(* rolled back.                                                            *)
LEMMA RunEnds ==
    ASSUME Inv, NEW p \in Procs, Reset(p),
           locker' = [c \in Cves |-> IF locker[c] = p THEN Free ELSE locker[c]],
           UNCHANGED <<lmd, score, matches>>
    PROVE  LocksOK' /\ RunsOK'
<1>1. \A c \in Cves : Seen(c)' = Seen(c)
  BY DEF Seen
<1>2. /\ pc'[p] = "idle" /\ current'[p] = Free /\ news'[p] = NoNews
      /\ \A q \in Procs \ {p} : /\ pc'[q] = pc[q] /\ current'[q] = current[q]
                                /\ seen'[q] = seen[q] /\ news'[q] = news[q]
  BY DEF Inv, TypeOK, Reset
<1>3. LocksOK'
  BY <1>2, ProcsAssumption DEF Inv, TypeOK, LocksOK
<1>4. RunsOK'
  BY <1>1, <1>2, FreeAssumption DEF Inv, RunsOK
<1>5. QED
  BY <1>3, <1>4

(* The types a reset leaves.                                               *)
LEMMA ResetTypes ==
    ASSUME TypeOK, NEW p \in Procs, Reset(p)
    PROVE  /\ pc' \in [Procs -> PCs] /\ todo' \in [Procs -> SUBSET Cves]
           /\ payload' \in [Procs -> [Cves -> Versions]]
           /\ current' \in [Procs -> Cves \cup {Free}]
           /\ seen' \in [Procs -> [lmd : Versions, score : Nat, hasMatches : BOOLEAN]]
           /\ news' \in [Procs -> [score : BOOLEAN, created : SUBSET Platform]]
           /\ silent' \in [Procs -> BOOLEAN]
<1>1. 0 \in Versions /\ "idle" \in PCs
  BY BoundsAssumption DEF Versions, PCs
<1>2. /\ NothingSeen \in [lmd : Versions, score : Nat, hasMatches : BOOLEAN]
      /\ NoNews \in [score : BOOLEAN, created : SUBSET Platform]
      /\ [c \in Cves |-> 0] \in [Cves -> Versions]
  BY <1>1 DEF NothingSeen, NoNews
<1>3. QED
  BY <1>1, <1>2 DEF TypeOK, Reset

-----------------------------------------------------------------------------
(* The values a commit writes are of their kinds.                          *)
LEMMA CommitValues ==
    ASSUME Inv, NEW p \in Procs, Commit(p)
    PROVE  /\ current[p] \in Cves
           /\ Incoming(p) \in Versions
           /\ ScoreAfter(p) \in Nat
           /\ CategoriesAfter(p) \in SUBSET Weakness
           /\ MatchesAfter(p) \in SUBSET Platform
           /\ NewsOf(p) \in [score : BOOLEAN, created : SUBSET Platform]
<1>1. current[p] \in Cves
  BY DEF Inv, RunsOK, Commit
<1>2. Incoming(p) \in Versions
  BY <1>1 DEF Inv, TypeOK, Incoming
<1>3. ScoreAfter(p) \in Nat
  BY <1>1, <1>2, ContentAssumption DEF Inv, TypeOK, ScoreAfter
<1>4. CategoriesAfter(p) \in SUBSET Weakness
  BY <1>1, <1>2, ContentAssumption DEF Inv, TypeOK, CategoriesAfter
<1>5. MatchesAfter(p) \in SUBSET Platform
  BY <1>1, <1>2, ContentAssumption DEF Inv, TypeOK, MatchesAfter
<1>6. NewsOf(p) \in [score : BOOLEAN, created : SUBSET Platform]
  BY <1>1, <1>5 DEF Inv, TypeOK, NewsOf
<1>7. QED
  BY <1>1, <1>2, <1>3, <1>4, <1>5, <1>6

(* No other run is deciding over the CVE this one commits.                 *)
LEMMA CommitsAlone ==
    ASSUME Inv, NEW p \in Procs, Commit(p), NEW q \in Procs, q # p, pc[q] = "decide"
    PROVE  current[q] # current[p]
BY DEF Inv, TypeOK, LocksOK, RunsOK, Commit

(* A commit takes version, edges and news from one payload, under the      *)
(* CVE's lock.                                                             *)
LEMMA CommitInv ==
    ASSUME Inv, NEW p \in Procs, Commit(p)
    PROVE  Inv'
<1> DEFINE c == current[p]
<1>1. /\ c \in Cves
      /\ Incoming(p) \in Versions
      /\ ScoreAfter(p) \in Nat
      /\ CategoriesAfter(p) \in SUBSET Weakness
      /\ MatchesAfter(p) \in SUBSET Platform
      /\ NewsOf(p) \in [score : BOOLEAN, created : SUBSET Platform]
  BY CommitValues
<1>2. NoNews \in [score : BOOLEAN, created : SUBSET Platform]
  BY DEF NoNews
<1>3. /\ lmd' \in [Cves -> Versions]
      /\ score' \in [Cves -> Nat]
      /\ cwes' \in [Cves -> SUBSET Weakness]
      /\ matches' \in [Cves -> SUBSET Platform]
      /\ news' \in [Procs -> [score : BOOLEAN, created : SUBSET Platform]]
      /\ locker' \in [Cves -> Procs \cup {Free}]
  BY <1>1, <1>2 DEF Inv, TypeOK, Commit
<1>4. pc[p] = "decide" /\ pc' = [pc EXCEPT ![p] = "publish"]
  BY DEF Commit
<1>5. \A d \in Cves, q \in Procs :
          locker'[d] = q <=> pc'[q] = "decide" /\ current'[q] = d
  BY <1>1, <1>4, ProcsAssumption DEF Inv, TypeOK, LocksOK, Commit
<1>6. TypeOK'
  BY <1>1, <1>3, <1>4, <1>5 DEF Inv, TypeOK, LocksOK, Commit, PCs, world
<1>7. RunsOK'
  <2> SUFFICES ASSUME NEW q \in Procs
               PROVE  /\ pc'[q] \in {"decide", "publish"} <=> current'[q] \in Cves
                      /\ pc'[q] = "decide" => seen'[q] = Seen(current[q])'
                      /\ pc'[q] # "publish" => news'[q] = NoNews
    BY DEF RunsOK
  <2>1. CASE q = p
    BY <1>1, <1>4, <2>1 DEF Inv, TypeOK, RunsOK, Commit
  <2>2. CASE q # p
    <3>1. pc'[q] = pc[q] /\ current'[q] = current[q] /\ seen'[q] = seen[q] /\ news'[q] = news[q]
      BY <2>2 DEF Inv, TypeOK, Commit
    <3>2. ASSUME pc[q] = "decide" PROVE Seen(current[q])' = Seen(current[q])
      <4>1. current[q] # c
        BY <2>2, <3>2, CommitsAlone
      <4>2. current[q] \in Cves
        BY <3>2 DEF Inv, RunsOK
      <4>3. /\ lmd'[current[q]] = lmd[current[q]]
            /\ score'[current[q]] = score[current[q]]
            /\ matches'[current[q]] = matches[current[q]]
        BY <1>1, <4>1, <4>2 DEF Inv, TypeOK, Commit
      <4>4. QED
        BY <3>1, <4>3 DEF Seen
    <3>3. QED
      BY <3>1, <3>2 DEF Inv, RunsOK
  <2>3. QED
    BY <2>1, <2>2
<1>8. WindowOK'
  BY DEF Inv, WindowOK, Commit, world
<1>9. QED
  BY <1>6, <1>7, <1>8 DEF Inv

(* Every step keeps the invariant.                                         *)
LEMMA NextInv == Inv /\ [Next]_vars => Inv'
<1> SUFFICES ASSUME Inv, [Next]_vars PROVE Inv'
  OBVIOUS
<1>1. ASSUME NEW c \in Cves, Modify(c) PROVE Inv'
  <2>1. LocksOK' /\ RunsOK'
    BY <1>1, NoTransaction DEF Modify, Inv, TypeOK, Procs, node, run
  <2>2. TypeOK'
    BY <1>1, <2>1, BoundsAssumption DEF Modify, Inv, TypeOK, Versions, node, run, heard
  <2>3. WindowOK'
    BY <1>1, BoundsAssumption DEF Modify, Inv, TypeOK, WindowOK, Versions, world
  <2>4. QED
    BY <2>1, <2>2, <2>3 DEF Inv
<1>2. CASE PollStart
  <2>1. LocksOK' /\ RunsOK'
    BY <1>2, NoTransaction DEF PollStart, Inv, TypeOK, Procs, node, run
  <2>2. TypeOK'
    BY <1>2, <2>1 DEF PollStart, Inv, TypeOK, Procs, PCs, world, node, heard
  <2>3. WindowOK'
    BY <1>2 DEF PollStart, Inv, TypeOK, WindowOK, Versions, world
  <2>4. QED
    BY <2>1, <2>2, <2>3 DEF Inv
<1>3. CASE PollFetch
  <2>1. LocksOK' /\ RunsOK'
    BY <1>3, NoTransaction DEF PollFetch, Inv, TypeOK, Procs, node, run
  <2>2. TypeOK'
    BY <1>3, <2>1 DEF PollFetch, Inv, TypeOK, Procs, PCs, world, node, heard
  <2>3. WindowOK'
    BY <1>3 DEF PollFetch, Inv, TypeOK, WindowOK, Versions, world
  <2>4. QED
    BY <2>1, <2>2, <2>3 DEF Inv
<1>4. ASSUME NEW c \in Cves, Skip(c) PROVE Inv'
  <2>1. LocksOK' /\ RunsOK'
    BY <1>4, NoTransaction DEF Skip, Inv, TypeOK, Procs, node, run
  <2>2. TypeOK'
    BY <1>4, <2>1 DEF Skip, Inv, TypeOK, Procs, world, node, heard
  <2>3. WindowOK'
    BY <1>4 DEF Skip, Inv, TypeOK, WindowOK, Versions, world
  <2>4. QED
    BY <2>1, <2>2, <2>3 DEF Inv
<1>6. ASSUME NEW p \in Enrichers, NEW c \in Cves, Look(p, c) PROVE Inv'
  <2>1. LocksOK' /\ RunsOK'
    BY <1>6, NoTransaction DEF Look, Inv, TypeOK, Procs, node, run
  <2>2. TypeOK'
    BY <1>6, <2>1 DEF Look, Inv, TypeOK, Procs, PCs, world, node, heard
  <2>3. WindowOK'
    BY <1>6 DEF Look, Inv, TypeOK, WindowOK, Versions, world
  <2>4. QED
    BY <2>1, <2>2, <2>3 DEF Inv
<1>7. ASSUME NEW p \in Enrichers, NEW c \in Cves, Backfill(p, c) PROVE Inv'
  <2>1. LocksOK' /\ RunsOK'
    BY <1>7, NoTransaction DEF Backfill, Inv, TypeOK, Procs, node, run
  <2>2. TypeOK'
    BY <1>7, <2>1 DEF Backfill, Inv, TypeOK, Procs, PCs, world, node, heard
  <2>3. WindowOK'
    BY <1>7 DEF Backfill, Inv, TypeOK, WindowOK, Versions, world
  <2>4. QED
    BY <2>1, <2>2, <2>3 DEF Inv
<1>8. ASSUME NEW p \in Enrichers, Reference(p) PROVE Inv'
  <2>1. LocksOK' /\ RunsOK'
    BY <1>8, NoTransaction DEF Reference, Inv, TypeOK, Procs, node, run
  <2>2. TypeOK'
    BY <1>8, <2>1 DEF Reference, Inv, TypeOK, Procs, PCs, world, heard
  <2>3. WindowOK'
    BY <1>8 DEF Reference, Inv, TypeOK, WindowOK, Versions, world
  <2>4. QED
    BY <2>1, <2>2, <2>3 DEF Inv
<1>9. ASSUME NEW p \in Enrichers, EnrichFetch(p) PROVE Inv'
  <2>1. LocksOK' /\ RunsOK'
    BY <1>9, NoTransaction DEF EnrichFetch, Inv, TypeOK, Procs, node, run
  <2>2. TypeOK'
    BY <1>9, <2>1 DEF EnrichFetch, Inv, TypeOK, Procs, PCs, world, node, heard
  <2>3. WindowOK'
    BY <1>9 DEF EnrichFetch, Inv, TypeOK, WindowOK, Versions, world
  <2>4. QED
    BY <2>1, <2>2, <2>3 DEF Inv
<1>5. CASE PollDone
  <2>1. Poller \in Procs /\ Done(Poller) /\ Reset(Poller)
    BY <1>5 DEF PollDone, Procs
  <2>2. locker' = [c \in Cves |-> IF locker[c] = Poller THEN Free ELSE locker[c]]
    BY <1>5, <2>1 DEF PollDone, Done, Inv, TypeOK, LocksOK
  <2>3. LocksOK' /\ RunsOK'
    BY <1>5, <2>1, <2>2, RunEnds DEF PollDone, node
  <2>4. TypeOK'
    BY <1>5, <2>1, <2>3, ResetTypes DEF PollDone, NextWatermark, Inv, TypeOK, world, node, heard
  <2>5. WindowOK'
    BY <1>5 DEF PollDone, NextWatermark, Inv, TypeOK, WindowOK, Versions, world
  <2>6. QED
    BY <2>3, <2>4, <2>5 DEF Inv
<1>10. ASSUME NEW p \in Enrichers, EnrichDone(p) PROVE Inv'
  <2>1. p \in Procs /\ Done(p) /\ Reset(p)
    BY <1>10 DEF EnrichDone, Procs
  <2>2. locker' = [c \in Cves |-> IF locker[c] = p THEN Free ELSE locker[c]]
    BY <1>10, <2>1 DEF EnrichDone, Done, Inv, TypeOK, LocksOK
  <2>3. LocksOK' /\ RunsOK'
    BY <1>10, <2>1, <2>2, RunEnds DEF EnrichDone, node
  <2>4. TypeOK'
    BY <1>10, <2>1, <2>3, ResetTypes DEF EnrichDone, Inv, TypeOK, world, node, heard
  <2>5. WindowOK'
    BY <1>10 DEF EnrichDone, Inv, WindowOK, world
  <2>6. QED
    BY <2>3, <2>4, <2>5 DEF Inv
<1>11. ASSUME NEW p \in Procs, NEW c \in Cves, Begin(p, c) PROVE Inv'
  <2>1. \A d \in Cves : Seen(d)' = Seen(d)
    BY <1>11 DEF Begin, Seen, node
  <2>2. Seen(c) \in [lmd : Versions, score : Nat, hasMatches : BOOLEAN]
    BY DEF Inv, TypeOK, Seen
  <2>3. /\ pc'[p] = "decide" /\ current'[p] = c /\ seen'[p] = Seen(c)
        /\ locker'[c] = p /\ locker[c] = Free
        /\ pc[p] = "apply"
        /\ \A q \in Procs \ {p} : /\ pc'[q] = pc[q] /\ current'[q] = current[q]
                                  /\ seen'[q] = seen[q]
        /\ \A d \in Cves \ {c} : locker'[d] = locker[d]
        /\ news' = news
    BY <1>11 DEF Begin, Inv, TypeOK
  <2>4. LocksOK'
    <3>1. SUFFICES ASSUME NEW d \in Cves, NEW q \in Procs
                   PROVE  locker'[d] = q <=> pc'[q] = "decide" /\ current'[q] = d
      BY DEF LocksOK
    <3>2. locker[d] = q <=> pc[q] = "decide" /\ current[q] = d
      BY DEF Inv, TypeOK, LocksOK
    <3>3. CASE q = p
      BY <2>3, <3>2, <3>3
    <3>4. CASE q # p
      BY <2>3, <3>2, <3>4, ProcsAssumption
    <3>5. QED
      BY <3>3, <3>4
  <2>5. RunsOK'
    BY <2>1, <2>3 DEF Inv, RunsOK
  <2>6. TypeOK'
    BY <1>11, <2>2, <2>4 DEF Begin, Inv, TypeOK, PCs, world, node, heard
  <2>7. WindowOK'
    BY <1>11 DEF Begin, Inv, WindowOK, world
  <2>8. QED
    BY <2>5, <2>6, <2>7 DEF Inv
<1>12. ASSUME NEW p \in Procs, Commit(p) PROVE Inv'
  BY <1>12, CommitInv
<1>13. ASSUME NEW p \in Procs, Publish(p) PROVE Inv'
  <2>1. \A d \in Cves : Seen(d)' = Seen(d)
    BY <1>13 DEF Publish, Seen, node
  <2>2. /\ pc'[p] = "apply" /\ current'[p] = Free /\ news'[p] = NoNews
        /\ pc[p] = "publish" /\ current[p] \in Cves
        /\ \A q \in Procs \ {p} : /\ pc'[q] = pc[q] /\ current'[q] = current[q]
                                  /\ seen'[q] = seen[q] /\ news'[q] = news[q]
    BY <1>13 DEF Publish, Inv, TypeOK, RunsOK
  <2>3. LocksOK'
    BY <1>13, <2>2 DEF Publish, Inv, TypeOK, LocksOK
  <2>4. RunsOK'
    BY <2>1, <2>2, FreeAssumption DEF Inv, RunsOK
  <2>5. /\ NothingSeen \in [lmd : Versions, score : Nat, hasMatches : BOOLEAN]
        /\ NoNews \in [score : BOOLEAN, created : SUBSET Platform]
    BY BoundsAssumption DEF NothingSeen, NoNews, Versions
  <2>6. /\ rescored' \in [Cves -> Nat]
        /\ rematched' \in [Cves -> SUBSET Platform]
    BY <1>13, <2>2 DEF Publish, Inv, TypeOK
  <2>7. TypeOK'
    BY <1>13, <2>3, <2>5, <2>6 DEF Publish, Inv, TypeOK, PCs, world, node
  <2>8. WindowOK'
    BY <1>13 DEF Publish, Inv, WindowOK, world
  <2>9. QED
    BY <2>4, <2>7, <2>8 DEF Inv
<1>14. ASSUME NEW p \in Procs, Crash(p) PROVE Inv'
  <2>1. Reset(p)
    BY <1>14 DEF Crash
  <2>2. LocksOK' /\ RunsOK'
    BY <1>14, <2>1, RunEnds DEF Crash, node
  <2>3. locker' \in [Cves -> Procs \cup {Free}] /\ crashes' \in 0..MaxCrashes
    BY <1>14, BoundsAssumption DEF Crash, Inv, TypeOK
  <2>4. missed' \subseteq Cves
    BY <1>14 DEF Crash, Inv, TypeOK, RunsOK
  <2>5. orphaned' \subseteq Cves
    BY <1>14 DEF Crash, Inv, TypeOK
  <2>6. TypeOK'
    BY <1>14, <2>1, <2>2, <2>3, <2>4, <2>5, ResetTypes DEF Crash, Inv, TypeOK, world, node
  <2>7. WindowOK'
    BY <1>14 DEF Crash, Inv, WindowOK, world
  <2>8. QED
    BY <2>2, <2>6, <2>7 DEF Inv
<1>15. CASE UNCHANGED vars
  <2>1. LocksOK' /\ RunsOK'
    BY <1>15, NoTransaction DEF vars, node, run
  <2>2. QED
    BY <1>15, <2>1 DEF Inv, TypeOK, WindowOK, vars, world, node, run, heard
<1>16. ASSUME NEW c \in Cves, ResolveCve(c) PROVE Inv'
  <2>1. LocksOK' /\ RunsOK'
    BY <1>16, NoTransaction DEF ResolveCve, Inv, TypeOK, Procs, node, run
  <2>2. TypeOK'
    BY <1>16, <2>1 DEF ResolveCve, Inv, TypeOK, world, run, heard
  <2>3. WindowOK'
    BY <1>16 DEF ResolveCve, Inv, TypeOK, WindowOK, Versions, world
  <2>4. QED
    BY <2>1, <2>2, <2>3 DEF Inv
<1>17. QED
  BY <1>1, <1>2, <1>3, <1>4, <1>5, <1>6, <1>7, <1>8, <1>9, <1>10, <1>11,
     <1>12, <1>13, <1>14, <1>15, <1>16
     DEF Next, Poll, Enrich, Apply, Procs

LEMMA InvAlways == Spec => []Inv
BY InitInv, NextInv, PTL DEF Spec

-----------------------------------------------------------------------------
(* Only commits write a CVE node's fields and edges.                       *)
LEMMA OnlyCommitsWrite ==
    ASSUME [Next]_vars, \A p \in Procs : ~Commit(p)
    PROVE  UNCHANGED <<lmd, score, cwes, matches>>
<1>1. CASE UNCHANGED vars
  BY <1>1 DEF vars, node
<1>2. CASE Next
  BY <1>2 DEF Next, Poll, Enrich, Apply, Procs, Modify, ResolveCve, PollStart, PollFetch,
       Look, Reference, Backfill, EnrichFetch, Skip, Begin, Publish, EnrichDone, PollDone,
       Crash, node
<1>3. QED
  BY <1>1, <1>2

(* What a commit makes of the one node it writes.                          *)
LEMMA CommitWrites ==
    ASSUME Inv, NEW p \in Procs, Commit(p)
    PROVE  LET c == current[p]
               v == Incoming(p)
           IN  /\ c \in Cves /\ v \in Versions
               /\ lmd'[c] = IF v > lmd[c] THEN v ELSE lmd[c]
               /\ cwes'[c] = IF v > lmd[c] THEN Weaknesses[v] ELSE cwes[c]
               /\ matches'[c] = IF v > lmd[c] \/ matches[c] = {}
                                THEN Platforms[v] ELSE matches[c]
               /\ \A d \in Cves \ {c} : /\ lmd'[d] = lmd[d]
                                        /\ cwes'[d] = cwes[d]
                                        /\ matches'[d] = matches[d]
<1>1. current[p] \in Cves /\ Incoming(p) \in Versions
  BY CommitValues
<1>2. seen[p].lmd = lmd[current[p]] /\ (seen[p].hasMatches <=> matches[current[p]] # {})
  <2>1. pc[p] = "decide"
    BY DEF Commit
  <2>2. seen[p] = Seen(current[p])
    BY <2>1 DEF Inv, RunsOK
  <2>3. seen[p].lmd = lmd[current[p]]
    BY <2>2 DEF Seen
  <2>4. seen[p].hasMatches <=> matches[current[p]] # {}
    <3>1. seen[p].hasMatches = Seen(current[p]).hasMatches
      BY <2>2
    <3>2. Seen(current[p]).hasMatches = (matches[current[p]] # {})
      BY Zenon DEF Seen
    <3>3. QED
      BY Zenon, <3>1, <3>2
  <2>5. QED
    BY <2>3, <2>4
<1>3. QED
  BY <1>1, <1>2 DEF Inv, TypeOK, Commit, Fresh, ResyncsMatches, CategoriesAfter,
                    MatchesAfter

-----------------------------------------------------------------------------
(* The types and the node locks hold throughout, whatever runs interleave  *)
(* or fail.                                                                *)
THEOREM TypeCorrect == Spec => []TypeOK
BY InvAlways, PTL DEF Inv

(* A stale payload never resurrects a CATEGORIZED_AS edge: the edges stay  *)
(* those of the version last_modified_date names.                          *)
THEOREM CategoriesFollowVersion == Spec => []CategoriesMatchWatermark
<1>1. Init => CategoriesMatchWatermark
  <2> SUFFICES ASSUME Init, NEW c \in Cves PROVE cwes[c] = Weaknesses[lmd[c]]
    BY DEF CategoriesMatchWatermark
  <2>1. lmd[c] = (IF c \in Legacy THEN 1 ELSE 0)
    BY DEF Init
  <2>2. cwes[c] = (IF c \in Legacy THEN Weaknesses[1] ELSE {})
    BY DEF Init
  <2>3. QED
    BY <2>1, <2>2, ContentAssumption
<1>2. CategoriesMatchWatermark /\ Inv /\ [Next]_vars => CategoriesMatchWatermark'
  <2> SUFFICES ASSUME CategoriesMatchWatermark, Inv, [Next]_vars
               PROVE  CategoriesMatchWatermark'
    OBVIOUS
  <2>1. CASE \A p \in Procs : ~Commit(p)
    BY <2>1, OnlyCommitsWrite DEF CategoriesMatchWatermark
  <2>2. ASSUME NEW p \in Procs, Commit(p) PROVE CategoriesMatchWatermark'
    BY <2>2, CommitWrites DEF CategoriesMatchWatermark
  <2>3. QED
    BY <2>1, <2>2
<1>3. QED
  BY <1>1, <1>2, InvAlways, PTL DEF Spec

(* Nothing is applied that NVD has not published, and no window starts     *)
(* before the first instant.                                               *)
PayloadOK ==
    /\ watermark >= 1
    /\ \A p \in Procs : pc[p] \in {"apply", "decide", "publish"} =>
           \A c \in Cves : c \in todo[p] \/ c = current[p] => payload[p][c] >= 1

LEMMA PayloadAlways == Spec => []PayloadOK
<1>1. Init => PayloadOK
  BY DEF Init, PayloadOK
<1>2. PayloadOK /\ Inv /\ [Next]_vars => PayloadOK'
  <2> SUFFICES ASSUME PayloadOK, Inv, [Next]_vars PROVE PayloadOK'
    OBVIOUS
  <2>1. ASSUME NEW c \in Cves, ResolveCve(c) PROVE PayloadOK'
    BY <2>1 DEF ResolveCve, world, run, PayloadOK
  <2>2. ASSUME NEW c \in Cves, Modify(c) PROVE PayloadOK'
    BY <2>2 DEF Modify, run, PayloadOK
  <2>3. CASE PollStart
    BY <2>3 DEF PollStart, PayloadOK, Inv, TypeOK
  <2>4. CASE PollFetch
    <3>1. \A c \in Cves : nvd[c] \in watermark..windowEnd => nvd[c] >= 1
      BY DEF PayloadOK, Inv, TypeOK, Versions
    <3>2. current[Poller] \notin Cves
      BY <2>4 DEF PollFetch, Inv, RunsOK, Procs
    <3>3. QED
      BY <2>4, <3>1, <3>2 DEF PollFetch, PayloadOK, Inv, TypeOK
  <2>5. ASSUME NEW c \in Cves, Skip(c) PROVE PayloadOK'
    BY <2>5 DEF Skip, PayloadOK, Inv, TypeOK
  <2>6. CASE PollDone
    <3>1. Reset(Poller) /\ watermark' = windowEnd /\ watermark' >= 1
      BY <2>6 DEF PollDone, NextWatermark, PayloadOK, Inv, TypeOK, WindowOK, Versions
    <3>2. QED
      BY <3>1 DEF Reset, PayloadOK, Inv, TypeOK
  <2>7. ASSUME NEW p \in Enrichers, NEW c \in Cves, Look(p, c) PROVE PayloadOK'
    BY <2>7 DEF Look, PayloadOK, Inv, TypeOK
  <2>8. ASSUME NEW p \in Enrichers, NEW c \in Cves, Backfill(p, c) PROVE PayloadOK'
    BY <2>8 DEF Backfill, PayloadOK, Inv, TypeOK
  <2>9. ASSUME NEW p \in Enrichers, Reference(p) PROVE PayloadOK'
    BY <2>9 DEF Reference, PayloadOK, Inv, TypeOK
  <2>10. ASSUME NEW p \in Enrichers, EnrichFetch(p) PROVE PayloadOK'
    <3>1. \A c \in Cves : nvd[c] # 0 => nvd[c] >= 1
      BY DEF Inv, TypeOK, Versions
    <3>2. current[p] \notin Cves
      BY <2>10 DEF EnrichFetch, Inv, RunsOK, Procs
    <3>3. QED
      BY <2>10, <3>1, <3>2 DEF EnrichFetch, PayloadOK, Inv, TypeOK
  <2>11. ASSUME NEW p \in Enrichers, EnrichDone(p) PROVE PayloadOK'
    BY <2>11 DEF EnrichDone, Reset, PayloadOK, Inv, TypeOK
  <2>12. ASSUME NEW p \in Procs, NEW c \in Cves, Begin(p, c) PROVE PayloadOK'
    BY <2>12 DEF Begin, PayloadOK, Inv, TypeOK
  <2>13. ASSUME NEW p \in Procs, Commit(p) PROVE PayloadOK'
    BY <2>13 DEF Commit, PayloadOK, Inv, TypeOK
  <2>14. ASSUME NEW p \in Procs, Publish(p) PROVE PayloadOK'
    BY <2>14, FreeAssumption DEF Publish, PayloadOK, Inv, TypeOK
  <2>15. ASSUME NEW p \in Procs, Crash(p) PROVE PayloadOK'
    BY <2>15 DEF Crash, Reset, PayloadOK, Inv, TypeOK
  <2>16. CASE UNCHANGED vars
    BY <2>16 DEF vars, run, PayloadOK
  <2>17. QED
    BY <2>1, <2>2, <2>3, <2>4, <2>5, <2>6, <2>7, <2>8, <2>9, <2>10, <2>11, <2>12,
       <2>13, <2>14, <2>15, <2>16 DEF Next, Poll, Enrich, Apply, Procs
<1>3. QED
  BY <1>1, <1>2, InvAlways, PTL DEF Spec

(* A CVE's MATCHES edges are those of the version last_modified_date       *)
(* names, or nobody has caught up with them since CPEMatch nodes exist, or *)
(* that version names no platform: only there a stale payload passes the   *)
(* has_matches test.                                                       *)
THEOREM MatchesFollowVersion == Spec => []MatchesMatchUnlessDropped
<1> DEFINE CaughtUp(c) == matches[c] = Platforms[lmd[c]]
           Waiting(c) == c \in Legacy /\ matches[c] = {} /\ lmd[c] = 1
           Dropped(c) == /\ Platforms[lmd[c]] = {}
                         /\ \E v \in 0..lmd[c] : matches[c] = Platforms[v]
           MatchInv == \A c \in Cves : CaughtUp(c) \/ Waiting(c) \/ Dropped(c)
<1>1. Init => MatchInv
  <2> SUFFICES ASSUME Init, NEW c \in Cves PROVE CaughtUp(c) \/ Waiting(c)
    OBVIOUS
  <2>1. lmd[c] = (IF c \in Legacy THEN 1 ELSE 0) /\ matches[c] = {}
    BY DEF Init
  <2>2. QED
    BY <2>1, ContentAssumption
<1>2. MatchInv /\ Inv /\ PayloadOK /\ [Next]_vars => MatchInv'
  <2> SUFFICES ASSUME MatchInv, Inv, PayloadOK, [Next]_vars PROVE MatchInv'
    OBVIOUS
  <2>1. CASE \A p \in Procs : ~Commit(p)
    BY <2>1, OnlyCommitsWrite
  <2>2. ASSUME NEW p \in Procs, Commit(p), NEW c \in Cves
        PROVE  CaughtUp(c)' \/ Waiting(c)' \/ Dropped(c)'
    <3>1. CASE c # current[p]
      BY <2>2, <3>1, CommitWrites
    <3>2. CASE c = current[p]
      <4> DEFINE v == Incoming(p)
      <4>1. /\ v \in Versions
            /\ lmd'[c] = IF v > lmd[c] THEN v ELSE lmd[c]
            /\ matches'[c] = IF v > lmd[c] \/ matches[c] = {} THEN Platforms[v]
                                                             ELSE matches[c]
        BY <2>2, <3>2, CommitWrites
      <4>2. v >= 1
        BY <2>2, <3>2 DEF PayloadOK, Commit, Incoming
      <4>3. lmd[c] \in Versions /\ (CaughtUp(c) \/ Waiting(c) \/ Dropped(c))
        BY DEF Inv, TypeOK
      <4>4. CASE v > lmd[c]
        BY <4>1, <4>4
      <4>5. CASE ~(v > lmd[c]) /\ matches[c] # {}
        BY <4>1, <4>3, <4>5
      <4>6. CASE ~(v > lmd[c]) /\ matches[c] = {}
        <5>1. v \in 0..lmd[c] /\ lmd'[c] = lmd[c] /\ matches'[c] = Platforms[v]
          BY <4>1, <4>2, <4>3, <4>6 DEF Versions
        <5>2. CASE Platforms[lmd[c]] = {}
          BY <5>1, <5>2
        <5>3. CASE Platforms[lmd[c]] # {}
          <6>1. Waiting(c)
            BY <4>3, <4>6, <5>3
          <6>2. v = lmd[c]
            BY <4>2, <5>1, <6>1
          <6>3. QED
            BY <5>1, <6>2
        <5>4. QED
          BY <5>2, <5>3
      <4>7. QED
        BY <4>4, <4>5, <4>6
    <3>3. QED
      BY <3>1, <3>2
  <2>3. QED
    BY <2>1, <2>2
<1>3. MatchInv => MatchesMatchUnlessDropped
  BY DEF MatchesMatchUnlessDropped
<1>4. QED
  BY <1>1, <1>2, <1>3, InvAlways, PayloadAlways, PTL DEF Spec

(* However late a run applies what it fetched, neither a node's            *)
(* last_modified_date nor the poll's watermark moves back.                 *)
THEOREM WatermarksNeverRewind == Spec => WatermarksAdvance
<1> DEFINE Advance == (\A c \in Cves : lmd'[c] >= lmd[c]) /\ watermark' >= watermark
<1>1. Inv /\ [Next]_vars => [Advance]_vars
  <2> SUFFICES ASSUME Inv, Next PROVE Advance
    OBVIOUS
  <2>1. \A c \in Cves : lmd'[c] >= lmd[c]
    <3>1. CASE \A p \in Procs : ~Commit(p)
      BY <3>1, OnlyCommitsWrite DEF Inv, TypeOK, Versions
    <3>2. ASSUME NEW p \in Procs, Commit(p), NEW c \in Cves PROVE lmd'[c] >= lmd[c]
      <4>1. /\ lmd[c] \in Versions /\ Incoming(p) \in Versions
            /\ \/ lmd'[c] = lmd[c]
               \/ lmd'[c] = IF Incoming(p) > lmd[c] THEN Incoming(p) ELSE lmd[c]
        BY <3>2, CommitWrites DEF Inv, TypeOK
      <4>2. QED
        BY <4>1 DEF Versions
    <3>3. QED
      BY <3>1, <3>2
  <2>2. watermark' >= watermark
    <3>1. CASE PollDone
      BY <3>1 DEF PollDone, NextWatermark, Inv, TypeOK, WindowOK, Versions
    <3>2. CASE ~PollDone
      <4>1. watermark' = watermark
        BY <3>2 DEF Next, Poll, Enrich, Apply, Modify, PollStart, PollFetch, Look,
             ResolveCve, Reference, Backfill, EnrichFetch, Skip, Begin, Commit, Publish,
             EnrichDone, Crash
      <4>2. QED
        BY <4>1 DEF Inv, TypeOK, Versions
    <3>3. QED
      BY <3>1, <3>2
  <2>3. QED
    BY <2>1, <2>2
<1>2. QED
  BY <1>1, InvAlways, PTL DEF Spec, WatermarksAdvance

-----------------------------------------------------------------------------
(* ChangesAnnounced of one CVE, run by run.                                *)
ScoreTold(c) ==
    \/ rescored[c] = score[c]
    \/ \E p \in Procs : current[p] = c /\ news[p].score = TRUE

MatchTold(c, m) ==
    \/ m \in rematched[c]
    \/ \E p \in Procs : current[p] = c /\ m \in news[p].created

Told(c) == ScoreTold(c) /\ \A m \in matches[c] : MatchTold(c, m)

AllTold == \A c \in Cves \ missed : Told(c)

(* Every single score and match being told is what ChangesAnnounced says.  *)
LEMMA ToldIsAnnounced ==
    ASSUME TypeOK PROVE AllTold => ChangesAnnounced
<1> SUFFICES ASSUME AllTold, NEW c \in Cves \ missed
             PROVE  LET coming == {news[p] : p \in {q \in Procs : current[q] = c}} IN
                    /\ rescored[c] = score[c] \/ \E n \in coming : n.score
                    /\ matches[c] \subseteq
                           rematched[c] \cup UNION {n.created : n \in coming}
  BY DEF ChangesAnnounced
<1> DEFINE coming == {news[p] : p \in {q \in Procs : current[q] = c}}
<1>1. ScoreTold(c) /\ \A m \in matches[c] : MatchTold(c, m)
  BY DEF AllTold, Told
<1>2. rescored[c] = score[c] \/ \E n \in coming : n.score
  <2>1. CASE rescored[c] = score[c]
    BY <2>1
  <2>2. ASSUME NEW p \in Procs, current[p] = c, news[p].score = TRUE
        PROVE  \E n \in coming : n.score
    <3>1. news[p] \in coming
      BY <2>2
    <3> HIDE DEF coming
    <3> QED
      BY <2>2, <3>1, Zenon
  <2> QED
    BY <1>1, <2>1, <2>2 DEF ScoreTold
<1>3. ASSUME NEW m \in matches[c]
      PROVE  m \in rematched[c] \cup UNION {n.created : n \in coming}
  BY <1>1 DEF MatchTold
<1> QED
  BY <1>2, <1>3

(* A step that neither commits nor announces, and that drops no news but   *)
(* those it counts as missed.                                              *)
LEMMA ToldStays ==
    ASSUME AllTold, UNCHANGED <<score, matches, rescored, rematched>>,
           missed \subseteq missed',
           \A p \in Procs :
               \/ current'[p] = current[p] /\ news'[p] = news[p]
               \/ current[p] \notin Cves \ missed'
               \/ news[p] = NoNews
    PROVE  AllTold'
<1> SUFFICES ASSUME NEW c \in Cves, c \notin missed' PROVE Told(c)'
  BY DEF AllTold
<1>1. Told(c)
  BY DEF AllTold
<1>2. NoNews.score # TRUE /\ NoNews.created = {}
  BY DEF NoNews
<1>3. \A p \in Procs : current[p] = c =>
          \/ current'[p] = c /\ news'[p] = news[p]
          \/ news[p].score # TRUE /\ news[p].created = {}
  BY <1>2
<1>4. ScoreTold(c)'
  BY <1>1, <1>3 DEF Told, ScoreTold
<1>5. ASSUME NEW m \in matches[c] PROVE MatchTold(c, m)'
  BY <1>1, <1>3, <1>5 DEF Told, MatchTold
<1> QED
  BY <1>4, <1>5 DEF Told

(* A commit leaves news of what it changed, or counts it as missed.        *)
LEMMA CommitTold ==
    ASSUME Inv, AllTold, NEW p \in Procs, Commit(p) PROVE AllTold'
<1> SUFFICES ASSUME NEW c \in Cves, c \notin missed' PROVE Told(c)'
  BY DEF AllTold
<1>1. /\ c \notin missed /\ Told(c)
      /\ rescored' = rescored /\ rematched' = rematched /\ current' = current
      /\ \A q \in Procs \ {p} : news'[q] = news[q]
  BY DEF AllTold, Commit, Inv, TypeOK
<1>2. current[p] \in Cves /\ pc[p] = "decide" /\ news[p] = NoNews
      /\ seen[p] = Seen(current[p])
  BY CommitValues DEF Inv, RunsOK, Commit
<1>3. NoNews.score # TRUE /\ NoNews.created = {}
  BY DEF NoNews
<1>4. CASE current[p] # c
  <2>1. score'[c] = score[c] /\ matches'[c] = matches[c]
    BY <1>2, <1>4 DEF Commit, Inv, TypeOK
  <2>2. \A q \in Procs : current[q] = c => news'[q] = news[q]
    BY <1>1, <1>4
  <2> QED
    BY <1>1, <2>1, <2>2 DEF Told, ScoreTold, MatchTold
<1>5. CASE current[p] = c
  <2>1. score'[c] = ScoreAfter(p) /\ matches'[c] = MatchesAfter(p)
    BY <1>5 DEF Commit, Inv, TypeOK
  <2>2. news'[p] = NewsOf(p) \/ (news'[p] = NoNews /\ NewsOf(p) = NoNews)
    BY <1>5 DEF Commit, Inv, TypeOK
  <2>3. news'[p] = NewsOf(p)
    BY <2>2
  <2>4. news'[p].created = MatchesAfter(p) \ matches[c]
    BY <1>5, <2>3 DEF NewsOf
  <2>5. ScoreAfter(p) # score[c] => news'[p].score = TRUE
    <3>1. seen[p].score = score[c]
      BY <1>2, <1>5 DEF Seen
    <3>2. ASSUME ScoreAfter(p) # score[c]
          PROVE  Score[Incoming(p)] \notin {0, seen[p].score}
      BY <1>5, <3>1, <3>2 DEF ScoreAfter
    <3>3. NewsOf(p).score = (Score[Incoming(p)] \notin {0, seen[p].score})
      BY Zenon DEF NewsOf
    <3> QED
      BY <2>3, <3>2, <3>3, Zenon
  <2>6. ScoreTold(c)'
    <3>1. CASE ScoreAfter(p) # score[c]
      BY <1>1, <1>5, <2>5, <3>1 DEF ScoreTold
    <3>2. CASE ScoreAfter(p) = score[c]
      BY <1>1, <1>2, <1>3, <2>1, <3>2 DEF Told, ScoreTold
    <3> QED
      BY <3>1, <3>2
  <2>7. ASSUME NEW m \in matches'[c] PROVE MatchTold(c, m)'
    <3>1. CASE m \in matches[c]
      BY <1>1, <1>2, <1>3, <3>1 DEF Told, MatchTold
    <3>2. CASE m \notin matches[c]
      BY <1>1, <1>5, <2>1, <2>4, <2>7, <3>2 DEF MatchTold
    <3> QED
      BY <3>1, <3>2
  <2> QED
    BY <2>6, <2>7 DEF Told
<1> QED
  BY <1>4, <1>5

(* What is announced has been heard.                                       *)
LEMMA PublishTold ==
    ASSUME Inv, AllTold, NEW p \in Procs, Publish(p) PROVE AllTold'
<1> SUFFICES ASSUME NEW c \in Cves, c \notin missed' PROVE Told(c)'
  BY DEF AllTold
<1>1. /\ Told(c) /\ score' = score /\ matches' = matches
      /\ \A q \in Procs \ {p} : news'[q] = news[q] /\ current'[q] = current[q]
      /\ current[p] \in Cves
  BY DEF AllTold, Publish, Inv, TypeOK, RunsOK, node
<1>2. CASE current[p] # c
  <2>1. rescored'[c] = rescored[c] /\ rematched'[c] = rematched[c]
    BY <1>1, <1>2 DEF Publish, Inv, TypeOK
  <2> QED
    BY <1>1, <1>2, <2>1 DEF Told, ScoreTold, MatchTold
<1>3. CASE current[p] = c
  <2>1. rematched'[c] = rematched[c] \cup news[p].created
    BY <1>3 DEF Publish, Inv, TypeOK
  <2>2. rescored'[c] = score[c] \/ (rescored'[c] = rescored[c] /\ ~news[p].score)
    BY <1>3 DEF Publish, Inv, TypeOK
  <2>3. ScoreTold(c)'
    BY <1>1, <2>2 DEF Told, ScoreTold
  <2>4. ASSUME NEW m \in matches[c] PROVE MatchTold(c, m)'
    BY <1>1, <2>1 DEF Told, MatchTold
  <2> QED
    BY <1>1, <2>3, <2>4 DEF Told
<1> QED
  BY <1>2, <1>3

(* Whatever cvss_score and MATCHES edges a CVE gets, the scorer and the    *)
(* asset matcher are told, for any runs racing on it; but for a crash      *)
(* between commit and announcement, or a backfill.                         *)
THEOREM EveryChangeAnnounced == Spec => []ChangesAnnounced
<1>1. Init => AllTold
  BY DEF Init, AllTold, Told, ScoreTold
<1>2. AllTold /\ Inv /\ [Next]_vars => AllTold'
  <2> SUFFICES ASSUME AllTold, Inv, [Next]_vars PROVE AllTold'
    OBVIOUS
  <2>1. ASSUME NEW p \in Procs, Commit(p) PROVE AllTold'
    BY <2>1, CommitTold
  <2>2. ASSUME NEW p \in Procs, Publish(p) PROVE AllTold'
    BY <2>2, PublishTold
  <2>3. ASSUME NEW p \in Procs, NEW c \in Cves, Begin(p, c) PROVE AllTold'
    <3>1. news[p] = NoNews
      BY <2>3 DEF Begin, Inv, RunsOK
    <3>2. UNCHANGED <<score, matches, rescored, rematched, missed, news>>
          /\ \A q \in Procs \ {p} : current'[q] = current[q]
      BY <2>3 DEF Begin, Inv, TypeOK, node, heard
    <3> QED
      BY <3>1, <3>2, ToldStays
  <2>4. ASSUME NEW p \in Procs, Reset(p), pc[p] = "apply",
               UNCHANGED <<score, matches, rescored, rematched, missed>>
        PROVE  AllTold'
    <3>1. news[p] = NoNews
      BY <2>4 DEF Inv, RunsOK
    <3>2. \A q \in Procs \ {p} : current'[q] = current[q] /\ news'[q] = news[q]
      BY <2>4 DEF Reset, Inv, TypeOK
    <3> QED
      BY <2>4, <3>1, <3>2, ToldStays
  <2>5. CASE PollDone
    BY <2>4, <2>5 DEF PollDone, Done, Procs, node, heard
  <2>6. ASSUME NEW p \in Enrichers, EnrichDone(p) PROVE AllTold'
    BY <2>4, <2>6 DEF EnrichDone, Done, Procs, node, heard
  <2>7. ASSUME NEW p \in Procs, Crash(p) PROVE AllTold'
    <3>1. /\ UNCHANGED <<score, matches, rescored, rematched>>
          /\ missed \subseteq missed'
          /\ news[p] # NoNews => current[p] \in missed'
      BY <2>7 DEF Crash, node
    <3>2. \A q \in Procs \ {p} : current'[q] = current[q] /\ news'[q] = news[q]
      BY <2>7 DEF Crash, Reset, Inv, TypeOK
    <3> QED
      BY <3>1, <3>2, ToldStays
  <2>8. CASE UNCHANGED <<score, matches, rescored, rematched, missed, current, news>>
    BY <2>8, ToldStays
  <2> QED
    BY <2>1, <2>2, <2>3, <2>5, <2>6, <2>7, <2>8 DEF Next, Poll, Enrich, Apply, Procs,
       Modify, ResolveCve, PollStart, PollFetch, Look, Reference, Backfill, EnrichFetch, Skip,
       vars, node, run, heard
<1>3. Inv /\ AllTold => ChangesAnnounced
  BY ToldIsAnnounced DEF Inv
<1>4. QED
  BY <1>1, <1>2, <1>3, InvAlways, PTL DEF Spec
=============================================================================
