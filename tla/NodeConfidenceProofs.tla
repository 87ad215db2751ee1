------------------------ MODULE NodeConfidenceProofs ------------------------
(***************************************************************************)
(* What holds of NodeConfidence for any number of articles, stories and    *)
(* invocations, any contributions and any number of deliveries.            *)
(***************************************************************************)
EXTENDS NodeConfidence, WellFoundedInduction, TLAPS

(* An invocation at work has an article, and the story it was in.          *)
LocalsOK ==
    \A h \in Handlers : pc[h] # "idle" =>
        article[h] \in mentioned /\ story[h] \in Keys

Inv == TypeOK /\ LocalsOK /\ OrderIndependent

-----------------------------------------------------------------------------
(* A set of contributions that is not empty has a highest one.             *)
LEMMA HighestExists ==
    ASSUME NEW S \in SUBSET (0..Certain), S # {}
    PROVE  Highest(S) \in S /\ \A y \in S : y <= Highest(S)
<1> DEFINE Gaps == {Certain - x : x \in S}
           Less == OpToRel(<, Nat)
<1>1. Gaps \subseteq Nat
  BY ContributionAssumption
<1>2. Gaps # {}
  OBVIOUS
<1>3. \A x, y \in Nat : x < y => <<x, y>> \in Less
  BY DEF OpToRel
<1>4. IsWellFoundedOn(Less, Nat)
  BY NatLessThanWellFounded
<1>5. PICK g \in Gaps : \A m \in Gaps : ~(<<m, g>> \in Less)
  <2> HIDE DEF Gaps, Less
  <2> QED BY <1>1, <1>2, <1>4, WFMin
<1>6. PICK x \in S : g = Certain - x
  BY <1>5
<1>7. \A y \in S : y <= x
  <2> SUFFICES ASSUME NEW y \in S PROVE y <= x
    OBVIOUS
  <2>1. Certain - y \in Gaps /\ Certain - x \in Gaps
    OBVIOUS
  <2>2. ~(Certain - y < Certain - x)
    <3> HIDE DEF Less
    <3> QED BY <1>1, <1>3, <1>5, <1>6, <2>1
  <2>3. x \in Int /\ y \in Int /\ Certain \in Int
    <3>1. Certain \in Nat
      BY ContributionAssumption
    <3>2. x \in 0..Certain /\ y \in 0..Certain
      BY <1>6
    <3>3. QED
      BY <3>1, <3>2
  <2>4. QED
    BY <2>2, <2>3
<1>8. QED
  BY <1>6, <1>7 DEF Highest

(* A rebuild stores, for every story, the highest contribution made to it. *)
LEMMA EvidenceIsHighest ==
    ASSUME NEW at \in [Articles -> Keys], mentioned \subseteq Articles
    PROVE  /\ Evidence(at) \in Scores
           /\ \A a \in mentioned : Contribution[a] <= Evidence(at)[at[a]]
           /\ \A k \in Keys : Evidence(at)[k] # Absent =>
                  \E a \in mentioned : at[a] = k /\ Evidence(at)[k] = Contribution[a]
<1>1. \A k \in Keys : Contributions(k, at) \in SUBSET (0..Certain)
  BY ContributionAssumption DEF Contributions
<1>2. ASSUME NEW k \in Keys
      PROVE  /\ Evidence(at)[k] \in (0..Certain) \cup {Absent}
             /\ \A a \in mentioned : at[a] = k => Contribution[a] <= Evidence(at)[k]
             /\ Evidence(at)[k] # Absent =>
                  \E a \in mentioned : at[a] = k /\ Evidence(at)[k] = Contribution[a]
  <2>1. CASE Contributions(k, at) = {}
    <3>1. Evidence(at)[k] = Absent
      BY <2>1 DEF Evidence
    <3>2. \A a \in mentioned : at[a] # k
      BY <2>1 DEF Contributions
    <3>3. QED
      BY <3>1, <3>2
  <2>2. CASE Contributions(k, at) # {}
    <3>1. Evidence(at)[k] = Highest(Contributions(k, at))
      BY <2>2 DEF Evidence
    <3>2. /\ Highest(Contributions(k, at)) \in Contributions(k, at)
          /\ \A y \in Contributions(k, at) : y <= Highest(Contributions(k, at))
      BY <1>1, <2>2, HighestExists
    <3>3. QED
      BY <1>1, <3>1, <3>2 DEF Contributions
  <2>3. QED
    BY <2>1, <2>2
<1>3. Evidence(at) \in Scores
  BY <1>2 DEF Evidence, Scores
<1>4. QED
  BY <1>2, <1>3

-----------------------------------------------------------------------------
LEMMA InitInv == Init => Inv
<1> SUFFICES ASSUME Init PROVE Inv
  OBVIOUS
<1>1. NoScores \in Scores /\ OwnKeys \in [Articles -> Keys]
  BY DEF NoScores, Scores, OwnKeys, Keys
<1>2. TypeOK
  BY <1>1, ProcsAssumption, BoundsAssumption DEF Init, TypeOK, Procs
<1>3. LocalsOK
  BY DEF Init, LocalsOK, Procs
<1>4. OrderIndependent
  BY DEF Init, OrderIndependent, NoScores, OwnKeys
<1>5. QED
  BY <1>2, <1>3, <1>4 DEF Inv

(* A step that leaves the scores and what was counted alone keeps their    *)
(* relation.                                                               *)
LEMMA ScoresUntouched ==
    ASSUME OrderIndependent, UNCHANGED <<scores, countedAs>>
    PROVE  OrderIndependent'
BY DEF OrderIndependent

(* One lemma per operation: locks, lists as read, and scores at their      *)
(* maxima.                                                                 *)
LEMMA GatherInv ==
    ASSUME Inv, NEW S \in SUBSET Articles, NEW c \in StoryIds, Gather(S, c)
    PROVE  Inv'
<1> USE DEF Inv
<1>1. key' \in [Articles -> Keys] /\ minted' \subseteq StoryIds
  BY DEF TypeOK, Gather, Keys
<1>2. TypeOK'
  BY <1>1 DEF TypeOK, Gather, locals
<1>3. LocalsOK'
  BY DEF LocalsOK, Gather, locals
<1>4. OrderIndependent'
  BY ScoresUntouched DEF Gather
<1>5. QED
  BY <1>2, <1>3, <1>4

LEMMA MentionInv ==
    ASSUME Inv, NEW a \in Articles, Mention(a)
    PROVE  Inv'
<1> USE DEF Inv
<1>1. TypeOK'
  BY DEF TypeOK, Mention, dedup, locals
<1>2. LocalsOK'
  BY DEF LocalsOK, Mention, locals
<1>3. OrderIndependent'
  BY ScoresUntouched DEF Mention
<1>4. QED
  BY <1>1, <1>2, <1>3

LEMMA ContextInv ==
    ASSUME Inv, NEW h \in Handlers, NEW a \in Articles, Context(h, a)
    PROVE  Inv'
<1> USE DEF Inv
<1>1. deliveries' \in [Articles -> 0..MaxDeliveries]
  BY BoundsAssumption DEF TypeOK, Context
<1>2. /\ pc' \in [Procs -> {"idle", "lock", "write"}]
      /\ article' \in [Handlers -> Articles \cup {Free}]
      /\ story' \in [Handlers -> Keys \cup {Free}]
  BY DEF TypeOK, Context
<1>3. /\ \A p \in Procs : locker' = p <=> pc'[p] = "write"
      /\ \A i \in Handlers : pc'[i] = "write" => seen'[i] = scores'
  BY DEF TypeOK, Context, Procs
<1>4. TypeOK'
  BY <1>1, <1>2, <1>3 DEF TypeOK, Context, dedup
<1>5. LocalsOK'
  BY DEF LocalsOK, TypeOK, Context, Procs
<1>6. OrderIndependent'
  BY ScoresUntouched DEF Context
<1>7. QED
  BY <1>4, <1>5, <1>6

LEMMA LockInv ==
    ASSUME Inv, NEW h \in Handlers, Lock(h)
    PROVE  Inv'
<1> USE DEF Inv
<1>1. /\ pc' \in [Procs -> {"idle", "lock", "write"}]
      /\ seen' \in [Handlers -> Scores]
      /\ locker' \in Procs \cup {Free}
  BY DEF TypeOK, Lock, Procs
<1>2. /\ \A p \in Procs : locker' = p <=> pc'[p] = "write"
      /\ \A i \in Handlers : pc'[i] = "write" => seen'[i] = scores'
  BY ProcsAssumption DEF TypeOK, Lock, Procs
<1>3. TypeOK'
  BY <1>1, <1>2 DEF TypeOK, Lock, dedup
<1>4. LocalsOK'
  BY DEF LocalsOK, TypeOK, Lock, Procs
<1>5. OrderIndependent'
  BY ScoresUntouched DEF Lock
<1>6. QED
  BY <1>3, <1>4, <1>5

(* When a handler's locals are reset it is idle and nobody else is         *)
(* disturbed.                                                              *)
LEMMA ResetLocals ==
    ASSUME TypeOK, NEW h \in Handlers, Reset(h)
    PROVE  /\ pc' \in [Procs -> {"idle", "lock", "write"}]
           /\ article' \in [Handlers -> Articles \cup {Free}]
           /\ story' \in [Handlers -> Keys \cup {Free}]
           /\ seen' \in [Handlers -> Scores]
           /\ pc'[h] = "idle"
           /\ \A p \in Procs \ {h} : pc'[p] = pc[p]
           /\ \A i \in Handlers \ {h} : /\ article'[i] = article[i]
                                        /\ story'[i] = story[i]
                                        /\ seen'[i] = seen[i]
<1>1. NoScores \in Scores
  BY DEF NoScores, Scores
<1>2. QED
  BY <1>1 DEF TypeOK, Reset, Procs

(* A refinement raises one story's score to the contribution, or leaves    *)
(* all of them, and nothing was written since it read them.                *)
LEMMA RefinedScores ==
    ASSUME Inv, NEW h \in Handlers, pc[h] = "write"
    PROVE  /\ article[h] \in Articles /\ story[h] \in Keys
           /\ Refined(h) \in Scores
           /\ \A k \in Keys \ {story[h]} : Refined(h)[k] = scores[k]
           /\ scores[story[h]] <= Refined(h)[story[h]]
           /\ Contribution[article[h]] <= Refined(h)[story[h]]
           /\ Refined(h)[story[h]] \in {scores[story[h]], Contribution[article[h]]}
<1>1. article[h] \in Articles /\ story[h] \in Keys /\ seen[h] = scores
  BY DEF Inv, TypeOK, LocalsOK
<1>2. Contribution[article[h]] \in 0..Certain
  BY <1>1, ContributionAssumption
<1>3. scores \in Scores /\ scores[story[h]] \in (0..Certain) \cup {Absent}
  BY <1>1 DEF Inv, TypeOK, Scores
<1>4. CASE Contribution[article[h]] <= scores[story[h]]
  <2>1. Refined(h) = scores
    BY <1>1, <1>4 DEF Refined
  <2>2. QED
    BY <1>1, <1>3, <1>4, <2>1, ContributionAssumption DEF Absent
<1>5. CASE ~(Contribution[article[h]] <= scores[story[h]])
  <2>1. Refined(h) = [scores EXCEPT ![story[h]] = Contribution[article[h]]]
    BY <1>1, <1>5 DEF Refined
  <2>2. Refined(h)[story[h]] = Contribution[article[h]]
    BY <1>1, <1>3, <2>1 DEF Scores
  <2>3. Refined(h) \in Scores /\ \A k \in Keys \ {story[h]} : Refined(h)[k] = scores[k]
    BY <1>1, <1>2, <1>3, <2>1 DEF Scores
  <2>4. scores[story[h]] <= Contribution[article[h]]
    BY <1>2, <1>3, <1>5, ContributionAssumption DEF Absent
  <2>5. QED
    BY <1>1, <1>2, <2>2, <2>3, <2>4, ContributionAssumption
<1>6. QED
  BY <1>4, <1>5

LEMMA RefineInv ==
    ASSUME Inv, NEW h \in Handlers, Refine(h)
    PROVE  Inv'
<1>1. /\ pc[h] = "write" /\ scores' = Refined(h) /\ Reset(h) /\ locker' = Free
      /\ countedAs' = [countedAs EXCEPT ![article[h]] = @ \cup {story[h]}]
      /\ UNCHANGED <<key, minted, mentioned, deliveries, seenKeys>>
  BY DEF Refine, dedup
<1>2. TypeOK /\ LocalsOK /\ OrderIndependent
  BY DEF Inv
<1>3. article[h] \in mentioned /\ article[h] \in Articles /\ story[h] \in Keys
  BY <1>1, <1>2 DEF LocalsOK, TypeOK
<1>4. TypeOK'
  <2>1. scores' \in Scores
    BY <1>1, RefinedScores
  <2>2. countedAs' \in [Articles -> SUBSET Keys]
    BY <1>1, <1>2, <1>3 DEF TypeOK
  <2>3. locker = h /\ \A p \in Procs \ {h} : pc[p] # "write"
    BY <1>1, <1>2 DEF TypeOK, Procs
  <2>4. /\ \A p \in Procs : locker' = p <=> pc'[p] = "write"
        /\ \A i \in Handlers : pc'[i] = "write" => seen'[i] = scores'
    BY <1>1, <1>2, <2>3, ResetLocals, ProcsAssumption DEF Procs
  <2>5. QED
    BY <1>1, <1>2, <2>1, <2>2, <2>4, ResetLocals DEF TypeOK
<1>5. LocalsOK'
  BY <1>1, <1>2, ResetLocals DEF LocalsOK, Procs
<1>6. OrderIndependent'
  <2> SUFFICES ASSUME NEW k \in Keys
               PROVE  /\ \A a \in Articles :
                            k \in countedAs'[a] => Contribution[a] <= scores'[k]
                      /\ scores'[k] # Absent =>
                            \E a \in Articles :
                                k \in countedAs'[a] /\ scores'[k] = Contribution[a]
    BY DEF OrderIndependent
  <2>0. /\ \A a \in Articles \ {article[h]} : countedAs'[a] = countedAs[a]
        /\ countedAs'[article[h]] = countedAs[article[h]] \cup {story[h]}
    BY <1>1, <1>2, <1>3 DEF TypeOK
  <2>1. CASE k # story[h]
    <3>1. scores'[k] = scores[k]
      BY <1>1, <2>1, RefinedScores
    <3>2. \A a \in Articles : k \in countedAs'[a] <=> k \in countedAs[a]
      BY <2>0, <2>1
    <3>3. QED
      BY <1>2, <3>1, <3>2 DEF OrderIndependent
  <2>2. CASE k = story[h]
    <3>1. /\ scores[k] <= scores'[k] /\ Contribution[article[h]] <= scores'[k]
          /\ scores'[k] \in {scores[k], Contribution[article[h]]}
      BY <1>1, <2>2, RefinedScores
    <3>2. scores[k] \in Int /\ scores'[k] \in Int
          /\ \A a \in Articles : Contribution[a] \in Int
      BY <1>2, <1>4, ContributionAssumption DEF TypeOK, Scores, Absent
    <3>3. ASSUME NEW a \in Articles, k \in countedAs'[a]
          PROVE  Contribution[a] <= scores'[k]
      <4>1. CASE a = article[h]
        BY <4>1, <3>1
      <4>2. CASE a # article[h]
        <5>1. Contribution[a] <= scores[k]
          BY <1>2, <2>0, <3>3, <4>2 DEF OrderIndependent
        <5>2. QED
          BY <3>1, <3>2, <5>1
      <4>3. QED
        BY <4>1, <4>2
    <3>4. ASSUME scores'[k] # Absent
          PROVE  \E a \in Articles : k \in countedAs'[a] /\ scores'[k] = Contribution[a]
      <4>1. CASE scores'[k] = Contribution[article[h]]
        BY <1>3, <2>0, <2>2, <4>1
      <4>2. CASE scores'[k] = scores[k]
        <5>1. PICK a \in Articles : k \in countedAs[a] /\ scores[k] = Contribution[a]
          BY <1>2, <3>4, <4>2 DEF OrderIndependent
        <5>2. QED
          BY <2>0, <4>2, <5>1
      <4>3. QED
        BY <3>1, <4>1, <4>2
    <3>5. QED
      BY <3>3, <3>4
  <2>3. QED
    BY <2>1, <2>2
<1>7. QED
  BY <1>4, <1>5, <1>6 DEF Inv

LEMMA CrashInv ==
    ASSUME Inv, NEW h \in Handlers, Crash(h)
    PROVE  Inv'
<1>1. /\ Reset(h) /\ locker' = IF locker = h THEN Free ELSE locker
      /\ UNCHANGED <<key, minted, mentioned, deliveries, scores, seenKeys, countedAs>>
  BY DEF Crash, dedup
<1>2. TypeOK /\ LocalsOK /\ OrderIndependent
  BY DEF Inv
<1>3. /\ \A p \in Procs : locker' = p <=> pc'[p] = "write"
      /\ \A i \in Handlers : pc'[i] = "write" => seen'[i] = scores'
  BY <1>1, <1>2, ResetLocals, ProcsAssumption DEF TypeOK, Procs
<1>4. TypeOK'
  BY <1>1, <1>2, <1>3, ResetLocals DEF TypeOK
<1>5. LocalsOK'
  BY <1>1, <1>2, ResetLocals DEF LocalsOK, Procs
<1>6. QED
  BY <1>1, <1>2, <1>4, <1>5, ScoresUntouched DEF Inv

LEMMA RescanReadInv ==
    ASSUME Inv, RescanRead
    PROVE  Inv'
<1> USE DEF Inv
<1>1. /\ \A p \in Procs : locker' = p <=> pc'[p] = "write"
      /\ \A i \in Handlers : pc'[i] = "write" => seen'[i] = scores'
  BY ProcsAssumption DEF TypeOK, RescanRead, Procs
<1>2. TypeOK'
  BY <1>1 DEF TypeOK, RescanRead, dedup, Procs
<1>3. LocalsOK'
  BY ProcsAssumption DEF LocalsOK, TypeOK, RescanRead, Procs
<1>4. OrderIndependent'
  BY ScoresUntouched DEF RescanRead
<1>5. QED
  BY <1>2, <1>3, <1>4

LEMMA RescanWriteInv ==
    ASSUME Inv, RescanWrite
    PROVE  Inv'
<1>1. /\ pc[Sweep] = "write" /\ scores' = Evidence(seenKeys) /\ locker' = Free
      /\ countedAs' = [a \in Articles |-> IF a \in mentioned THEN {seenKeys[a]} ELSE {}]
      /\ seenKeys' = OwnKeys /\ pc' = [pc EXCEPT ![Sweep] = "idle"]
      /\ UNCHANGED <<key, minted, mentioned, deliveries, article, story, seen>>
  BY DEF RescanWrite, Rebuilt, dedup
<1>2. TypeOK /\ LocalsOK
  BY DEF Inv
<1>3. seenKeys \in [Articles -> Keys] /\ mentioned \subseteq Articles
  BY <1>2 DEF TypeOK
<1>4. TypeOK'
  <2>1. scores' \in Scores /\ countedAs' \in [Articles -> SUBSET Keys]
        /\ seenKeys' \in [Articles -> Keys]
    BY <1>1, <1>3, EvidenceIsHighest DEF OwnKeys, Keys
  <2>2. \A p \in Procs \ {Sweep} : pc[p] # "write"
    BY <1>1, <1>2 DEF TypeOK, Procs
  <2>3. /\ \A p \in Procs : locker' = p <=> pc'[p] = "write"
        /\ \A i \in Handlers : pc'[i] = "write" => seen'[i] = scores'
        /\ pc' \in [Procs -> {"idle", "lock", "write"}]
    BY <1>1, <1>2, <2>2, ProcsAssumption DEF TypeOK, Procs
  <2>4. QED
    BY <1>1, <1>2, <2>1, <2>3 DEF TypeOK
<1>5. LocalsOK'
  BY <1>1, <1>2, ProcsAssumption DEF LocalsOK, TypeOK, Procs
<1>6. OrderIndependent'
  <2>1. \A a \in Articles, k \in Keys :
            k \in countedAs'[a] <=> a \in mentioned /\ seenKeys[a] = k
    BY <1>1
  <2>2. \A k \in Keys, a \in Articles :
            k \in countedAs'[a] => Contribution[a] <= scores'[k]
    BY <1>1, <1>3, <2>1, EvidenceIsHighest
  <2>3. \A k \in Keys : scores'[k] # Absent =>
            \E a \in Articles : k \in countedAs'[a] /\ scores'[k] = Contribution[a]
    BY <1>1, <1>3, <2>1, EvidenceIsHighest
  <2>4. QED
    BY <2>2, <2>3 DEF OrderIndependent
<1>7. QED
  BY <1>4, <1>5, <1>6 DEF Inv

(* Every step keeps the invariant.                                         *)
LEMMA NextInv == Inv /\ [Next]_vars => Inv'
<1> SUFFICES ASSUME Inv, [Next]_vars PROVE Inv'
  OBVIOUS
<1>1. ASSUME NEW h \in Handlers, Handle(h) PROVE Inv'
  BY <1>1, LockInv, RefineInv DEF Handle
<1>2. CASE Rescan
  BY <1>2, RescanReadInv, RescanWriteInv DEF Rescan
<1>3. CASE UNCHANGED vars
  BY <1>3 DEF vars, dedup, locals, Inv, TypeOK, LocalsOK, OrderIndependent
<1>4. QED
  BY <1>1, <1>2, <1>3, GatherInv, MentionInv, ContextInv, CrashInv DEF Next

LEMMA InvHolds == Spec => []Inv
<1>1. QED
  BY InitInv, NextInv, PTL DEF Spec

-----------------------------------------------------------------------------
(* Every variable keeps its type, only the lock's holder is about to       *)
(* write, and what it read is what the node holds.                         *)
THEOREM TypeCorrect == Spec => []TypeOK
<1>1. Inv => TypeOK
  BY DEF Inv
<1>2. QED
  BY <1>1, InvHolds, PTL

(* However announcements are delayed, repeated, reordered and retried, and *)
(* whichever invocations race, a story's score is the highest contribution *)
(* counted under it.                                                       *)
THEOREM ScoresAreMaxima == Spec => []OrderIndependent
<1>1. Inv => OrderIndependent
  BY DEF Inv
<1>2. QED
  BY <1>1, InvHolds, PTL

(* No step but the sweep's rebuild lowers a score or drops a story.        *)
THEOREM RefinementNeverLowers == Spec => OnlyTheSweepLowers
<1>1. ASSUME Inv, Next,
             NEW k \in Keys, scores'[k] < scores[k]
      PROVE  pc[Sweep] = "write" /\ pc'[Sweep] = "idle"
  <2>1. scores[k] \in Int
    BY <1>1 DEF Inv, TypeOK, Scores, Absent
  <2>2. scores' # scores
    BY <1>1, <2>1
  <2>3. ASSUME NEW h \in Handlers, Refine(h) PROVE FALSE
    <3>1. pc[h] = "write" /\ scores' = Refined(h)
      BY <2>3 DEF Refine
    <3>2. CASE k = story[h]
      <4>1. scores[k] <= scores'[k] /\ scores'[k] \in Int
        BY <1>1, <3>1, <3>2, RefinedScores DEF Scores, Absent
      <4>2. QED
        BY <1>1, <2>1, <4>1
    <3>3. CASE k # story[h]
      BY <1>1, <2>1, <3>1, <3>3, RefinedScores
    <3>4. QED
      BY <3>2, <3>3
  <2>4. RescanWrite
    BY <1>1, <2>2, <2>3
    DEF Next, Gather, Mention, Context, Handle, Lock, Crash, Rescan, RescanRead
  <2>5. QED
    BY <1>1, <2>4 DEF RescanWrite, Inv, TypeOK, Procs
<1>2. Inv /\ [Next]_vars =>
          [(\E k \in Keys : scores'[k] < scores[k])
               => pc[Sweep] = "write" /\ pc'[Sweep] = "idle"]_vars
  BY <1>1
<1>3. QED
  BY <1>2, InvHolds, PTL DEF Spec, OnlyTheSweepLowers
=============================================================================
