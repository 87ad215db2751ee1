------------------------ MODULE AssertionEdgeProofs ------------------------
(***************************************************************************)
(* What holds of AssertionEdge for any number of stories, articles,        *)
(* messages, invocations and feeds, any strengths and any decay.           *)
(***************************************************************************)
EXTENDS AssertionEdge, FiniteSetTheorems, WellFoundedInduction, TLAPS

(* An invocation at work has a message; a feed never announces anything.   *)
LocalsOK ==
    /\ \A w \in Workers : pc[w] # "idle" => message[w] \in Messages
    /\ \A f \in Feeds : pc[f] \in {"idle", "open", "write"}

TypeInv == TypeOK /\ LocalsOK

USE ProcsAssumption, BoundsAssumption

-----------------------------------------------------------------------------
(* The arithmetic of confidences stays among the confidences.              *)
LEMMA ConfidenceTypes ==
    ASSUME NEW x \in Confidences, NEW y \in Confidences
    PROVE  Larger(x, y) \in Confidences /\ NoisyOr(x, y) \in Confidences
  BY DEF Larger, NoisyOr, Confidences

(* Noisy-OR does not depend on the order in which stories arrive.          *)
LEMMA NoisyOrCommutes ==
    ASSUME NEW x \in Confidences, NEW y \in Confidences, NEW z \in Confidences
    PROVE  NoisyOr(x, NoisyOr(y, z)) = NoisyOr(y, NoisyOr(x, z))
  BY DEF NoisyOr, Confidences

LEMMA NoEdgeType == NoEdge \in Edge
  BY DEF NoEdge, Edge, Confidences, Days

(* What the sweep writes is a confidence.                                  *)
LEMMA DecayType ==
    ASSUME TypeOK PROVE DecayOf(edge, day) \in Confidences
<1>1. edge.inferred \in Confidences /\ edge.authoritative \in Confidences
      /\ edge.confirmed \in Days /\ day \in Days
  BY DEF TypeOK, Edge
<1>2. Age(edge, day) \in Days
  BY <1>1 DEF Age, Larger, Days
<1>3. Decayed[edge.inferred, Age(edge, day)] \in Confidences
  BY <1>1, <1>2, DecayedAssumption
<1> QED
  BY <1>1, <1>3, ConfidenceTypes DEF DecayOf, Effective

(* The articles a message brings that the edge does not list.              *)
LEMMA NewIdsFinite ==
    ASSUME TypeInv, NEW w \in Workers, pc[w] # "idle"
    PROVE  /\ NewIds(w) \subseteq Articles
           /\ IsFiniteSet(NewIds(w))
           /\ Cardinality(NewIds(w)) \in Nat
<1>1. message[w] \in Messages
  BY DEF TypeInv, LocalsOK
<1>2. message[w].articles \subseteq Articles /\ IsFiniteSet(message[w].articles)
  BY <1>1, MessagesAssumption
<1>3. NewIds(w) \subseteq message[w].articles
  BY DEF NewIds
<1> QED
  BY <1>2, <1>3, FS_Subset, FS_CardinalityType

(* The edge's components as a writer that read it and holds the locks has  *)
(* them.                                                                   *)
LEMMA SeenTypes ==
    ASSUME TypeOK, NEW p \in Procs
    PROVE  /\ seen[p].authoritative \in Confidences /\ seen[p].inferred \in Confidences
           /\ seen[p].stories \subseteq Stories /\ seen[p].ids \subseteq Articles
           /\ seen[p].feeds \subseteq Feeds /\ seen[p].count \in Nat
           /\ stamp[p] \in Days
  BY DEF TypeOK, Edge

(* What a worker writes is an edge, whether the story is new or not.       *)
LEMMA WrittenType ==
    ASSUME TypeInv, NEW w \in Workers, WriteInferred(w)
    PROVE  edge' \in Edge
<1>1. message[w] \in Messages /\ pc[w] # "idle" /\ w \in Procs
  BY DEF TypeInv, LocalsOK, WriteInferred, Procs
<1>2. message[w].story \in Stories /\ message[w].strength \in Confidences
  BY <1>1, MessagesAssumption
<1>3. /\ seen[w].authoritative \in Confidences /\ seen[w].inferred \in Confidences
      /\ seen[w].stories \subseteq Stories /\ seen[w].ids \subseteq Articles
      /\ seen[w].count \in Nat /\ stamp[w] \in Days
  BY <1>1, SeenTypes DEF TypeInv
<1>4. edge \in Edge
  BY DEF TypeInv, TypeOK
<1>5. CASE AlreadySeen(w)
  <2>1. Confirm(w)
    BY <1>5 DEF WriteInferred
  <2>2. PICK c \in Confidences : c = Larger(seen[w].authoritative, seen[w].inferred)
    BY <1>3, ConfidenceTypes
  <2> QED
    BY <2>1, <2>2, <1>3, <1>4 DEF Confirm, Edge
<1>6. CASE ~AlreadySeen(w)
  <2>1. Fold(w)
    BY <1>6 DEF WriteInferred
  <2>2. PICK i \in Confidences : i = NoisyOr(seen[w].inferred, message[w].strength)
    BY <1>2, <1>3, ConfidenceTypes
  <2>3. PICK c \in Confidences : c = Larger(seen[w].authoritative, i)
    BY <1>3, ConfidenceTypes
  <2>4. PICK n \in Nat : n = seen[w].count + Cardinality(NewIds(w))
    BY <1>1, <1>3, NewIdsFinite
  <2>5. PICK S \in SUBSET Stories : S = seen[w].stories \cup {message[w].story}
    BY <1>2, <1>3
  <2>6. PICK ids \in CappedIds(w) :
            edge' = [edge EXCEPT !.exists = TRUE, !.confirmed = stamp[w], !.inferred = i,
                                 !.stories = S, !.ids = ids, !.count = n,
                                 !.confidence = c]
    BY <2>1, <2>2, <2>3, <2>4, <2>5 DEF Fold
  <2>7. ids \subseteq Articles
    BY <1>1, <1>3, NewIdsFinite DEF CappedIds
  <2> QED
    BY <2>6, <2>7, <1>3, <1>4 DEF Edge
<1> QED
  BY <1>5, <1>6

(* What a feed writes is an edge.                                          *)
LEMMA AssertedType ==
    ASSUME TypeOK, NEW f \in Feeds
    PROVE  Asserted(f) \in Edge
<1>1. f \in Procs
  BY DEF Procs
<1>2. Credibility[f] \in Confidences
  BY CredibilityAssumption
<1>3. PICK a \in Confidences : a = Larger(Credibility[f], seen[f].authoritative)
  BY <1>1, <1>2, SeenTypes, ConfidenceTypes
<1>4. PICK c \in Confidences : c = Larger(a, seen[f].inferred)
  BY <1>1, SeenTypes, ConfidenceTypes
<1>5. PICK F \in SUBSET Feeds : F = seen[f].feeds \cup {f}
  BY <1>1, SeenTypes
<1>6. Asserted(f) = [edge EXCEPT !.exists = TRUE, !.confirmed = stamp[f], !.feeds = F,
                                 !.authoritative = a, !.confidence = c]
  BY <1>3, <1>4, <1>5 DEF Asserted
<1>7. edge \in Edge /\ stamp[f] \in Days
  BY <1>1, SeenTypes DEF TypeOK
<1> QED
  BY <1>6, <1>7 DEF Edge

-----------------------------------------------------------------------------
(* Resetting a process's locals leaves them well typed.                    *)
LEMMA ResetTypes ==
    ASSUME TypeInv, NEW p \in Procs, Reset(p)
    PROVE  /\ pc' \in [Procs -> PCs]
           /\ message' \in [Procs -> Messages \cup {Free}]
           /\ stamp' \in [Procs -> Days]
           /\ seen' \in [Procs -> Edge]
           /\ outcome' \in [Procs -> {"none", "created", "updated", "matched"}]
           /\ LocalsOK'
           /\ pc'[p] = "idle"
           /\ \A q \in Procs : q # p => pc'[q] = pc[q]
<1>1. 0 \in Days
  BY DEF Days
<1> QED
  BY <1>1, NoEdgeType DEF TypeInv, TypeOK, LocalsOK, Reset, PCs, Procs

(* Reading the edge under the locks.                                       *)
LEMMA OpenTypes ==
    ASSUME TypeInv, NEW p \in Procs, Open(p) PROVE TypeInv'
<1>1. TypeOK'
  BY DEF TypeInv, TypeOK, Open, PCs
<1>2. LocalsOK'
  BY DEF TypeInv, TypeOK, LocalsOK, Open, Procs
<1> QED
  BY <1>1, <1>2 DEF TypeInv

(* One lemma per operation: every variable keeps its type, and so do the   *)
(* locks.                                                                  *)
LEMMA WriteInferredTypes ==
    ASSUME TypeInv, NEW w \in Workers, WriteInferred(w) PROVE TypeInv'
<1>1. edge' \in Edge
  BY WrittenType
<1>2. w \in Procs /\ pc[w] = "write"
  BY DEF Procs, WriteInferred
<1>3. OutcomeOf(w) \in {"none", "created", "updated", "matched"}
  BY DEF OutcomeOf
<1>4. 0 \in Days
  BY DEF Days
<1>5. \A p \in Procs : locker' = p <=> pc'[p] = "write"
  BY <1>2 DEF TypeInv, TypeOK, WriteInferred
<1>6. TypeOK'
  <2> DEFINE o == OutcomeOf(w)
  <2>1. o \in {"none", "created", "updated", "matched"} /\ outcome' = [outcome EXCEPT ![w] = o]
    BY <1>3 DEF WriteInferred
  <2> HIDE DEF o
  <2> QED
    BY <1>1, <1>2, <1>4, <1>5, <2>1, NoEdgeType DEF TypeInv, TypeOK, WriteInferred, PCs
<1>7. LocalsOK'
  BY <1>2 DEF TypeInv, TypeOK, LocalsOK, WriteInferred, Procs
<1> QED
  BY <1>6, <1>7 DEF TypeInv

LEMMA WriteAuthoritativeTypes ==
    ASSUME TypeInv, NEW f \in Feeds, WriteAuthoritative(f) PROVE TypeInv'
<1>1. f \in Procs /\ Reset(f) /\ pc[f] = "write"
  BY DEF Procs, WriteAuthoritative
<1>2. edge' \in Edge
  BY AssertedType DEF TypeInv, WriteAuthoritative
<1>3. \A p \in Procs : locker' = p <=> pc'[p] = "write"
  BY <1>1, ResetTypes DEF TypeInv, TypeOK, WriteAuthoritative
<1> QED
  BY <1>1, <1>2, <1>3, ResetTypes DEF TypeInv, TypeOK, WriteAuthoritative

LEMMA PublishTypes ==
    ASSUME TypeInv, NEW w \in Workers, Publish(w) PROVE TypeInv'
<1>1. message[w] \in Messages /\ w \in Procs
  BY DEF TypeInv, LocalsOK, Publish, Procs
<1>2. message[w].story \in Stories
  BY <1>1, MessagesAssumption
<1>3. TypeOK'
  BY <1>1, <1>2 DEF TypeInv, TypeOK, Publish, PCs
<1>4. LocalsOK'
  BY <1>1 DEF TypeInv, TypeOK, LocalsOK, Publish, Procs
<1> QED
  BY <1>3, <1>4 DEF TypeInv

LEMMA AcknowledgeTypes ==
    ASSUME TypeInv, NEW w \in Workers, Acknowledge(w) PROVE TypeInv'
<1>1. w \in Procs /\ Reset(w) /\ pc[w] = "done"
  BY DEF Procs, Acknowledge
<1>2. \A p \in Procs : locker' = p <=> pc'[p] = "write"
  BY <1>1, ResetTypes DEF TypeInv, TypeOK, Acknowledge
<1> QED
  BY <1>1, <1>2, ResetTypes DEF TypeInv, TypeOK, Acknowledge

LEMMA CrashTypes ==
    ASSUME TypeInv, NEW p \in Procs, Crash(p) PROVE TypeInv'
<1>1. Reset(p) /\ crashes < MaxCrashes /\ crashes' = crashes + 1
  BY DEF Crash
<1>2. \A q \in Procs : locker' = q <=> pc'[q] = "write"
  <2>1. locker' = IF locker = p THEN Free ELSE locker
    BY DEF Crash
  <2> QED
    BY <1>1, <2>1, ResetTypes DEF TypeInv, TypeOK
<1>3. missed' \subseteq Stories
  <2>1. CASE pc[p] = "publish"
    <3>1. p \in Workers
      BY <2>1 DEF TypeInv, LocalsOK, Procs
    <3>2. message[p] \in Messages
      BY <2>1, <3>1 DEF TypeInv, LocalsOK
    <3>3. message[p].story \in Stories
      BY <3>2, MessagesAssumption
    <3> QED
      BY <2>1, <3>3 DEF Crash, TypeInv, TypeOK
  <2>2. CASE pc[p] # "publish"
    BY <2>2 DEF Crash, TypeInv, TypeOK
  <2> QED
    BY <2>1, <2>2
<1>4. crashes' \in 0..MaxCrashes
  BY <1>1 DEF TypeInv, TypeOK
<1>5. locker' \in Procs \cup {Free}
  BY DEF Crash, TypeInv, TypeOK
<1> QED
  BY <1>1, <1>2, <1>3, <1>4, <1>5, ResetTypes DEF TypeInv, TypeOK, Crash

(* The types and the locals are kept by every step.                        *)
LEMMA TypeStep ==
    ASSUME TypeInv, [Next]_vars PROVE TypeInv'
<1>1. CASE Tick
  BY <1>1 DEF Tick, TypeInv, TypeOK, LocalsOK, locals, Days
<1>2. ASSUME NEW w \in Workers, NEW m \in Messages, Receive(w, m) PROVE TypeInv'
  <2>1. w \in Procs
    BY DEF Procs
  <2>2. TypeOK'
    BY <1>2, <2>1 DEF Receive, TypeInv, TypeOK, PCs
  <2>3. LocalsOK'
    BY <1>2, <2>1 DEF Receive, TypeInv, TypeOK, LocalsOK, Procs
  <2> QED
    BY <2>2, <2>3 DEF TypeInv
<1>3. ASSUME NEW w \in Workers, Work(w) PROVE TypeInv'
  BY <1>3, OpenTypes, WriteInferredTypes, PublishTypes, AcknowledgeTypes DEF Work, Procs
<1>4. ASSUME NEW f \in Feeds, FeedAsserts(f) PROVE TypeInv'
  <2>1. f \in Procs
    BY DEF Procs
  <2>2. TypeOK'
    BY <1>4, <2>1 DEF FeedAsserts, TypeInv, TypeOK, PCs
  <2>3. LocalsOK'
    BY <1>4, <2>1 DEF FeedAsserts, TypeInv, TypeOK, LocalsOK, Procs
  <2> QED
    BY <2>2, <2>3 DEF TypeInv
<1>5. ASSUME NEW f \in Feeds, Feed(f) PROVE TypeInv'
  BY <1>5, OpenTypes, WriteAuthoritativeTypes DEF Feed, Procs
<1>6. ASSUME NEW p \in Procs, Crash(p) PROVE TypeInv'
  BY <1>6, CrashTypes
<1>7. CASE DecayScan
  <2>1. PICK c \in Confidences : sweep' = c
    BY <1>7, DecayType DEF DecayScan, TypeInv
  <2> QED
    BY <1>7, <2>1 DEF DecayScan, TypeInv, TypeOK, LocalsOK, locals
<1>8. CASE DecayWrite
  <2>1. edge' \in Edge
    BY <1>8 DEF DecayWrite, TypeInv, TypeOK, Edge
  <2> QED
    BY <1>8, <2>1 DEF DecayWrite, TypeInv, TypeOK, LocalsOK, locals
<1>9. CASE UNCHANGED vars
  BY <1>9 DEF vars, locals, TypeInv, TypeOK, LocalsOK
<1> QED
  BY <1>1, <1>2, <1>3, <1>4, <1>5, <1>6, <1>7, <1>8, <1>9 DEF Next

(* Types and locks are an invariant.                                       *)
LEMMA TypeInvariant == Spec => []TypeInv
<1>1. Init => TypeInv
  <2> SUFFICES ASSUME Init PROVE TypeInv
    OBVIOUS
  <2>1. 0 \in Days
    BY DEF Days
  <2>2. TypeOK
    BY <2>1, NoEdgeType DEF Init, TypeOK, PCs
  <2> QED
    BY <2>2 DEF Init, LocalsOK, TypeInv, Procs
<1>2. TypeInv /\ [Next]_vars => TypeInv'
  BY TypeStep
<1> QED
  BY <1>1, <1>2, PTL DEF Spec

(* Every variable keeps to its type and the endpoints are locked exactly   *)
(* during a transaction, whatever the interleaving.                        *)
THEOREM TypeCorrect == Spec => []TypeOK
<1>1. TypeInv => TypeOK
  BY DEF TypeInv
<1> QED
  BY <1>1, TypeInvariant, PTL

-----------------------------------------------------------------------------
(* The components the stories of the edge decide.                          *)
Evidence == <<edge.inferred, edge.stories, edge.ids, edge.count>>

(* Under the locks nothing another writer does to the evidence is missed;  *)
(* only the sweep may change the edge, and it writes nothing else than the *)
(* derived confidence.                                                     *)
SeenCurrent ==
    \A p \in Procs : pc[p] = "write" =>
        <<seen[p].inferred, seen[p].stories, seen[p].ids, seen[p].count>> = Evidence

(* A worker that has committed finds its story on the edge.                *)
Folded ==
    \A w \in Workers : pc[w] \in {"publish", "done"} => message[w].story \in edge.stories

(* What writing a story new to the edge does to the evidence.              *)
FoldsIn(w) ==
    /\ WriteInferred(w)
    /\ message[w].story \notin edge.stories
    /\ edge'.stories = edge.stories \cup {message[w].story}
    /\ edge'.inferred = NoisyOr(edge.inferred, message[w].strength)
    /\ edge'.count = edge.count + Cardinality(message[w].articles \ edge.ids)
    /\ \E kept \in SUBSET (message[w].articles \ edge.ids) :
           /\ edge'.ids = edge.ids \cup kept
           /\ Cardinality(kept) =
                  IF Cardinality(edge.ids \cup (message[w].articles \ edge.ids)) <= MaxIds
                  THEN Cardinality(message[w].articles \ edge.ids)
                  ELSE Larger(MaxIds - Cardinality(edge.ids), 0)

(* A worker's write either folds a new story in or leaves the evidence.    *)
LEMMA WriteInferredEffect ==
    ASSUME TypeInv, SeenCurrent, NEW w \in Workers, WriteInferred(w)
    PROVE  /\ message[w].story \in edge'.stories
           /\ Evidence' = Evidence \/ FoldsIn(w)
<1>1. w \in Procs /\ pc[w] = "write"
  BY DEF Procs, WriteInferred
<1>2. /\ seen[w].inferred = edge.inferred /\ seen[w].stories = edge.stories
      /\ seen[w].ids = edge.ids /\ seen[w].count = edge.count
  BY <1>1 DEF SeenCurrent, Evidence
<1>3. edge \in Edge
  BY DEF TypeInv, TypeOK
<1>4. CASE AlreadySeen(w)
  <2>1. message[w].story \in edge.stories
    BY <1>2, <1>4 DEF AlreadySeen
  <2>2. PICK c : edge' = [edge EXCEPT !.exists = TRUE, !.confirmed = stamp[w],
                                      !.confidence = c]
    BY <1>4 DEF WriteInferred, Confirm
  <2> QED
    BY <1>3, <2>1, <2>2 DEF Evidence, Edge
<1>5. CASE ~AlreadySeen(w)
  <2>1. message[w].story \notin edge.stories
    BY <1>2, <1>5 DEF AlreadySeen
  <2>2. NewIds(w) = message[w].articles \ edge.ids
    BY <1>2 DEF NewIds
  <2> DEFINE Result(ids, c) ==
                 [edge EXCEPT !.exists = TRUE, !.confirmed = stamp[w],
                     !.inferred = NoisyOr(seen[w].inferred, message[w].strength),
                     !.stories = seen[w].stories \cup {message[w].story},
                     !.ids = ids,
                     !.count = seen[w].count + Cardinality(NewIds(w)),
                     !.confidence = c]
  <2>3. PICK ids \in CappedIds(w) : \E c : edge' = Result(ids, c)
    BY <1>5 DEF WriteInferred, Fold
  <2>4. PICK c : edge' = Result(ids, c)
    BY <2>3
  <2>5. /\ edge'.inferred = NoisyOr(edge.inferred, message[w].strength)
        /\ edge'.stories = edge.stories \cup {message[w].story}
        /\ edge'.ids = ids
        /\ edge'.count = edge.count + Cardinality(message[w].articles \ edge.ids)
    BY <1>2, <1>3, <2>2, <2>4 DEF Edge
  <2>6. \E kept \in SUBSET (message[w].articles \ edge.ids) :
           /\ edge'.ids = edge.ids \cup kept
           /\ Cardinality(kept) =
                  IF Cardinality(edge.ids \cup (message[w].articles \ edge.ids)) <= MaxIds
                  THEN Cardinality(message[w].articles \ edge.ids)
                  ELSE Larger(MaxIds - Cardinality(edge.ids), 0)
    BY <1>2, <2>2, <2>3, <2>5 DEF CappedIds
  <2>7. FoldsIn(w)
    BY <2>1, <2>5, <2>6 DEF FoldsIn
  <2> QED
    BY <2>5, <2>7
<1> QED
  BY <1>4, <1>5

(* Feeds and the sweep leave the evidence alone.                           *)
LEMMA AssertedEffect ==
    ASSUME TypeInv, NEW f \in Feeds, WriteAuthoritative(f) PROVE Evidence' = Evidence
<1>1. PICK a, c, F : edge' = [edge EXCEPT !.exists = TRUE, !.confirmed = stamp[f],
                                          !.feeds = F, !.authoritative = a,
                                          !.confidence = c]
  BY DEF WriteAuthoritative, Asserted
<1>2. edge \in Edge
  BY DEF TypeInv, TypeOK
<1> QED
  BY <1>1, <1>2 DEF Evidence, Edge

(* Decay touches none of the evidence.                                     *)
LEMMA DecayEffect ==
    ASSUME TypeInv, DecayWrite PROVE Evidence' = Evidence
  BY DEF TypeInv, TypeOK, DecayWrite, Evidence, Edge

-----------------------------------------------------------------------------
(* The evidence of the edge moves only when a new story is folded in.      *)
LEMMA EvidenceChanges ==
    ASSUME TypeInv, SeenCurrent, [Next]_vars
    PROVE  Evidence' = Evidence \/ \E w \in Workers : FoldsIn(w)
<1>1. CASE Tick
  BY <1>1 DEF Tick, Evidence
<1>2. ASSUME NEW w \in Workers, NEW m \in Messages, Receive(w, m) PROVE Evidence' = Evidence
  BY <1>2 DEF Receive, Evidence
<1>3. ASSUME NEW w \in Workers, Work(w) PROVE Evidence' = Evidence \/ FoldsIn(w)
  <2>1. CASE WriteInferred(w)
    BY <2>1, WriteInferredEffect
  <2>2. CASE ~WriteInferred(w)
    BY <1>3, <2>2 DEF Work, Open, Publish, Acknowledge, Evidence
  <2> QED
    BY <2>1, <2>2
<1>4. ASSUME NEW f \in Feeds, FeedAsserts(f) PROVE Evidence' = Evidence
  BY <1>4 DEF FeedAsserts, Evidence
<1>5. ASSUME NEW f \in Feeds, Feed(f) PROVE Evidence' = Evidence
  BY <1>5, AssertedEffect DEF Feed, Open, Evidence
<1>6. ASSUME NEW p \in Procs, Crash(p) PROVE Evidence' = Evidence
  BY <1>6 DEF Crash, Evidence
<1>7. CASE DecayScan \/ DecayWrite
  BY <1>7, DecayEffect DEF DecayScan, Evidence
<1>8. CASE UNCHANGED vars
  BY <1>8 DEF vars, Evidence
<1> QED
  BY <1>1, <1>2, <1>3, <1>4, <1>5, <1>6, <1>7, <1>8 DEF Next

(* A process gets between its read and its commit by reading only, and     *)
(* there nobody else moves it.                                             *)
LEMMA WritingComesFromOpen ==
    ASSUME TypeInv, [Next]_vars, NEW p \in Procs, pc'[p] = "write"
    PROVE  Open(p) \/ (pc[p] = "write" /\ seen'[p] = seen[p])
<1>1. CASE Tick
  BY <1>1 DEF Tick, locals
<1>2. ASSUME NEW w \in Workers, NEW m \in Messages, Receive(w, m)
      PROVE  pc[p] = "write" /\ seen'[p] = seen[p]
  BY <1>2 DEF Receive, TypeInv, TypeOK
<1>3. ASSUME NEW w \in Workers, Work(w)
      PROVE  Open(p) \/ (pc[p] = "write" /\ seen'[p] = seen[p])
  <2>1. CASE Open(w)
    <3>1. CASE w = p
      BY <2>1, <3>1
    <3>2. CASE w # p
      <4>1. pc[p] = "write" /\ seen'[p] = seen[p]
        BY <2>1, <3>2 DEF Open, TypeInv, TypeOK
      <4> QED
        BY <4>1
    <3> QED
      BY <3>1, <3>2
  <2>2. CASE WriteInferred(w)
    BY <2>2 DEF WriteInferred, TypeInv, TypeOK
  <2>3. CASE Publish(w)
    BY <2>3 DEF Publish, TypeInv, TypeOK
  <2>4. CASE Acknowledge(w)
    BY <2>4 DEF Acknowledge, Reset, TypeInv, TypeOK
  <2> QED
    BY <1>3, <2>1, <2>2, <2>3, <2>4 DEF Work
<1>4. ASSUME NEW f \in Feeds, FeedAsserts(f)
      PROVE  pc[p] = "write" /\ seen'[p] = seen[p]
  BY <1>4 DEF FeedAsserts, TypeInv, TypeOK
<1>5. ASSUME NEW f \in Feeds, Feed(f)
      PROVE  Open(p) \/ (pc[p] = "write" /\ seen'[p] = seen[p])
  <2>1. CASE Open(f)
    <3>1. CASE f = p
      BY <2>1, <3>1
    <3>2. CASE f # p
      <4>1. pc[p] = "write" /\ seen'[p] = seen[p]
        BY <2>1, <3>2 DEF Open, TypeInv, TypeOK
      <4> QED
        BY <4>1
    <3> QED
      BY <3>1, <3>2
  <2>2. CASE WriteAuthoritative(f)
    BY <2>2 DEF WriteAuthoritative, Reset, TypeInv, TypeOK
  <2> QED
    BY <1>5, <2>1, <2>2 DEF Feed
<1>6. ASSUME NEW q \in Procs, Crash(q)
      PROVE  pc[p] = "write" /\ seen'[p] = seen[p]
  BY <1>6 DEF Crash, Reset, TypeInv, TypeOK
<1>7. CASE DecayScan \/ DecayWrite
  BY <1>7 DEF DecayScan, DecayWrite, locals
<1>8. CASE UNCHANGED vars
  BY <1>8 DEF vars, locals
<1> QED
  BY <1>1, <1>2, <1>3, <1>4, <1>5, <1>6, <1>7, <1>8 DEF Next

(* The locks keep what a writer has read current until it commits.         *)
LEMMA SeenStaysCurrent ==
    ASSUME TypeInv, SeenCurrent, [Next]_vars PROVE SeenCurrent'
<1> SUFFICES ASSUME NEW p \in Procs, pc'[p] = "write"
             PROVE  <<seen'[p].inferred, seen'[p].stories, seen'[p].ids, seen'[p].count>>
                        = Evidence'
  BY DEF SeenCurrent
<1>1. CASE Open(p)
  <2>1. seen'[p] = edge /\ edge' = edge
    BY <1>1 DEF Open, TypeInv, TypeOK
  <2> QED
    BY <2>1 DEF Evidence
<1>2. CASE pc[p] = "write" /\ seen'[p] = seen[p]
  <2>1. ASSUME NEW w \in Workers, FoldsIn(w) PROVE FALSE
    <3>1. w \in Procs /\ pc[w] = "write" /\ pc'[w] = "publish"
      BY <2>1 DEF FoldsIn, WriteInferred, TypeInv, TypeOK, Procs
    <3>2. w = p
      BY <1>2, <3>1 DEF TypeInv, TypeOK
    <3> QED
      BY <3>1, <3>2
  <2>2. Evidence' = Evidence
    BY <2>1, EvidenceChanges
  <2> QED
    BY <1>2, <2>2 DEF SeenCurrent
<1> QED
  BY <1>1, <1>2, WritingComesFromOpen

(* Stories stay on the edge.                                               *)
LEMMA StoriesGrow ==
    ASSUME TypeInv, SeenCurrent, [Next]_vars PROVE edge.stories \subseteq edge'.stories
  BY EvidenceChanges DEF Evidence, FoldsIn

(* A worker that is done with its write keeps its message until it has     *)
(* acknowledged it.                                                        *)
LEMMA CommittedComesFromWrite ==
    ASSUME TypeInv, [Next]_vars, NEW w \in Workers, pc'[w] \in {"publish", "done"}
    PROVE  /\ message'[w] = message[w]
           /\ WriteInferred(w) \/ pc[w] \in {"publish", "done"}
<1> w \in Procs
  BY DEF Procs
<1>1. CASE Tick
  BY <1>1 DEF Tick, locals
<1>2. ASSUME NEW v \in Workers, NEW m \in Messages, Receive(v, m)
      PROVE  message'[w] = message[w] /\ pc[w] \in {"publish", "done"}
  BY <1>2 DEF Receive, TypeInv, TypeOK
<1>3. ASSUME NEW v \in Workers, Work(v)
      PROVE  /\ message'[w] = message[w]
             /\ WriteInferred(w) \/ pc[w] \in {"publish", "done"}
  <2>1. CASE Open(v)
    BY <2>1 DEF Open, TypeInv, TypeOK
  <2>2. CASE WriteInferred(v)
    BY <2>2 DEF WriteInferred, TypeInv, TypeOK
  <2>3. CASE Publish(v)
    BY <2>3 DEF Publish, TypeInv, TypeOK
  <2>4. CASE Acknowledge(v)
    BY <2>4 DEF Acknowledge, Reset, TypeInv, TypeOK
  <2> QED
    BY <1>3, <2>1, <2>2, <2>3, <2>4 DEF Work
<1>4. ASSUME NEW f \in Feeds, FeedAsserts(f)
      PROVE  message'[w] = message[w] /\ pc[w] \in {"publish", "done"}
  BY <1>4 DEF FeedAsserts, TypeInv, TypeOK
<1>5. ASSUME NEW f \in Feeds, Feed(f)
      PROVE  message'[w] = message[w] /\ pc[w] \in {"publish", "done"}
  BY <1>5 DEF Feed, Open, WriteAuthoritative, Reset, TypeInv, TypeOK, Procs
<1>6. ASSUME NEW q \in Procs, Crash(q)
      PROVE  message'[w] = message[w] /\ pc[w] \in {"publish", "done"}
  BY <1>6 DEF Crash, Reset, TypeInv, TypeOK
<1>7. CASE DecayScan \/ DecayWrite
  BY <1>7 DEF DecayScan, DecayWrite, locals
<1>8. CASE UNCHANGED vars
  BY <1>8 DEF vars, locals
<1> QED
  BY <1>1, <1>2, <1>3, <1>4, <1>5, <1>6, <1>7, <1>8 DEF Next

(* A worker past its commit finds its story in the edge's list.            *)
LEMMA FoldedStays ==
    ASSUME TypeInv, SeenCurrent, Folded, [Next]_vars PROVE Folded'
<1> SUFFICES ASSUME NEW w \in Workers, pc'[w] \in {"publish", "done"}
             PROVE  message'[w].story \in edge'.stories
  BY DEF Folded
<1>1. message'[w] = message[w]
  BY CommittedComesFromWrite
<1>2. CASE WriteInferred(w)
  BY <1>1, <1>2, WriteInferredEffect
<1>3. CASE pc[w] \in {"publish", "done"}
  BY <1>1, <1>3, StoriesGrow DEF Folded
<1> QED
  BY <1>2, <1>3, CommittedComesFromWrite

-----------------------------------------------------------------------------
(* supporting_article_count: the ids added are new ones, all of them when  *)
(* they fit, and otherwise as many as fill the list to its cap.            *)
CountInv ==
    /\ IsFiniteSet(edge.ids)
    /\ CountExactBelowCap

(* Two disjoint finite sets have as many elements together as apart.       *)
LEMMA DisjointUnion ==
    ASSUME NEW S, NEW T, IsFiniteSet(S), IsFiniteSet(T), S \cap T = {}
    PROVE  /\ IsFiniteSet(S \cup T)
           /\ Cardinality(S \cup T) = Cardinality(S) + Cardinality(T)
<1>1. /\ IsFiniteSet(S \cup T)
      /\ Cardinality(S \cup T) =
             Cardinality(S) + Cardinality(T) - Cardinality(S \cap T)
  BY FS_Union
<1>2. Cardinality(S \cap T) = 0
  BY FS_EmptySet
<1>3. Cardinality(S) \in Nat /\ Cardinality(T) \in Nat
  BY FS_CardinalityType
<1> QED
  BY <1>1, <1>2, <1>3

(* Every step keeps the count exact below the cap and never behind the     *)
(* list.                                                                   *)
LEMMA CountStays ==
    ASSUME TypeInv, SeenCurrent, CountInv, [Next]_vars PROVE CountInv'
<1>1. CASE Evidence' = Evidence
  BY <1>1 DEF Evidence, CountInv, CountExactBelowCap
<1>2. ASSUME NEW w \in Workers, FoldsIn(w) PROVE CountInv'
  <2>1. message[w] \in Messages
    BY <1>2 DEF FoldsIn, WriteInferred, TypeInv, LocalsOK
  <2> DEFINE new == message[w].articles \ edge.ids
             n == Cardinality(edge.ids)
  <2>2. IsFiniteSet(new) /\ Cardinality(new) \in Nat
    BY <2>1, MessagesAssumption, FS_Subset, FS_CardinalityType
  <2>3. n \in Nat /\ n <= MaxIds /\ edge.count >= n /\ (n < MaxIds => edge.count = n)
    BY FS_CardinalityType DEF CountInv, CountExactBelowCap
  <2>4. edge.count \in Nat /\ edge'.count = edge.count + Cardinality(new)
    BY <1>2 DEF FoldsIn, TypeInv, TypeOK, Edge
  <2>5. Cardinality(edge.ids \cup new) = n + Cardinality(new)
    <3>1. edge.ids \cap new = {}
      OBVIOUS
    <3>2. IsFiniteSet(edge.ids)
      BY DEF CountInv
    <3> HIDE DEF new
    <3> QED
      BY <2>2, <3>1, <3>2, DisjointUnion
  <2>6. PICK kept \in SUBSET new :
            /\ edge'.ids = edge.ids \cup kept
            /\ Cardinality(kept) = IF Cardinality(edge.ids \cup new) <= MaxIds
                                   THEN Cardinality(new)
                                   ELSE Larger(MaxIds - n, 0)
    BY <1>2 DEF FoldsIn
  <2>7. IsFiniteSet(kept) /\ Cardinality(kept) \in Nat
    BY <2>2, FS_Subset, FS_CardinalityType
  <2>8. IsFiniteSet(edge'.ids) /\ Cardinality(edge'.ids) = n + Cardinality(kept)
    <3>1. edge.ids \cap kept = {}
      OBVIOUS
    <3>2. IsFiniteSet(edge.ids)
      BY DEF CountInv
    <3> HIDE DEF new
    <3> QED
      BY <2>6, <2>7, <3>1, <3>2, DisjointUnion
  <2> HIDE DEF new, n
  <2>9. CASE n + Cardinality(new) <= MaxIds
    BY <2>2, <2>3, <2>4, <2>5, <2>6, <2>8, <2>9 DEF CountInv, CountExactBelowCap
  <2>10. CASE n + Cardinality(new) > MaxIds
    <3>1. Cardinality(kept) = MaxIds - n
      BY <2>2, <2>3, <2>5, <2>6, <2>10 DEF Larger
    <3>2. Cardinality(edge'.ids) = MaxIds
      BY <2>3, <2>8, <3>1
    <3> QED
      BY <2>2, <2>3, <2>4, <2>8, <2>10, <3>2 DEF CountInv, CountExactBelowCap
  <2> QED
    BY <2>2, <2>3, <2>9, <2>10
<1> QED
  BY <1>1, <1>2, EvidenceChanges

-----------------------------------------------------------------------------
(* A worker announces what it has committed unless a failure intervenes.   *)
LEMMA PublishingLasts ==
    ASSUME TypeInv, [Next]_vars, NEW w \in Workers, pc[w] = "publish"
    PROVE  \/ (pc'[w] = "publish" /\ message'[w] = message[w] /\ outcome'[w] = outcome[w])
           \/ outcome[w] # "matched" => message[w].story \in spiked' \cup missed'
<1> DEFINE Stays == pc'[w] = "publish" /\ message'[w] = message[w] /\ outcome'[w] = outcome[w]
<1> w \in Procs
  BY DEF Procs
<1>1. CASE Tick
  BY <1>1 DEF Tick, locals
<1>2. ASSUME NEW v \in Workers, NEW m \in Messages, Receive(v, m) PROVE Stays
  BY <1>2 DEF Receive, TypeInv, TypeOK
<1>3. ASSUME NEW v \in Workers, Work(v)
      PROVE  Stays \/ (outcome[w] # "matched" => message[w].story \in spiked')
  <2>1. CASE Open(v)
    BY <2>1 DEF Open, TypeInv, TypeOK
  <2>2. CASE WriteInferred(v)
    BY <2>2 DEF WriteInferred, TypeInv, TypeOK
  <2>3. CASE Publish(v)
    BY <2>3 DEF Publish, TypeInv, TypeOK
  <2>4. CASE Acknowledge(v)
    BY <2>4 DEF Acknowledge, Reset, TypeInv, TypeOK
  <2> QED
    BY <1>3, <2>1, <2>2, <2>3, <2>4 DEF Work
<1>4. ASSUME NEW f \in Feeds, FeedAsserts(f) PROVE Stays
  BY <1>4 DEF FeedAsserts, TypeInv, TypeOK
<1>5. ASSUME NEW f \in Feeds, Feed(f) PROVE Stays
  BY <1>5 DEF Feed, Open, WriteAuthoritative, Reset, TypeInv, TypeOK, Procs
<1>6. ASSUME NEW q \in Procs, Crash(q) PROVE Stays \/ message[w].story \in missed'
  BY <1>6 DEF Crash, Reset, TypeInv, TypeOK
<1>7. CASE DecayScan \/ DecayWrite
  BY <1>7 DEF DecayScan, DecayWrite, locals
<1>8. CASE UNCHANGED vars
  BY <1>8 DEF vars, locals
<1> QED
  BY <1>1, <1>2, <1>3, <1>4, <1>5, <1>6, <1>7, <1>8 DEF Next

(* A story that is on the edge and was neither announced nor lost by a     *)
(* failure is being announced as news.                                     *)
LEMMA SpikeStays ==
    ASSUME TypeInv, SeenCurrent, NewStoriesSpike, [Next]_vars PROVE NewStoriesSpike'
<1> SUFFICES ASSUME NEW s \in edge'.stories, s \notin spiked', s \notin missed'
             PROVE  \E w \in Workers : /\ pc'[w] = "publish"
                                       /\ message'[w].story = s
                                       /\ outcome'[w] # "matched"
  BY DEF NewStoriesSpike
<1>1. CASE s \notin edge.stories
  <2>1. PICK w \in Workers : FoldsIn(w)
    BY <1>1, EvidenceChanges DEF Evidence
  <2>2. w \in Procs /\ WriteInferred(w) /\ s = message[w].story
    BY <1>1, <2>1 DEF FoldsIn, Procs
  <2>3. message[w].story \notin seen[w].stories
    BY <1>1, <2>2 DEF SeenCurrent, Evidence, WriteInferred
  <2>4. OutcomeOf(w) # "matched"
    BY <2>3 DEF OutcomeOf, AlreadySeen
  <2>5. pc'[w] = "publish" /\ message'[w] = message[w] /\ outcome'[w] = OutcomeOf(w)
    BY <2>2 DEF WriteInferred, TypeInv, TypeOK
  <2> QED
    BY <2>2, <2>4, <2>5
<1>2. CASE s \in edge.stories
  <2>1. spiked \subseteq spiked' /\ missed \subseteq missed'
    BY DEF Next, Work, Feed, Tick, Receive, Open, WriteInferred, Publish, Acknowledge,
           FeedAsserts, WriteAuthoritative, Crash, DecayScan, DecayWrite, vars
  <2>2. PICK w \in Workers : /\ pc[w] = "publish"
                             /\ message[w].story = s
                             /\ outcome[w] # "matched"
    BY <1>2, <2>1 DEF NewStoriesSpike
  <2>3. pc'[w] = "publish" /\ message'[w] = message[w] /\ outcome'[w] = outcome[w]
    BY <2>2, PublishingLasts
  <2> QED
    BY <2>2, <2>3
<1> QED
  BY <1>1, <1>2

-----------------------------------------------------------------------------
(* total gives, for every part of S, the noisy-OR of its members' f.       *)
Totals(total, f, S) ==
    /\ total \in [SUBSET S -> Confidences]
    /\ total[{}] = 0
    /\ \A T \in SUBSET S, s \in S :
           s \in T => total[T] = NoisyOr(f[s], total[T \ {s}])

(* The fold that StoriesCountOnce states is the total: the parts of a      *)
(* finite set on which the two differ have no smallest one.                *)
LEMMA FoldIsTotal ==
    ASSUME NEW S, IsFiniteSet(S), NEW f, NEW total, Totals(total, f, S)
    PROVE  FoldSet(LAMBDA s, n : NoisyOr(f[s], n), 0, S) = total[S]
<1> DEFINE Step(h) == [T \in SUBSET S |->
                        IF T = {} THEN 0
                        ELSE NoisyOr(f[CHOOSE s \in T : TRUE],
                                     h[T \ {CHOOSE s \in T : TRUE}])]
           g == CHOOSE h : h = Step(h)
<1>1. FoldSet(LAMBDA s, n : NoisyOr(f[s], n), 0, S) = g[S]
  BY DEF FoldSet, MapThenFoldSet
<1>2. total = Step(total)
  BY DEF Totals
<1>3. g = Step(g)
  <2> HIDE DEF Step
  <2> QED BY <1>2
<1>4. g[{}] = 0
  <2>1. {} \in SUBSET S
    OBVIOUS
  <2>2. Step(g)[{}] = 0
    BY <2>1
  <2> HIDE DEF g, Step
  <2> QED BY <1>3, <2>2
<1>5. ASSUME NEW T \in SUBSET S, T # {}
      PROVE  \E s \in T : g[T] = NoisyOr(f[s], g[T \ {s}])
                          /\ total[T] = NoisyOr(f[s], total[T \ {s}])
  <2> DEFINE s == CHOOSE s \in T : TRUE
  <2>1. s \in T
    BY <1>5
  <2>2. Step(g)[T] = NoisyOr(f[s], g[T \ {s}])
    BY <1>5
  <2> HIDE DEF g, Step, s
  <2> QED BY <1>3, <2>1, <2>2 DEF Totals
<1> HIDE DEF g
<1> DEFINE Bad == {T \in SUBSET S : g[T] # total[T]}
           Sizes == {Cardinality(T) : T \in Bad}
           Less == OpToRel(<, Nat)
<1>6. SUFFICES ASSUME Bad # {} PROVE FALSE
  BY <1>1
<1>7. \A T \in SUBSET S : IsFiniteSet(T) /\ Cardinality(T) \in Nat
  BY FS_Subset, FS_CardinalityType
<1>8. Sizes \subseteq Nat /\ Sizes # {}
  BY <1>6, <1>7
<1>9. \A x, y \in Nat : x < y => <<x, y>> \in Less
  BY DEF OpToRel
<1>10. IsWellFoundedOn(Less, Nat)
  BY NatLessThanWellFounded
<1>11. PICK n \in Sizes : \A m \in Sizes : ~(<<m, n>> \in Less)
  <2> HIDE DEF Sizes, Less
  <2> QED BY <1>8, <1>10, WFMin
<1>12. PICK T \in Bad : n = Cardinality(T)
  BY <1>11
<1>13. T # {}
  BY <1>12, <1>4 DEF Totals
<1>14. PICK s \in T : /\ g[T] = NoisyOr(f[s], g[T \ {s}])
                     /\ total[T] = NoisyOr(f[s], total[T \ {s}])
  BY <1>5, <1>12, <1>13
<1>15. T \ {s} \in Bad
  BY <1>12, <1>14
<1>16. Cardinality(T \ {s}) = Cardinality(T) - 1
  BY <1>7, <1>12, <1>14, FS_RemoveElement
<1>17. Cardinality(T \ {s}) \in Nat /\ Cardinality(T) \in Nat
  BY <1>7, <1>12
<1>18. <<Cardinality(T \ {s}), n>> \in Less
  <2> HIDE DEF Less
  <2> QED BY <1>9, <1>12, <1>16, <1>17
<1>19. Cardinality(T \ {s}) \in Sizes
  BY <1>15
<1> QED
  <2> HIDE DEF Less, Sizes
  <2> QED BY <1>11, <1>18, <1>19

Extended(f, S, s, x) == [t \in S \cup {s} |-> IF t = s THEN x ELSE f[t]]

(* One more story extends the total, wherever the fold would put it.       *)
LEMMA TotalsExtend ==
    ASSUME NEW S, NEW f, NEW total, Totals(total, f, S), f \in [S -> Confidences],
           NEW s, s \notin S, NEW x \in Confidences
    PROVE  \E bigger : /\ Totals(bigger, Extended(f, S, s, x), S \cup {s})
                       /\ bigger[S \cup {s}] = NoisyOr(x, total[S])
<1> DEFINE R == S \cup {s}
           g == Extended(f, S, s, x)
           bigger == [T \in SUBSET R |->
                         IF s \in T THEN NoisyOr(x, total[T \ {s}]) ELSE total[T]]
<1>1. \A T \in SUBSET S : total[T] \in Confidences
  BY DEF Totals
<1>2. \A T \in SUBSET R : T \ {s} \in SUBSET S /\ (s \notin T => T \in SUBSET S)
  OBVIOUS
<1>3. bigger \in [SUBSET R -> Confidences]
  <2> SUFFICES ASSUME NEW T \in SUBSET R
               PROVE  (IF s \in T THEN NoisyOr(x, total[T \ {s}]) ELSE total[T])
                          \in Confidences
    OBVIOUS
  <2>1. T \ {s} \in SUBSET S /\ (s \notin T => T \in SUBSET S)
    BY <1>2
  <2> QED
    BY <1>1, <2>1, ConfidenceTypes
<1>4. bigger[{}] = 0
  BY DEF Totals
<1>5. ASSUME NEW T \in SUBSET R, NEW t \in R, t \in T
      PROVE  bigger[T] = NoisyOr(g[t], bigger[T \ {t}])
  <2>1. CASE t = s
    <3>1. bigger[T] = NoisyOr(x, total[T \ {s}]) /\ g[t] = x
      BY <1>5, <2>1 DEF Extended
    <3>2. bigger[T \ {t}] = total[T \ {s}]
      BY <1>5, <2>1
    <3> QED
      BY <3>1, <3>2
  <2>2. CASE t # s /\ s \notin T
    <3>1. T \in SUBSET S /\ t \in S
      BY <1>5, <2>2
    <3>2. bigger[T] = total[T] /\ g[t] = f[t] /\ bigger[T \ {t}] = total[T \ {t}]
      BY <1>5, <2>2 DEF Extended
    <3>3. total[T] = NoisyOr(f[t], total[T \ {t}])
      BY <1>5, <3>1 DEF Totals
    <3> QED
      BY <3>2, <3>3
  <2>3. CASE t # s /\ s \in T
    <3> DEFINE U == T \ {s}
               V == U \ {t}
    <3>1. U \in SUBSET S /\ V \in SUBSET S /\ t \in S /\ t \in U /\ (T \ {t}) \ {s} = V
      BY <1>5, <2>3
    <3>2. bigger[T] = NoisyOr(x, total[U]) /\ g[t] = f[t]
      BY <1>5, <2>3 DEF Extended
    <3>3. bigger[T \ {t}] = NoisyOr(x, total[V])
      BY <1>5, <2>3, <3>1
    <3>4. total[U] = NoisyOr(f[t], total[V])
      BY <3>1 DEF Totals
    <3>5. f[t] \in Confidences /\ total[V] \in Confidences
      BY <1>1, <3>1
    <3> HIDE DEF U, V, bigger, g
    <3> QED
      BY <3>2, <3>3, <3>4, <3>5, NoisyOrCommutes
  <2> QED
    BY <2>1, <2>2, <2>3
<1>6. bigger[R] = NoisyOr(x, total[S])
  <2>1. R \ {s} = S
    OBVIOUS
  <2>2. R \in SUBSET R /\ s \in R
    OBVIOUS
  <2> QED
    BY <2>1, <2>2
<1> HIDE DEF bigger
<1>7. Totals(bigger, g, R)
  BY <1>3, <1>4, <1>5 DEF Totals
<1> QED
  BY <1>6, <1>7

-----------------------------------------------------------------------------
(* The inferred confidence is a total of one strength for each story.      *)
Counted ==
    /\ IsFiniteSet(edge.stories)
    /\ \E f, total :
           /\ f \in [edge.stories -> Confidences]
           /\ \A s \in edge.stories : f[s] \in StrengthsOf(s)
           /\ Totals(total, f, edge.stories)
           /\ edge.inferred = total[edge.stories]

(* A story folded in adds the strength of its message to the total.        *)
LEMMA CountedStays ==
    ASSUME TypeInv, SeenCurrent, Counted, [Next]_vars PROVE Counted'
<1>1. CASE Evidence' = Evidence
  <2>1. edge'.stories = edge.stories /\ edge'.inferred = edge.inferred
    BY <1>1 DEF Evidence
  <2>2. IsFiniteSet(edge'.stories)
    BY <2>1 DEF Counted
  <2>3. \E f, total :
            /\ f \in [edge'.stories -> Confidences]
            /\ \A s \in edge'.stories : f[s] \in StrengthsOf(s)
            /\ Totals(total, f, edge'.stories)
            /\ edge'.inferred = total[edge'.stories]
    BY <2>1 DEF Counted
  <2> QED
    BY <2>2, <2>3 DEF Counted, Totals, StrengthsOf
<1>2. ASSUME NEW w \in Workers, FoldsIn(w) PROVE Counted'
  <2>1. message[w] \in Messages
    BY <1>2 DEF FoldsIn, WriteInferred, TypeInv, LocalsOK
  <2>2. PICK s : s = message[w].story
    OBVIOUS
  <2>3. PICK x \in Confidences : x = message[w].strength
    BY <2>1, MessagesAssumption
  <2>4. PICK S : S = edge.stories
    OBVIOUS
  <2>5. s \notin S /\ edge'.stories = S \cup {s} /\ edge'.inferred = NoisyOr(edge.inferred, x)
    BY <1>2, <2>2, <2>3, <2>4 DEF FoldsIn
  <2>6. PICK f, total :
            /\ f \in [S -> Confidences]
            /\ \A t \in S : f[t] \in StrengthsOf(t)
            /\ Totals(total, f, S)
            /\ edge.inferred = total[S]
    BY <2>4 DEF Counted
  <2>7. PICK bigger : /\ Totals(bigger, Extended(f, S, s, x), S \cup {s})
                      /\ bigger[S \cup {s}] = NoisyOr(x, total[S])
    BY <2>5, <2>6, TotalsExtend
  <2> DEFINE g == Extended(f, S, s, x)
  <2>8. g \in [S \cup {s} -> Confidences]
    <3>1. \A t \in S \cup {s} : (IF t = s THEN x ELSE f[t]) \in Confidences
      BY <2>6
    <3> QED
      BY <3>1 DEF Extended
  <2>9. x \in StrengthsOf(s)
    BY <2>1, <2>2, <2>3 DEF StrengthsOf
  <2>10. \A t \in S \cup {s} : g[t] \in StrengthsOf(t)
    BY <2>5, <2>6, <2>9 DEF Extended
  <2> HIDE DEF g
  <2>11. edge'.inferred = bigger[S \cup {s}]
    <3>1. total[S] \in Confidences
      BY <2>6 DEF Totals
    <3>2. NoisyOr(total[S], x) = NoisyOr(x, total[S])
      BY <3>1 DEF NoisyOr, Confidences
    <3> QED
      BY <2>5, <2>6, <2>7, <3>2
  <2>12. IsFiniteSet(S \cup {s})
    BY <2>4, FS_AddElement DEF Counted
  <2>13. edge'.stories = S \cup {s}
    BY <2>5
  <2>14. Totals(bigger, g, S \cup {s})
    BY <2>7 DEF g
  <2>15. \E h, t :
            /\ h \in [edge'.stories -> Confidences]
            /\ \A u \in edge'.stories : h[u] \in StrengthsOf(u)
            /\ Totals(t, h, edge'.stories)
            /\ edge'.inferred = t[edge'.stories]
    BY <2>8, <2>10, <2>11, <2>13, <2>14
  <2> QED
    BY <2>12, <2>13, <2>15 DEF Counted, Totals, StrengthsOf
<1> QED
  BY <1>1, <1>2, EvidenceChanges

(* What a worker acknowledges is on the edge.                              *)
Acknowledged == {m.story : m \in Messages \ queue} \subseteq edge.stories

(* A story whose message is acknowledged is in the edge's list.            *)
LEMMA AcknowledgedStays ==
    ASSUME TypeInv, SeenCurrent, Folded, Acknowledged, [Next]_vars PROVE Acknowledged'
<1>1. edge.stories \subseteq edge'.stories
  BY StoriesGrow
<1>2. CASE queue' = queue
  BY <1>1, <1>2 DEF Acknowledged
<1>3. ASSUME NEW w \in Workers, Acknowledge(w) PROVE Acknowledged'
  <2>1. queue' = queue \ {message[w]} /\ message[w].story \in edge.stories
    BY <1>3 DEF Acknowledge, Folded
  <2> QED
    BY <1>1, <2>1 DEF Acknowledged
<1> QED
  BY <1>2, <1>3 DEF Next, Work, Feed, Tick, Receive, Open, WriteInferred, Publish,
     FeedAsserts, WriteAuthoritative, Crash, DecayScan, DecayWrite, vars

-----------------------------------------------------------------------------
Inv ==
    /\ TypeInv
    /\ SeenCurrent
    /\ Folded
    /\ Acknowledged
    /\ Counted
    /\ CountInv
    /\ NewStoriesSpike

(* Initially nothing is on the edge and nobody is at work.                 *)
LEMMA Invariance == Spec => []Inv
<1>1. Init /\ TypeInv => Inv
  <2> SUFFICES ASSUME Init, TypeInv PROVE Inv
    OBVIOUS
  <2>1. SeenCurrent /\ Folded
    BY DEF Init, SeenCurrent, Folded, Procs
  <2>2. /\ edge.stories = {} /\ edge.ids = {} /\ edge.count = 0 /\ edge.inferred = 0
        /\ queue = Messages
    BY DEF Init, NoEdge
  <2>3. CountInv
    BY <2>2, FS_EmptySet DEF CountInv, CountExactBelowCap
  <2>4. Acknowledged /\ NewStoriesSpike
    BY <2>2 DEF Acknowledged, NewStoriesSpike
  <2>5. Counted
    <3> DEFINE total == [T \in SUBSET {} |-> 0]
               f == [s \in {} |-> 0]
    <3>1. Totals(total, f, {}) /\ total[{}] = 0
      BY DEF Totals, Confidences
    <3>2. f \in [{} -> Confidences]
      OBVIOUS
    <3> HIDE DEF total, f
    <3> QED
      BY <2>2, <3>1, <3>2, FS_EmptySet DEF Counted
  <2> QED
    BY <2>1, <2>3, <2>4, <2>5 DEF Inv
<1>2. Inv /\ [Next]_vars => Inv'
  BY TypeStep, SeenStaysCurrent, FoldedStays, AcknowledgedStays, CountedStays, CountStays,
     SpikeStays DEF Inv
<1> QED
  BY <1>1, <1>2, TypeInvariant, PTL DEF Spec

(* supporting_article_count is exact below the cap of source_article_ids   *)
(* and never behind the list, for any cap, articles and interleaving.      *)
THEOREM SupportIsCounted == Spec => []CountExactBelowCap
<1>1. Inv => CountExactBelowCap
  BY DEF Inv, CountInv
<1> QED
  BY <1>1, Invariance, PTL

(* FR-ES-06: no new story is taken for a match, whoever writes meanwhile.  *)
THEOREM NewsIsAnnounced == Spec => []NewStoriesSpike
<1>1. Inv => NewStoriesSpike
  BY DEF Inv
<1> QED
  BY <1>1, Invariance, PTL

(* The noisy-OR of upsert_inferred_assertion counts every acknowledged     *)
(* story, and each contributing one exactly once: no delivery that is      *)
(* repeated, no transaction that races and no failure changes that.        *)
THEOREM EachStoryCountsOnce == Spec => []StoriesCountOnce
<1>1. Inv => StoriesCountOnce
  <2> SUFFICES ASSUME Inv PROVE StoriesCountOnce
    OBVIOUS
  <2>1. {m.story : m \in Messages \ queue} \subseteq edge.stories
    BY DEF Inv, Acknowledged
  <2>2. PICK f, total :
            /\ f \in [edge.stories -> Confidences]
            /\ \A s \in edge.stories : f[s] \in StrengthsOf(s)
            /\ Totals(total, f, edge.stories)
            /\ edge.inferred = total[edge.stories]
    BY DEF Inv, Counted
  <2>3. f \in [edge.stories -> UNION {StrengthsOf(s) : s \in edge.stories}]
    BY <2>2
  <2>4. PICK S : S = edge.stories
    OBVIOUS
  <2>5. IsFiniteSet(S)
    BY <2>4 DEF Inv, Counted
  <2>6. FoldSet(LAMBDA s, n : NoisyOr(f[s], n), 0, S) = total[S]
    BY <2>2, <2>4, <2>5, FoldIsTotal
  <2>7. edge.inferred = FoldSet(LAMBDA s, n : NoisyOr(f[s], n), 0, edge.stories)
    BY <2>2, <2>4, <2>6
  <2> QED
    BY <2>1, <2>2, <2>3, <2>7 DEF StoriesCountOnce
<1> QED
  BY <1>1, Invariance, PTL

=============================================================================
