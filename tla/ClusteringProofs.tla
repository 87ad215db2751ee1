-------------------------- MODULE ClusteringProofs --------------------------
(***************************************************************************)
(* What holds of Clustering for any number of articles, workers, receives  *)
(* and retries, and any similarity, dates and credibilities.               *)
(***************************************************************************)
EXTENDS Clustering, TLAPS, FiniteSetTheorems

-----------------------------------------------------------------------------
(* What a worker's locals hold at each point of the handler.               *)
LocalsOK ==
    \A w \in Workers :
        /\ pc[w] # "idle" => self[w] \in Articles
        /\ pc[w] = "build" => target[w] \in ClusterIds
        /\ pc[w] = "send" => outgoing[w] \in Message

(* A uuid on an article has been stamped, so a freshly minted one is on    *)
(* none.                                                                   *)
MintedOK == \A a \in Articles : cluster[a] # NoCluster => cluster[a] \in minted

TypeInv == TypeOK /\ LocalsOK

Inv == TypeInv /\ MintedOK /\ WriteLocksClosed /\ OneRepresentative

-----------------------------------------------------------------------------
(* Neither NoMessage nor a message without members is a surprise to the    *)
(* types: the story read back is a Message whenever its id is an id.       *)
LEMMA StoryOfType ==
    ASSUME TypeOK, NEW c \in ClusterIds
    PROVE  StoryOf(c) \in Message
BY DEF TypeOK, StoryOf, Message, Members

(* The id a commit stamps is an id, never null.                            *)
LEMMA FinalIdsType ==
    ASSUME TypeOK, NEW S \in SUBSET Articles
    PROVE  FinalIds(S) \subseteq ClusterIds
<1>1. IdsOf(S) \subseteq ClusterIds
  BY DEF TypeOK, IdsOf
<1>2. OldestIds(S) \subseteq IdsOf(S)
  BY Zenon DEF OldestIds
<1>3. QED
  BY <1>1, <1>2 DEF FinalIds

(* The size a commit stamps is a number: there are finitely many articles. *)
LEMMA SizeType ==
    ASSUME NEW S \in SUBSET Articles
    PROVE  Cardinality(S) \in Nat
BY ArticlesAssumption, FS_Subset, FS_CardinalityType

LEMMA InitTypeInv == Init => TypeInv
BY MaxRetriesAssumption
   DEF Init, TypeInv, TypeOK, LocalsOK, PCs, Message, NoMessage

(* Ending an invocation, whatever the reason, keeps the types.             *)
LEMMA FailTypeInv ==
    ASSUME TypeInv, NEW w \in Workers, Fail(w)
    PROVE  TypeInv'
BY MaxRetriesAssumption
   DEF TypeInv, TypeOK, LocalsOK, PCs, Message, Fail, Forget, Release,
       graph, sqs

(* A commit writes ids and flags of their types.                           *)
LEMMA WriteTypeInv ==
    ASSUME TypeInv, NEW w \in Workers, Write(w)
    PROVE  TypeInv'
<1>1. Locked(w) \in SUBSET Articles
  BY DEF Locked
<1>2. FinalIds(Locked(w)) \subseteq ClusterIds /\ Cardinality(Locked(w)) \in Nat
  BY <1>1, FinalIdsType, SizeType DEF TypeInv
<1>3. PICK c \in FinalIds(Locked(w)), r \in Representatives(Locked(w)) :
          /\ Stamp(Locked(w), c, r)
          /\ target' = [target EXCEPT ![w] = c]
  BY Zenon DEF Write
<1>4. c \in ClusterIds
  BY <1>2
<1>5. /\ cluster' \in [Articles -> ClusterIds \cup {NoCluster}]
      /\ minted' \subseteq ClusterIds
      /\ target' \in [Workers -> ClusterIds \cup {NoCluster}]
      /\ target'[w] \in ClusterIds
      /\ \A v \in Workers \ {w} : target'[v] = target[v]
  BY <1>3, <1>4 DEF TypeInv, TypeOK, Stamp
<1>6. size' \in [Articles -> Nat]
  BY <1>2, <1>3 DEF TypeInv, TypeOK, Stamp
<1>7. representative' \in [Articles -> BOOLEAN]
  BY Zenon, <1>3 DEF TypeInv, TypeOK, Stamp
<1>8. QED
  BY <1>5, <1>6, <1>7
     DEF TypeInv, TypeOK, LocalsOK, PCs, Message, Write, Release, sqs

LEMMA NextTypeInv == TypeInv /\ [Next]_vars => TypeInv'
<1> SUFFICES ASSUME TypeInv, [Next]_vars PROVE TypeInv'
  OBVIOUS
<1>1. ASSUME NEW a \in Articles, Resolve(a) PROVE TypeInv'
  BY <1>1 DEF TypeInv, TypeOK, LocalsOK, Resolve, graph, locals
<1>2. ASSUME NEW a \in Articles, DeadLetter(a) PROVE TypeInv'
  BY <1>2 DEF TypeInv, TypeOK, LocalsOK, DeadLetter, graph, locals
<1>3. ASSUME NEW w \in Workers, NEW a \in Articles, Receive(w, a) PROVE TypeInv'
  BY <1>3 DEF TypeInv, TypeOK, LocalsOK, PCs, Receive, graph
<1>4. ASSUME NEW w \in Workers, Work(w) PROVE TypeInv'
  <2>1. CASE Store(w)
    BY <2>1 DEF TypeInv, TypeOK, LocalsOK, PCs, Store, graph, sqs
  <2>2. CASE Match(w)
    BY <2>2 DEF TypeInv, TypeOK, LocalsOK, PCs, Match, MatchesOf, graph, sqs
  <2>3. ASSUME NEW a \in Articles, Lock(w, a) PROVE TypeInv'
    BY <2>3 DEF TypeInv, TypeOK, LocalsOK, Lock, graph, sqs
  <2>4. CASE Close(w)
    BY <2>4 DEF TypeInv, TypeOK, LocalsOK, PCs, Close, Unlocked,
                MembersTouching, graph, sqs
  <2>5. CASE Write(w)
    BY <2>5, WriteTypeInv
  <2>6. CASE Build(w)
    <3>1. StoryOf(target[w]) \in Message
      BY <2>6, StoryOfType DEF TypeInv, LocalsOK, Build
    <3>2. QED
      BY <2>6, <3>1 DEF TypeInv, TypeOK, LocalsOK, PCs, Build, graph, sqs
  <2>7. CASE Send(w)
    BY <2>7 DEF TypeInv, TypeOK, LocalsOK, PCs, Send, graph, sqs
  <2>8. CASE Acknowledge(w)
    BY <2>8, MaxRetriesAssumption
       DEF TypeInv, TypeOK, LocalsOK, PCs, Acknowledge, Forget, graph
  <2>9. CASE Abort(w)
    BY <2>9, MaxRetriesAssumption
       DEF TypeInv, TypeOK, LocalsOK, PCs, Abort, InDeadlock, Deadlocked,
           Release, graph, sqs
  <2>10. CASE GiveUp(w)
    BY <2>10, FailTypeInv DEF GiveUp
  <2>11. QED
    BY <1>4, <2>1, <2>2, <2>3, <2>4, <2>5, <2>6, <2>7, <2>8, <2>9, <2>10 DEF Work
<1>5. ASSUME NEW w \in Workers, Crash(w) PROVE TypeInv'
  BY <1>5, FailTypeInv DEF Crash
<1>6. CASE UNCHANGED vars
  BY <1>6 DEF TypeInv, TypeOK, LocalsOK, vars, graph, sqs, locals
<1>7. QED
  BY <1>1, <1>2, <1>3, <1>4, <1>5, <1>6 DEF Next

(* Every variable holds a value of its kind, in every behaviour.           *)
THEOREM TypeCorrect == Spec => []TypeOK
<1>1. Spec => []TypeInv
  BY InitTypeInv, NextTypeInv, PTL DEF Spec
<1>2. TypeInv => TypeOK
  BY DEF TypeInv
<1>3. QED
  BY <1>1, <1>2, PTL

-----------------------------------------------------------------------------
(* Locks that are closed make a commit simple: the final cluster is        *)
(* exactly what was locked, every other cluster the locks touched is gone, *)
(* and every cluster they did not touch is untouched.                      *)
LEMMA CommitEffect ==
    ASSUME TypeInv, MintedOK, WriteLocksClosed,
           NEW w \in Workers, pc[w] = "write",
           NEW c \in FinalIds(Locked(w)), NEW r \in Representatives(Locked(w)),
           Stamp(Locked(w), c, r)
    PROVE  /\ c \in ClusterIds
           /\ Members(c)' = Locked(w)
           /\ \A d \in ClusterIds \ {c} :
                 IF d \in IdsOf(Locked(w)) THEN Members(d)' = {}
                                          ELSE Members(d)' = Members(d)
<1> DEFINE S == Locked(w)
<1>1. S \subseteq Articles /\ c \in ClusterIds /\ c # NoCluster
  BY FinalIdsType, NoClusterAssumption DEF TypeInv, Locked
<1>2. \A a \in Articles : cluster'[a] = IF a \in S THEN c ELSE cluster[a]
  BY DEF Stamp
<1>3. \A a \in Articles : cluster[a] \in IdsOf(S) => a \in S
  BY DEF WriteLocksClosed, MembersTouching
<1>4. c \in IdsOf(S) \/ (c \notin minted /\ IdsOf(S) = {})
  BY DEF FinalIds, OldestIds
<1>5. \A a \in Articles : cluster[a] = c => a \in S
  BY <1>1, <1>3, <1>4 DEF MintedOK
<1>6. Members(c)' = S
  BY <1>1, <1>2, <1>5 DEF Members
<1>7. ASSUME NEW d \in ClusterIds \ {c}, d \in IdsOf(S) PROVE Members(d)' = {}
  BY <1>2, <1>3, <1>7 DEF Members
<1>8. ASSUME NEW d \in ClusterIds \ {c}, d \notin IdsOf(S)
      PROVE  Members(d)' = Members(d)
  <2>1. \A a \in S : cluster[a] # d
    BY <1>8, NoClusterAssumption DEF IdsOf
  <2>2. QED
    BY <1>2, <2>1 DEF Members
<1>9. QED
  BY <1>1, <1>6, <1>7, <1>8

(* Every step either leaves the graph's clusters alone or is a commit.     *)
LEMMA OnlyWriteStamps ==
    ASSUME [Next]_vars, ~ \E w \in Workers : Write(w)
    PROVE  UNCHANGED graph
BY DEF Next, Work, Resolve, DeadLetter, Receive, Store, Match, Lock, Close,
       Build, Send, Acknowledge, Abort, GiveUp, Crash, Fail, vars

(* No id is in use before it is minted.                                    *)
LEMMA MintedStep == TypeInv /\ MintedOK /\ [Next]_vars => MintedOK'
<1> SUFFICES ASSUME TypeInv, MintedOK, [Next]_vars PROVE MintedOK'
  OBVIOUS
<1>1. CASE \E w \in Workers : Write(w)
  BY <1>1 DEF Write, Stamp, MintedOK
<1>2. CASE ~ \E w \in Workers : Write(w)
  BY <1>2, OnlyWriteStamps DEF graph, MintedOK
<1>3. QED
  BY <1>1, <1>2

-----------------------------------------------------------------------------
(* Membership, locks and phase of one worker v carry its closure over.     *)
LEMMA ClosureKept ==
    ASSUME NEW v \in Workers,
           cluster' = cluster,
           pc'[v] = "write" => pc[v] = "write" /\ Locked(v)' = Locked(v),
           pc[v] = "write" => MembersTouching(Locked(v)) \subseteq Locked(v)
    PROVE  pc'[v] = "write" => MembersTouching(Locked(v))' \subseteq Locked(v)'
BY DEF MembersTouching, IdsOf

(* A commit cannot open another worker's closure: it stamps articles that  *)
(* worker does not hold with an id none of those it holds carries.         *)
LEMMA ClosureWrite ==
    ASSUME TypeInv, MintedOK, WriteLocksClosed,
           NEW w \in Workers, Write(w),
           NEW v \in Workers, pc'[v] = "write"
    PROVE  MembersTouching(Locked(v))' \subseteq Locked(v)'
<1>1. v # w /\ pc[v] = "write" /\ pc[w] = "write"
  BY DEF Write, TypeInv, TypeOK
<1>2. Locked(v)' = Locked(v) /\ Locked(v) \cap Locked(w) = {}
  BY <1>1, FreeAssumption DEF Write, Release, Locked, TypeInv, TypeOK
<1>3. PICK c \in FinalIds(Locked(w)), r \in Representatives(Locked(w)) :
          Stamp(Locked(w), c, r)
  BY DEF Write
<1>4. /\ c \in ClusterIds
      /\ Members(c)' = Locked(w)
      /\ \A d \in ClusterIds \ {c} :
            IF d \in IdsOf(Locked(w)) THEN Members(d)' = {}
                                     ELSE Members(d)' = Members(d)
  BY <1>1, <1>3, CommitEffect
<1>5. \A a \in Locked(v) : cluster'[a] = cluster[a]
  BY <1>2, <1>3 DEF Stamp, Locked
<1>6. \A d \in IdsOf(Locked(v)) : d \in ClusterIds \ {c}
  <2>1. SUFFICES ASSUME NEW a \in Locked(v), cluster[a] # NoCluster
                 PROVE  cluster[a] \in ClusterIds \ {c}
    BY DEF IdsOf
  <2>2. a \in Articles /\ a \notin Locked(w)
    BY <1>2 DEF Locked
  <2>3. cluster'[a] # c
    BY <1>4, <2>2 DEF Members
  <2>4. QED
    BY <1>5, <2>1, <2>2, <2>3 DEF TypeInv, TypeOK
<1>7. SUFFICES ASSUME NEW a \in Articles, cluster'[a] \in IdsOf(Locked(v))'
               PROVE  a \in Locked(v)
  BY <1>2 DEF MembersTouching
<1>8. cluster'[a] \in IdsOf(Locked(v))
  BY <1>2, <1>5, <1>7 DEF IdsOf
<1>9. DEFINE d == cluster'[a]
<1>10. a \in Members(d)
  BY <1>4, <1>6, <1>8 DEF Members
<1>11. QED
  BY <1>1, <1>8, <1>10 DEF WriteLocksClosed, MembersTouching, Members

(* Every step keeps the locked set of a transaction about to write closed. *)
LEMMA ClosureStep ==
    ASSUME TypeInv, MintedOK, WriteLocksClosed, [Next]_vars
    PROVE  WriteLocksClosed'
<1> SUFFICES ASSUME NEW v \in Workers
             PROVE  pc'[v] = "write" =>
                        MembersTouching(Locked(v))' \subseteq Locked(v)'
  BY DEF WriteLocksClosed
<1> USE DEF WriteLocksClosed
<1>1. CASE \E a \in Articles : Resolve(a) \/ DeadLetter(a)
  BY <1>1, ClosureKept DEF Resolve, DeadLetter, graph, locals, Locked
<1>2. CASE \E w \in Workers, a \in Articles : Receive(w, a)
  BY <1>2, ClosureKept DEF Receive, graph, Locked, TypeInv, TypeOK
<1>3. CASE \E w \in Workers : Store(w) \/ Match(w)
  BY <1>3, ClosureKept DEF Store, Match, graph, Locked, TypeInv, TypeOK
<1>4. CASE \E w \in Workers, a \in Articles : Lock(w, a)
  <2>1. PICK w \in Workers, a \in Articles : Lock(w, a)
    BY <1>4
  <2>2. pc'[v] = "write" => pc[v] = "write" /\ v # w
    BY <2>1 DEF Lock
  <2>3. v # w => Locked(v)' = Locked(v)
    BY <2>1, FreeAssumption DEF Lock, Locked, TypeInv, TypeOK
  <2>4. QED
    BY <2>1, <2>2, <2>3, ClosureKept DEF Lock, graph
<1>5. CASE \E w \in Workers : Close(w)
  <2>1. PICK w \in Workers : Close(w)
    BY <1>5
  <2>2. CASE v = w
    BY <2>1, <2>2
       DEF Close, Unlocked, MembersTouching, IdsOf, Locked, graph, TypeInv, TypeOK
  <2>3. CASE v # w
    BY <2>1, <2>3, ClosureKept DEF Close, Locked, graph, TypeInv, TypeOK
  <2>4. QED
    BY <2>2, <2>3
<1>6. CASE \E w \in Workers : Write(w)
  BY <1>6, ClosureWrite
<1>7. CASE \E w \in Workers : Build(w) \/ Send(w) \/ Acknowledge(w)
  BY <1>7, ClosureKept
     DEF Build, Send, Acknowledge, Forget, graph, Locked, TypeInv, TypeOK
<1>8. CASE \E w \in Workers : Abort(w) \/ GiveUp(w) \/ Crash(w)
  <2>1. PICK w \in Workers : Abort(w) \/ GiveUp(w) \/ Crash(w)
    BY <1>8
  <2>2. Release(w) /\ cluster' = cluster
    BY <2>1 DEF Abort, GiveUp, Crash, Fail, graph
  <2>3. v # w => Locked(v)' = Locked(v)
    BY <2>2, FreeAssumption DEF Release, Locked, TypeInv, TypeOK
  <2>4. pc'[v] = "write" => pc[v] = "write" /\ v # w
    BY <2>1 DEF Abort, InDeadlock, Deadlocked, GiveUp, Crash, Fail, Forget,
                TypeInv, TypeOK
  <2>5. QED
    BY <2>2, <2>3, <2>4, ClosureKept
<1>9. CASE UNCHANGED vars
  BY <1>9, ClosureKept DEF vars, graph, locals, Locked
<1>10. QED
  BY <1>1, <1>2, <1>3, <1>4, <1>5, <1>6, <1>7, <1>8, <1>9 DEF Next, Work

-----------------------------------------------------------------------------
(* A cluster nobody stamps keeps its one representative.                   *)
LEMMA LeadKept ==
    ASSUME OneRepresentative, NEW d \in Live,
           Members(d)' = Members(d),
           \A a \in Members(d) : representative'[a] = representative[a],
           \A a \in Members(d) : size'[a] = size[a]
    PROVE  \E l \in Representatives(Members(d)') :
               \A a \in Members(d)' :
                   /\ representative'[a] <=> a = l
                   /\ size'[a] = IF a = l THEN Cardinality(Members(d)') ELSE 0
<1>1. PICK l \in Representatives(Members(d)) :
          \A a \in Members(d) :
              /\ representative[a] <=> a = l
              /\ size[a] = IF a = l THEN Cardinality(Members(d)) ELSE 0
  BY Zenon DEF OneRepresentative
<1>2. SUFFICES \A a \in Members(d) :
                 /\ representative'[a] <=> a = l
                 /\ size'[a] = IF a = l THEN Cardinality(Members(d)) ELSE 0
  BY Zenon, <1>1
<1>3. ASSUME NEW a \in Members(d) PROVE representative'[a] <=> a = l
  BY Zenon, <1>1
<1>4. ASSUME NEW a \in Members(d)
      PROVE  size'[a] = IF a = l THEN Cardinality(Members(d)) ELSE 0
  BY Zenon, <1>1
<1>5. QED
  BY Zenon, <1>3, <1>4

(* A commit gives the one cluster it makes the one representative it       *)
(* elects, and every cluster it leaves keeps its own.                      *)
LEMMA RepresentativeWrite ==
    ASSUME TypeInv, MintedOK, WriteLocksClosed, OneRepresentative,
           NEW w \in Workers, Write(w)
    PROVE  OneRepresentative'
<1> DEFINE S == Locked(w)
<1>1. PICK c \in FinalIds(S), r \in Representatives(S) : Stamp(S, c, r)
  BY DEF Write
<1>2. /\ c \in ClusterIds
      /\ Members(c)' = S
      /\ \A d \in ClusterIds \ {c} :
            IF d \in IdsOf(S) THEN Members(d)' = {} ELSE Members(d)' = Members(d)
  BY <1>1, CommitEffect DEF Write
<1>3. S \subseteq Articles /\ r \in S /\ r \in Representatives(S)
  BY DEF Locked, Representatives
<1>4. \A d \in Live' : d \in ClusterIds /\ Members(d)' # {}
  <2>1. cluster' \in [Articles -> ClusterIds \cup {NoCluster}]
    BY WriteTypeInv DEF TypeInv, TypeOK
  <2>2. QED
    BY <2>1 DEF Live, Members
<1>5. SUFFICES ASSUME NEW d \in Live'
               PROVE  \E l \in Representatives(Members(d)') :
                        \A a \in Members(d)' :
                          /\ representative'[a] <=> a = l
                          /\ size'[a] = IF a = l THEN Cardinality(Members(d)') ELSE 0
  BY Zenon DEF OneRepresentative, Representatives, Preferred, Earlier
<1>6. CASE d = c
  <2>1. \A a \in S : representative'[a] <=> a = r
    BY Zenon, <1>1, <1>3 DEF Stamp
  <2>2. \A a \in S : size'[a] = IF a = r THEN Cardinality(S) ELSE 0
    BY Zenon, <1>1, <1>3 DEF Stamp
  <2>3. Members(d)' = S
    BY <1>2, <1>6
  <2>4. SUFFICES \A a \in S : /\ representative'[a] <=> a = r
                              /\ size'[a] = IF a = r THEN Cardinality(S) ELSE 0
    BY <1>3, <2>3
  <2>5. QED
    BY Zenon, <2>1, <2>2
<1>7. CASE d # c
  <2>1. d \notin IdsOf(S) /\ Members(d)' = Members(d)
    BY <1>2, <1>4, <1>7
  <2>2. d \in Live
    BY <1>4, <2>1, NoClusterAssumption DEF Live, Members
  <2>3. \A a \in Members(d) : a \in Articles /\ a \notin S
    BY <1>4, <2>1, NoClusterAssumption DEF Members, IdsOf
  <2>5. \A a \in Members(d) : representative'[a] = representative[a]
    BY Zenon, <1>1, <2>3 DEF Stamp
  <2>6. \A a \in Members(d) : size'[a] = size[a]
    BY Zenon, <1>1, <2>3 DEF Stamp
  <2>7. QED
    BY Zenon, <2>1, <2>2, <2>5, <2>6, LeadKept
<1>8. QED
  BY <1>6, <1>7

(* Only a commit elects, and it elects one.                                *)
LEMMA RepresentativeStep ==
    ASSUME TypeInv, MintedOK, WriteLocksClosed, OneRepresentative, [Next]_vars
    PROVE  OneRepresentative'
<1>1. CASE \E w \in Workers : Write(w)
  BY <1>1, RepresentativeWrite
<1>2. CASE ~ \E w \in Workers : Write(w)
  <2>1. /\ cluster' = cluster
        /\ representative' = representative
        /\ size' = size
    BY <1>2, OnlyWriteStamps DEF graph
  <2>2. Live' = Live /\ \A d : Members(d)' = Members(d)
    BY <2>1 DEF Live, Members
  <2>3. \A d \in Live' :
            \E l \in Representatives(Members(d)') :
                \A a \in Members(d)' :
                    /\ representative'[a] <=> a = l
                    /\ size'[a] = IF a = l THEN Cardinality(Members(d)') ELSE 0
    BY Zenon, <2>1, <2>2, LeadKept
  <2>4. QED
    BY Zenon, <2>3 DEF OneRepresentative, Representatives, Preferred, Earlier
<1>3. QED
  BY <1>1, <1>2

(* The inductive invariant of the locks holds.                             *)
LEMMA Invariance == Spec => []Inv
<1>1. Init => Inv
  BY InitTypeInv
     DEF Inv, Init, MintedOK, WriteLocksClosed, OneRepresentative, Live
<1>2. Inv /\ [Next]_vars => Inv'
  BY NextTypeInv, MintedStep, ClosureStep, RepresentativeStep DEF Inv
<1>3. QED
  BY <1>1, <1>2, PTL DEF Spec

(* A worker about to write holds every member of every cluster it touches. *)
THEOREM LocksReachFixedPoint == Spec => []WriteLocksClosed
<1>1. Inv => WriteLocksClosed
  BY DEF Inv
<1>2. QED
  BY <1>1, Invariance, PTL

(* Every cluster has exactly one representative, the elected one, and it   *)
(* alone carries the cluster's size.                                       *)
THEOREM ExactlyOneRepresentative == Spec => []OneRepresentative
<1>1. Inv => OneRepresentative
  BY DEF Inv
<1>2. QED
  BY <1>1, Invariance, PTL

-----------------------------------------------------------------------------
(* A step that clusters, seen from one worker's locks.                     *)
LEMMA WriteByCluster ==
    ASSUME Inv, NEW w \in Workers, Write(w)
    PROVE  \E c \in ClusterIds :
               /\ Members(c)' = Locked(w)
               /\ \A d \in ClusterIds \ {c} :
                     IF d \in IdsOf(Locked(w)) THEN Members(d)' = {}
                                              ELSE Members(d)' = Members(d)
<1>1. PICK c \in FinalIds(Locked(w)), r \in Representatives(Locked(w)) :
          Stamp(Locked(w), c, r)
  BY DEF Write
<1>2. QED
  BY <1>1, CommitEffect DEF Inv, Write

Joined(a, b) == cluster[a] = cluster[b] /\ cluster[a] # NoCluster

(* A commit takes all of a story or none of it, and nothing else moves an  *)
(* article from one story to another.                                      *)
LEMMA JoinedStays ==
    ASSUME Inv, [Next]_vars,
           NEW a \in Articles, NEW b \in Articles, Joined(a, b)
    PROVE  Joined(a, b)'
<1>1. CASE \E w \in Workers : Write(w)
  <2>1. PICK w \in Workers : Write(w)
    BY <1>1
  <2>2. PICK c \in ClusterIds :
            /\ Members(c)' = Locked(w)
            /\ \A d \in ClusterIds \ {c} :
                  IF d \in IdsOf(Locked(w)) THEN Members(d)' = {}
                                           ELSE Members(d)' = Members(d)
    BY <2>1, WriteByCluster
  <2>3. MembersTouching(Locked(w)) \subseteq Locked(w)
    BY <2>1 DEF Inv, WriteLocksClosed, Write
  <2>4. CASE cluster[a] \in IdsOf(Locked(w))
    <3>1. a \in Locked(w) /\ b \in Locked(w)
      BY <2>3, <2>4 DEF MembersTouching, Joined
    <3>2. QED
      BY <2>2, <3>1, NoClusterAssumption DEF Members, Joined
  <2>5. CASE cluster[a] \notin IdsOf(Locked(w))
    <3>1. a \notin Locked(w) /\ b \notin Locked(w)
      BY <2>5 DEF IdsOf, Joined
    <3>2. cluster'[a] = cluster[a] /\ cluster'[b] = cluster[b]
      BY <2>1, <3>1 DEF Write, Stamp
    <3>3. QED
      BY <3>2 DEF Joined
  <2>6. QED
    BY <2>4, <2>5
<1>2. CASE ~ \E w \in Workers : Write(w)
  BY <1>2, OnlyWriteStamps DEF graph, Joined
<1>3. QED
  BY <1>1, <1>2

(* Two articles that share a cluster share one after every step.           *)
THEOREM StoriesNeverSplit == Spec => NeverSplit
<1>1. ASSUME Inv, [Next]_vars,
             NEW a \in Articles, NEW b \in Articles,
             cluster[a] = cluster[b], cluster[a] # NoCluster
      PROVE  cluster'[a] = cluster'[b] /\ cluster'[a] # NoCluster
  BY <1>1, JoinedStays DEF Joined
<1>2. Inv /\ [Next]_vars =>
        [\A a, b \in Articles :
            cluster[a] = cluster[b] /\ cluster[a] # NoCluster
                => cluster'[a] = cluster'[b] /\ cluster'[a] # NoCluster]_vars
  BY <1>1
<1>3. QED
  BY <1>2, Invariance, PTL DEF Spec, NeverSplit

(* While a transaction holds a member of a cluster, no other transaction   *)
(* changes who belongs to it.                                              *)
THEOREM HeldClustersFrozen == Spec => HeldClusterFrozen
<1>1. ASSUME Inv, [Next]_vars,
             NEW w \in Workers, NEW a \in Articles,
             holder[a] = w, holder'[a] = w, cluster[a] # NoCluster
      PROVE  {b \in Articles : cluster'[b] = cluster[a]} = Members(cluster[a])
  <2>1. CASE \E v \in Workers : Write(v)
    <3>1. PICK v \in Workers : Write(v)
      BY <2>1
    <3>2. v # w
      BY <1>1, <3>1, FreeAssumption DEF Write, Release
    <3>3. PICK c \in FinalIds(Locked(v)), r \in Representatives(Locked(v)) :
              Stamp(Locked(v), c, r)
      BY <3>1 DEF Write
    <3>4. a \notin Locked(v)
      BY <1>1, <3>2 DEF Locked
    <3>5. cluster[a] \notin IdsOf(Locked(v))
      BY <1>1, <3>1, <3>4 DEF Inv, WriteLocksClosed, MembersTouching, Write
    <3>6. c # cluster[a]
      BY <1>1, <3>5 DEF FinalIds, OldestIds, Inv, MintedOK
    <3>7. \A b \in Locked(v) : cluster[b] # cluster[a]
      BY <1>1, <3>5 DEF IdsOf
    <3>8. QED
      BY <3>3, <3>6, <3>7 DEF Stamp, Members
  <2>2. CASE ~ \E v \in Workers : Write(v)
    BY <1>1, <2>2, OnlyWriteStamps DEF graph, Members
  <2>3. QED
    BY <2>1, <2>2
<1>2. Inv /\ [Next]_vars =>
        [\A w \in Workers : \A a \in Articles :
            holder[a] = w /\ holder'[a] = w /\ cluster[a] # NoCluster
                => {b \in Articles : cluster'[b] = cluster[a]}
                     = Members(cluster[a])]_vars
  BY <1>1
<1>3. QED
  BY <1>2, Invariance, PTL DEF Spec, HeldClusterFrozen

-----------------------------------------------------------------------------
(* Different clusters are different stories: a live cluster has members.   *)
LEMMA StoriesDistinct ==
    ASSUME NEW c \in Live, NEW d \in Live, StoryAt(c) = StoryAt(d)
    PROVE  c = d
<1>1. PICK a \in Articles : cluster[a] = c
  BY DEF Live
<1>2. Members(c) = Members(d)
  BY DEF StoryAt
<1>3. QED
  BY <1>1, <1>2 DEF Members

(* A cluster nobody stamps is the same story afterwards.                   *)
LEMMA StoryKept ==
    ASSUME NEW d, Members(d)' = Members(d),
           \A a \in Members(d) : representative'[a] = representative[a]
    PROVE  StoryAt(d)' = StoryAt(d)
<1>1. \A r \in Members(d) : representative'[r] <=> representative[r]
  OBVIOUS
<1>2. (CHOOSE r \in Members(d) : representative'[r])
        = (CHOOSE r \in Members(d) : representative[r])
  BY <1>1
<1>3. Leader(d)' = Leader(d)
  BY <1>2 DEF Leader
<1>4. QED
  BY <1>3 DEF StoryAt

(* A commit is one Gather: of the stories whose clusters it locked, and    *)
(* the locked articles that were in none.                                  *)
LEMMA WriteGathers ==
    ASSUME Inv, NEW w \in Workers, Write(w)
    PROVE  Partition!PartitionNext
<1> DEFINE S == Locked(w)
           merged == {StoryAt(d) : d \in IdsOf(S)}
           new == {a \in S : cluster[a] = NoCluster}
<1>1. PICK c \in FinalIds(S), r \in Representatives(S) : Stamp(S, c, r)
  BY DEF Write
<1>2. /\ c \in ClusterIds
      /\ Members(c)' = S
      /\ \A d \in ClusterIds \ {c} :
            IF d \in IdsOf(S) THEN Members(d)' = {} ELSE Members(d)' = Members(d)
  BY <1>1, CommitEffect DEF Write, Inv
<1>3. S \subseteq Articles /\ r \in S /\ r \in Representatives(S)
  BY DEF Locked, Representatives
<1>4. /\ IdsOf(S) \subseteq Live
      /\ Live \subseteq ClusterIds
      /\ \A d \in IdsOf(S) : Members(d) \subseteq S
  BY <1>3 DEF Inv, TypeInv, TypeOK, IdsOf, Live, WriteLocksClosed,
              MembersTouching, Write, Members
<1>5. Live' = (Live \ IdsOf(S)) \cup {c}
  <2>1. \A a \in Articles : cluster'[a] = IF a \in S THEN c ELSE cluster[a]
    BY <1>1 DEF Stamp
  <2>2. \A a \in Articles \ S : cluster[a] \notin IdsOf(S)
    BY DEF Inv, WriteLocksClosed, MembersTouching, Write
  <2>3. c # NoCluster
    BY <1>2, NoClusterAssumption
  <2>4. Live' = {cluster'[a] : a \in Articles} \ {NoCluster}
    BY DEF Live
  <2>5. QED
    BY <1>3, <2>1, <2>2, <2>3, <2>4 DEF Live, IdsOf
<1>6. merged \subseteq Stories
  BY <1>4 DEF Stories
<1>7. new \cup UNION {s.articles : s \in merged} = S
  <2>1. UNION {s.articles : s \in merged} = UNION {Members(d) : d \in IdsOf(S)}
    <3>1. \A d : StoryAt(d).articles = Members(d)
      BY DEF StoryAt
    <3>2. {s.articles : s \in merged} = {Members(d) : d \in IdsOf(S)}
      BY <3>1
    <3>3. QED
      BY <3>2
  <2>2. \A a \in S : cluster[a] # NoCluster =>
                        cluster[a] \in IdsOf(S) /\ a \in Members(cluster[a])
    BY <1>3 DEF IdsOf, Members
  <2>3. QED
    BY <1>4, <2>1, <2>2
<1>8. new \in SUBSET (Articles \ Partition!Clustered)
  BY <1>3, NoClusterAssumption DEF Partition!Clustered, Stories, StoryAt, Members, Live
<1>9. StoryAt(c)' = [articles |-> S, lead |-> r]
  <2>1. \A a \in S : representative'[a] <=> a = r
    BY Zenon, <1>1, <1>3 DEF Stamp
  <2>2. (CHOOSE l \in S : representative'[l]) = r
    BY <1>3, <2>1
  <2>3. QED
    BY <1>2, <2>2 DEF StoryAt, Leader
<1>10. \A d \in Live \ IdsOf(S) : d # c /\ StoryAt(d)' = StoryAt(d)
  <2>1. SUFFICES ASSUME NEW d \in Live \ IdsOf(S)
                 PROVE  d # c /\ StoryAt(d)' = StoryAt(d)
    OBVIOUS
  <2>2. d # c
    BY <2>1 DEF FinalIds, OldestIds, Inv, MintedOK, Live
  <2>3. Members(d)' = Members(d)
    BY <1>2, <1>4, <2>1, <2>2
  <2>4. \A a \in Members(d) : a \in Articles /\ a \notin S
    BY <2>1 DEF Members, IdsOf, Live
  <2>5. \A a \in Members(d) : representative'[a] = representative[a]
    BY Zenon, <1>1, <2>4 DEF Stamp
  <2>6. QED
    BY <2>2, <2>3, <2>5, StoryKept
<1>11. Stories' = (Stories \ merged) \cup {[articles |-> S, lead |-> r]}
  <2>1. Stories' = {StoryAt(d)' : d \in Live'}
    BY DEF Stories
  <2>2. Stories' = {StoryAt(d)' : d \in Live \ IdsOf(S)} \cup {StoryAt(c)'}
    BY <1>5, <2>1
  <2>3. Stories' = {StoryAt(d) : d \in Live \ IdsOf(S)} \cup {StoryAt(c)'}
    BY <1>10, <2>2
  <2>4. Stories \ merged = {StoryAt(d) : d \in Live \ IdsOf(S)}
    BY <1>4, StoriesDistinct DEF Stories
  <2>5. QED
    BY <1>9, <2>3, <2>4
<1>12. Partition!Gather(merged, new)
  <2>1. r \in Partition!Representatives(S)
    BY <1>3 DEF Representatives, Preferred, Earlier, Partition!Representatives,
                Partition!Preferred, Partition!Earlier
  <2>2. QED
    BY <1>7, <1>11, <2>1 DEF Partition!Gather
<1>13. QED
  BY <1>6, <1>8, <1>12 DEF Partition!PartitionNext

(* The locked, retried, crash-prone clustering implements the partition    *)
(* that only coarsens: each commit is one Gather, and nothing else moves   *)
(* a story.                                                                *)
THEOREM ClusteringImplementsPartition == Spec => ImplementsPartition
<1>1. Init => Partition!PartitionInit
  BY DEF Init, Partition!PartitionInit, Stories, Live
<1>2. ASSUME Inv, [Next]_vars
      PROVE  Partition!PartitionNext \/ UNCHANGED Stories
  <2>1. CASE \E w \in Workers : Write(w)
    BY <1>2, <2>1, WriteGathers
  <2>2. CASE ~ \E w \in Workers : Write(w)
    <3>1. cluster' = cluster /\ representative' = representative
      BY <1>2, <2>2, OnlyWriteStamps DEF graph
    <3>2. QED
      BY <3>1 DEF Stories, StoryAt, Leader, Members, Live
  <2>3. QED
    BY <2>1, <2>2
<1>3. Inv /\ [Next]_vars => [Partition!PartitionNext]_Stories
  BY <1>2
<1>4. QED
  BY <1>1, <1>3, Invariance, PTL
     DEF Spec, ImplementsPartition, Partition!PartitionSpec

(* A representative is a member.                                           *)
LEMMA RepresentativesAreMembers ==
    ASSUME NEW S, NEW r \in Partition!Representatives(S) PROVE r \in S
  BY DEF Partition!Representatives

(* Gathering some stories and some unclustered articles into one story     *)
(* keeps the partition: what is gathered meets no story left standing.     *)
LEMMA GatherKeepsPartition ==
    ASSUME Partition!PartitionOK, NEW merged \in SUBSET Stories,
           NEW new \in SUBSET (Articles \ Partition!Clustered), Partition!Gather(merged, new)
    PROVE  Partition!PartitionOK'
<1> DEFINE gathered == new \cup UNION {s.articles : s \in merged}
<1>1. PICK r \in Partition!Representatives(gathered) :
          Stories' = (Stories \ merged) \cup {[articles |-> gathered, lead |-> r]}
  BY DEF Partition!Gather
<1> DEFINE story == [articles |-> gathered, lead |-> r]
<1>2. gathered \subseteq Articles
  BY DEF Partition!PartitionOK, Partition!Story
<1>3. r \in gathered
  BY RepresentativesAreMembers
<1>4. story \in Partition!Story
  BY <1>2, <1>3 DEF Partition!Story
<1>5. \A s \in Stories \ merged : s.articles \cap gathered = {}
  <2> SUFFICES ASSUME NEW s \in Stories \ merged, NEW a \in s.articles, a \in gathered
               PROVE  FALSE
    OBVIOUS
  <2>1. CASE a \in new
    BY <2>1 DEF Partition!Clustered
  <2>2. CASE \E t \in merged : a \in t.articles
    <3>1. PICK t \in merged : a \in t.articles
      BY <2>2
    <3>2. s = t
      BY <3>1 DEF Partition!PartitionOK
    <3> QED BY <3>2
  <2> QED BY <2>1, <2>2
<1>6. Stories' \subseteq Partition!Story
  BY <1>1, <1>4 DEF Partition!PartitionOK
<1>7. \A s, t \in Stories' : s.articles \cap t.articles # {} => s = t
  <2> SUFFICES ASSUME NEW s \in Stories', NEW t \in Stories', s.articles \cap t.articles # {}
               PROVE  s = t
    OBVIOUS
  <2>1. s \in Stories \ merged \/ s = story
    BY <1>1
  <2>2. t \in Stories \ merged \/ t = story
    BY <1>1
  <2>3. story.articles = gathered
    OBVIOUS
  <2> HIDE DEF story, gathered
  <2>4. CASE s \in Stories \ merged /\ t \in Stories \ merged
    BY <2>4 DEF Partition!PartitionOK
  <2>5. CASE s \in Stories \ merged /\ t = story
    BY <2>5, <2>3, <1>5
  <2>6. CASE s = story /\ t \in Stories \ merged
    BY <2>6, <2>3, <1>5
  <2> QED BY <2>1, <2>2, <2>4, <2>5, <2>6
<1>8. \A s \in Stories' : s.lead \in Partition!Representatives(s.articles)
  <2>1. story.articles = gathered /\ story.lead = r
    OBVIOUS
  <2> HIDE DEF story, gathered
  <2> QED BY <1>1, <2>1 DEF Partition!PartitionOK
<1> QED
  BY <1>6, <1>7, <1>8 DEF Partition!PartitionOK

(* The partition that only coarsens stays one: its stories never overlap,  *)
(* and each is led by one of its own members that no other precedes.       *)
THEOREM PartitionStaysAPartition == Partition!PartitionSpec => []Partition!PartitionOK
<1>1. Partition!PartitionInit => Partition!PartitionOK
  BY DEF Partition!PartitionInit, Partition!PartitionOK
<1>2. Partition!PartitionOK /\ [Partition!PartitionNext]_Stories => Partition!PartitionOK'
  <2> SUFFICES ASSUME Partition!PartitionOK, [Partition!PartitionNext]_Stories
               PROVE  Partition!PartitionOK'
    OBVIOUS
  <2>1. CASE Partition!PartitionNext
    BY <2>1, GatherKeepsPartition DEF Partition!PartitionNext
  <2>2. CASE UNCHANGED Stories
    BY <2>2 DEF Partition!PartitionOK
  <2> QED BY <2>1, <2>2
<1> QED
  BY <1>1, <1>2, PTL DEF Partition!PartitionSpec

(* So do the stories of the graph, whatever the workers' interleaving.     *)
COROLLARY StoriesNeverOverlap == Spec => []Partition!PartitionOK
  BY ClusteringImplementsPartition, PartitionStaysAPartition, PTL DEF ImplementsPartition

-----------------------------------------------------------------------------
(* Who has seen whom.  The candidate reads take no lock and a message may  *)
(* be handed out twice, so what follows is about what each invocation has  *)
(* done by where it stands.                                                *)

Past == {"lock", "write", "build", "send", "sent"}
Written == {"build", "send", "sent"}

Done == visible \ (queue \cup dead)
Seeds(w) == matched[w] \cup {self[w]}
Wanted(w) == toLock[w] \cup Locked(w)

(* An invocation stores before it matches, matches only what it sees, and  *)
(* once it has written, all it matched is in one story.                    *)
Handled(w) ==
    /\ pc[w] # "idle" => self[w] \in visible
    /\ pc[w] \in {"match"} \cup Past => self[w] \in blob
    /\ pc[w] \in Past => matched[w] \subseteq (Similar[self[w]] \cap visible) \ {self[w]}
    /\ pc[w] \in Written => \A x \in Seeds(w) : Joined(self[w], x)

(* An article whose message was processed is stored and clustered.         *)
HandledOK ==
    /\ queue \cup dead \subseteq visible
    /\ \A w \in Workers : Handled(w)
    /\ \A x \in Done : x \in blob /\ cluster[x] # NoCluster

(* What a transaction wants to lock, or has, is a seed or shares a story   *)
(* with a seed it has.                                                     *)
LockedFor(w) ==
    /\ pc[w] \notin {"lock", "write"} => Locked(w) = {}
    /\ pc[w] = "write" => toLock[w] = {}
    /\ pc[w] \in {"lock", "write"} =>
          /\ Seeds(w) \subseteq Wanted(w)
          /\ \A x \in Wanted(w) :
                \/ x \in Seeds(w)
                \/ \E s \in Seeds(w) \cap Locked(w) : Joined(s, x)
LocksOK == \A w \in Workers : LockedFor(w)

(* Of two articles that match each other, the one that became visible      *)
(* second never misses the first.                                          *)
Sees(x, y) ==
    /\ \A w \in Workers : (self[w] = x /\ pc[w] \in Past) => y \in matched[w]
    /\ x \in Done => Joined(x, y)
OneSees ==
    \A x, y \in visible :
        (x # y /\ x \in Similar[y] /\ y \in Similar[x]) => (Sees(x, y) \/ Sees(y, x))

History == HandledOK /\ LocksOK /\ OneSees

(* A step of one worker: the others' locals and locks are their own.       *)
StepOf(w) == (\E a \in Articles : Receive(w, a)) \/ Work(w) \/ Crash(w)

OtherKept(v) ==
    /\ pc'[v] = pc[v] /\ self'[v] = self[v] /\ matched'[v] = matched[v]
    /\ toLock'[v] = toLock[v] /\ target'[v] = target[v] /\ outgoing'[v] = outgoing[v]
    /\ Locked(v)' = Locked(v)

(* A worker's step changes nothing of the other workers.                   *)
LEMMA OthersKept ==
    ASSUME TypeInv, NEW w \in Workers, StepOf(w), NEW v \in Workers, v # w
    PROVE  OtherKept(v)
<1> USE FreeAssumption DEF TypeInv, TypeOK, OtherKept
<1>1. CASE \E a \in Articles : Receive(w, a)
  BY <1>1 DEF Receive, Locked
<1>2. CASE Store(w) \/ Match(w)
  BY <1>2 DEF Store, Match, Locked
<1>3. CASE \E a \in Articles : Lock(w, a)
  BY <1>3 DEF Lock, Locked
<1>4. CASE Close(w)
  BY <1>4 DEF Close, Locked
<1>5. CASE Write(w)
  BY <1>5 DEF Write, Release, Locked
<1>6. CASE Build(w) \/ Send(w)
  BY <1>6 DEF Build, Send, Locked
<1>7. CASE Acknowledge(w)
  BY <1>7 DEF Acknowledge, Forget, Locked
<1>8. CASE Abort(w)
  BY <1>8 DEF Abort, Release, Locked
<1>9. CASE Fail(w)
  BY <1>9 DEF Fail, Forget, Release, Locked
<1>10. QED
  BY <1>1, <1>2, <1>3, <1>4, <1>5, <1>6, <1>7, <1>8, <1>9
     DEF StepOf, Work, GiveUp, Crash

(* What a worker can do to the queue and the graph.                        *)
LEMMA WorkerStep ==
    ASSUME TypeInv, NEW w \in Workers, StepOf(w)
    PROVE  /\ visible' = visible /\ dead' = dead /\ queue' \subseteq queue
           /\ blob \subseteq blob' /\ emitted \subseteq emitted'
           /\ \A a \in queue \ queue' : a = self[w] /\ pc[w] = "sent"
<1>1. CASE \E a \in Articles : Receive(w, a)
  BY <1>1 DEF Receive
<1>2. CASE Fail(w)
  BY <1>2 DEF Fail, sqs
<1>3. QED
  BY <1>1, <1>2
     DEF StepOf, Work, Store, Match, Lock, Close, Write, Build, Send, Acknowledge, Abort,
         GiveUp, Crash, sqs

(* What a step is, with who takes it.                                      *)
LEMMA EveryStep ==
    ASSUME [Next]_vars
    PROVE  \/ \E a \in Articles : Resolve(a)
           \/ \E a \in Articles : DeadLetter(a)
           \/ \E w \in Workers : StepOf(w)
           \/ UNCHANGED vars
BY DEF Next, StepOf

(* In the beginning nobody has seen anything.                              *)
LEMMA InitHistory == Init => History
BY FreeAssumption
   DEF Init, History, HandledOK, Handled, LocksOK, LockedFor, OneSees, Past, Written,
       Done, Locked

(* A write joins everything the invocation matched.                        *)
LEMMA WriteJoins ==
    ASSUME Inv, LocksOK, NEW w \in Workers, Write(w)
    PROVE  /\ Seeds(w) \subseteq Locked(w)
           /\ \A x, y \in Locked(w) : Joined(x, y)'
<1>1. Seeds(w) \subseteq Locked(w)
  BY DEF LocksOK, LockedFor, Wanted, Write
<1>2. PICK c \in ClusterIds : Members(c)' = Locked(w)
  BY WriteByCluster
<1>3. QED
  BY <1>1, <1>2, NoClusterAssumption DEF Members, Joined

(* What an invocation has done, it has done for good.                      *)
LEMMA HandledKept ==
    ASSUME Inv, [Next]_vars, NEW v \in Workers, Handled(v),
           visible \subseteq visible', blob \subseteq blob',
           pc'[v] = pc[v], self'[v] = self[v], matched'[v] = matched[v]
    PROVE  Handled(v)'
<1>1. pc[v] \in Written => self[v] \in Articles /\ Seeds(v) \subseteq Articles
  BY DEF Inv, TypeInv, TypeOK, LocalsOK, Seeds, Written
<1>2. Seeds(v)' = Seeds(v)
  BY DEF Seeds
<1>3. ASSUME pc[v] \in Written, NEW x \in Seeds(v)
      PROVE  (Joined(self[v], x))'
  <2>1. self[v] \in Articles /\ x \in Articles /\ Joined(self[v], x)
    BY <1>1, <1>3 DEF Handled
  <2>2. cluster'[self[v]] = cluster'[x] /\ cluster'[self[v]] # NoCluster
    BY <2>1, JoinedStays DEF Joined
  <2>3. QED
    BY <2>2 DEF Joined
<1>4. QED
  BY <1>2, <1>3 DEF Handled

(* The same of the invocation whose step it is.                            *)
LEMMA HandledOwn ==
    ASSUME Inv, HandledOK, LocksOK, [Next]_vars, NEW w \in Workers, StepOf(w)
    PROVE  Handled(w)'
<1> USE DEF HandledOK
<1>1. TypeInv /\ Handled(w)
  BY DEF Inv
<1>2. visible' = visible /\ blob \subseteq blob'
  BY <1>1, WorkerStep
<1>3. CASE \E a \in Articles : Receive(w, a)
  BY <1>1, <1>2, <1>3 DEF Handled, Receive, Past, Written, TypeInv, TypeOK
<1>4. CASE Store(w)
  BY <1>1, <1>2, <1>4 DEF Handled, Store, Past, Written, TypeInv, TypeOK
<1>5. CASE Match(w)
  BY <1>1, <1>2, <1>5 DEF Handled, Match, MatchesOf, Past, Written, TypeInv, TypeOK
<1>6. CASE (\E a \in Articles : Lock(w, a)) \/ Close(w)
  <2>1. /\ self' = self /\ matched' = matched /\ pc[w] = "lock"
        /\ pc'[w] \in {"lock", "write"}
    BY <1>1, <1>6 DEF Lock, Close, TypeInv, TypeOK
  <2>2. QED
    BY <1>1, <1>2, <2>1 DEF Handled, Past, Written
<1>7. CASE Write(w)
  <2>1. /\ self' = self /\ matched' = matched
        /\ pc[w] = "write" /\ pc'[w] = "build"
    BY <1>1, <1>7 DEF Write, TypeInv, TypeOK
  <2>2. self[w] \in Seeds(w)
    BY DEF Seeds
  <2>3. \A x, y \in Seeds(w) : Joined(x, y)'
    BY <1>7, WriteJoins
  <2>4. \A x \in Seeds(w)' : (Joined(self[w], x))'
    BY <2>1, <2>2, <2>3 DEF Seeds, Joined
  <2>5. QED
    BY <1>1, <1>2, <2>1, <2>4 DEF Handled, Past
<1>8. CASE Build(w) \/ Send(w)
  <2>1. /\ self' = self /\ matched' = matched /\ cluster' = cluster
        /\ pc[w] \in Written /\ pc'[w] \in Written
    BY <1>1, <1>8 DEF Build, Send, Written, graph, TypeInv, TypeOK
  <2>2. Seeds(w)' = Seeds(w) /\ \A x : (Joined(self[w], x))' <=> Joined(self[w], x)
    BY <2>1 DEF Seeds, Joined
  <2>3. QED
    BY <1>1, <1>2, <2>1, <2>2 DEF Handled, Past, Written
<1>9. CASE Acknowledge(w) \/ Fail(w)
  <2>1. pc'[w] = "idle"
    BY <1>1, <1>9 DEF Acknowledge, Fail, Forget, TypeInv, TypeOK
  <2>2. QED
    BY <2>1 DEF Handled, Past, Written
<1>10. CASE Abort(w)
  BY <1>1, <1>2, <1>10, HandledKept DEF Abort
<1>11. QED
  BY <1>3, <1>4, <1>5, <1>6, <1>7, <1>8, <1>9, <1>10 DEF StepOf, Work, GiveUp, Crash

(* Every step keeps processed articles stored and clustered.               *)
LEMMA HandledStep ==
    ASSUME Inv, HandledOK, LocksOK, [Next]_vars
    PROVE  HandledOK'
<1>1. TypeInv
  BY DEF Inv
<1>2. \A x \in Articles : cluster[x] # NoCluster => cluster'[x] # NoCluster
  BY JoinedStays DEF Joined
<1>3. Done \subseteq Articles
  BY <1>1 DEF Done, TypeInv, TypeOK
<1>4. CASE \E w \in Workers : StepOf(w)
  <2>1. PICK w \in Workers : StepOf(w)
    BY <1>4
  <2>2. /\ visible' = visible /\ dead' = dead /\ queue' \subseteq queue
        /\ blob \subseteq blob'
        /\ \A a \in queue \ queue' : a = self[w] /\ pc[w] = "sent"
    BY <1>1, <2>1, WorkerStep
  <2>3. ASSUME NEW v \in Workers PROVE Handled(v)'
    <3>1. CASE v = w
      BY <2>1, <3>1, HandledOwn
    <3>2. CASE v # w
      <4>1. pc'[v] = pc[v] /\ self'[v] = self[v] /\ matched'[v] = matched[v]
        BY <1>1, <2>1, <3>2, OthersKept DEF OtherKept
      <4>2. QED
        BY <2>2, <4>1, HandledKept DEF HandledOK
    <3>3. QED
      BY <3>1, <3>2
  <2>4. ASSUME NEW x \in Done'
        PROVE  x \in blob' /\ cluster'[x] # NoCluster
    <3>1. CASE x \in Done
      BY <1>2, <1>3, <2>2, <3>1 DEF HandledOK
    <3>2. CASE x \notin Done
      <4>1. x = self[w] /\ pc[w] = "sent"
        BY <2>2, <2>4, <3>2 DEF Done
      <4>2. x \in Articles /\ x \in blob /\ Joined(x, x)
        BY <1>1, <4>1 DEF HandledOK, Handled, Past, Written, Seeds, TypeInv, LocalsOK
      <4>3. QED
        BY <1>2, <2>2, <4>2 DEF Joined
    <3>3. QED
      BY <3>1, <3>2
  <2>5. QED
    BY <2>2, <2>3, <2>4 DEF HandledOK
<1>5. ASSUME UNCHANGED <<graph, blob, holder, locals>>, Done' = Done,
             visible \subseteq visible', queue' \cup dead' \subseteq visible'
      PROVE  HandledOK'
  <2>1. \A v \in Workers : Handled(v)'
    BY <1>5, HandledKept DEF HandledOK, locals
  <2>2. QED
    BY <1>5, <2>1 DEF HandledOK, graph
<1>6. CASE \E a \in Articles : Resolve(a)
  BY <1>5, <1>6 DEF Resolve, Done, HandledOK
<1>7. CASE \E a \in Articles : DeadLetter(a)
  BY <1>5, <1>7 DEF DeadLetter, Done, HandledOK
<1>8. CASE UNCHANGED vars
  BY <1>5, <1>8 DEF vars, sqs, Done, HandledOK
<1>9. QED
  BY <1>4, <1>6, <1>7, <1>8, EveryStep

-----------------------------------------------------------------------------
(* The locks of a worker that does not move, and of the one that does.     *)
LEMMA LockedKept ==
    ASSUME Inv, [Next]_vars, NEW v \in Workers, LockedFor(v),
           pc'[v] = pc[v], self'[v] = self[v], matched'[v] = matched[v],
           toLock'[v] = toLock[v], Locked(v)' = Locked(v)
    PROVE  LockedFor(v)'
<1>1. Seeds(v)' = Seeds(v) /\ Wanted(v)' = Wanted(v)
  BY DEF Seeds, Wanted
<1>2. Wanted(v) \subseteq Articles /\ Locked(v) \subseteq Articles
  BY DEF Wanted, Locked, Inv, TypeInv, TypeOK
<1>3. \A s \in Locked(v), x \in Wanted(v) : Joined(s, x) => Joined(s, x)'
  BY <1>2, JoinedStays
<1>4. QED
  BY <1>1, <1>3 DEF LockedFor

(* A worker's own step keeps what its locks are for.                       *)
LEMMA LockedOwn ==
    ASSUME Inv, LocksOK, [Next]_vars, NEW w \in Workers, StepOf(w)
    PROVE  LockedFor(w)'
<1>1. TypeInv /\ LockedFor(w)
  BY DEF Inv, LocksOK
<1>2. CASE (\E a \in Articles : Receive(w, a)) \/ Store(w) \/ Build(w) \/ Send(w)
             \/ Acknowledge(w)
  <2>1. /\ pc[w] \notin {"lock", "write"} /\ pc'[w] \notin {"lock", "write"}
        /\ holder' = holder
    BY <1>1, <1>2
       DEF Receive, Store, Build, Send, Acknowledge, Forget, TypeInv, TypeOK
  <2>2. QED
    BY <1>1, <2>1 DEF LockedFor, Locked
<1>3. CASE Match(w)
  <2>1. /\ pc'[w] = "lock" /\ toLock'[w] = Seeds(w)'
        /\ Locked(w)' = {}
    BY <1>1, <1>3 DEF Match, Seeds, LockedFor, Locked, TypeInv, TypeOK
  <2>2. QED
    BY <2>1 DEF LockedFor, Wanted
<1>4. CASE \E a \in Articles : Lock(w, a)
  <2>1. PICK a \in Articles : Lock(w, a)
    BY <1>4
  <2>2. /\ pc'[w] = "lock" /\ pc[w] = "lock" /\ cluster' = cluster
        /\ Seeds(w)' = Seeds(w) /\ a \in toLock[w]
        /\ toLock'[w] = toLock[w] \ {a}
        /\ Locked(w)' = Locked(w) \cup {a}
    BY <1>1, <2>1, FreeAssumption
       DEF Lock, IsNextLock, Seeds, Locked, graph, TypeInv, TypeOK
  <2>3. Wanted(w)' = Wanted(w)
    BY <2>2 DEF Wanted
  <2>4. \A s, x : Joined(s, x)' <=> Joined(s, x)
    BY <2>2 DEF Joined
  <2>5. QED
    BY <1>1, <2>2, <2>3, <2>4 DEF LockedFor
<1>5. CASE Close(w)
  <2>1. /\ pc[w] = "lock" /\ toLock[w] = {} /\ cluster' = cluster
        /\ Seeds(w)' = Seeds(w) /\ Locked(w)' = Locked(w)
        /\ toLock'[w] = Unlocked(w)
        /\ pc'[w] = IF Unlocked(w) = {} THEN "write" ELSE "lock"
    BY <1>1, <1>5 DEF Close, Seeds, Locked, graph, TypeInv, TypeOK
  <2>2. /\ Wanted(w) = Locked(w) /\ Seeds(w) \subseteq Locked(w)
        /\ Wanted(w)' = Unlocked(w) \cup Locked(w)
    BY <1>1, <2>1 DEF Wanted, LockedFor
  <2>3. ASSUME NEW x \in Unlocked(w)
        PROVE  \E s \in Seeds(w) \cap Locked(w) : Joined(s, x)
    <3>1. PICK y \in Locked(w) : cluster[y] = cluster[x] /\ cluster[y] # NoCluster
      BY <2>3 DEF Unlocked, MembersTouching, IdsOf
    <3>2. y \in Seeds(w) \/ \E s \in Seeds(w) \cap Locked(w) : Joined(s, y)
      BY <1>1, <2>1, <2>2, <3>1 DEF LockedFor
    <3>3. QED
      BY <3>1, <3>2 DEF Joined
  <2>4. \A s, x : Joined(s, x)' <=> Joined(s, x)
    BY <2>1 DEF Joined
  <2>5. \A x \in Wanted(w)' : \/ x \in Seeds(w)'
                              \/ \E s \in Seeds(w)' \cap Locked(w)' : Joined(s, x)'
    BY <1>1, <2>1, <2>2, <2>3, <2>4 DEF LockedFor
  <2>6. QED
    BY <2>1, <2>2, <2>5 DEF LockedFor
<1>6. CASE Write(w) \/ Fail(w)
  <2>1. pc'[w] \notin {"lock", "write"} /\ Locked(w)' = {}
    BY <1>1, <1>6, FreeAssumption
       DEF Write, Fail, Forget, Release, Locked, TypeInv, TypeOK
  <2>2. QED
    BY <2>1 DEF LockedFor
<1>7. CASE Abort(w)
  <2>1. pc'[w] = "lock" /\ toLock'[w] = Seeds(w)' /\ Locked(w)' = {}
    BY <1>1, <1>7, FreeAssumption
       DEF Abort, InDeadlock, Deadlocked, Release, Seeds, Locked, TypeInv, TypeOK
  <2>2. QED
    BY <2>1 DEF LockedFor, Wanted
<1>8. QED
  BY <1>2, <1>3, <1>4, <1>5, <1>6, <1>7 DEF StepOf, Work, GiveUp, Crash

(* Every step keeps what every worker's locks are for.                     *)
LEMMA LocksStep ==
    ASSUME Inv, LocksOK, [Next]_vars
    PROVE  LocksOK'
<1>1. CASE \E w \in Workers : StepOf(w)
  <2>1. PICK w \in Workers : StepOf(w)
    BY <1>1
  <2>2. ASSUME NEW v \in Workers PROVE LockedFor(v)'
    <3>1. CASE v = w
      BY <2>1, <3>1, LockedOwn
    <3>2. CASE v # w
      <4>1. OtherKept(v)
        BY <2>1, <3>2, OthersKept DEF Inv
      <4>2. QED
        BY <4>1, LockedKept DEF LocksOK, OtherKept
    <3>3. QED
      BY <3>1, <3>2
  <2>3. QED
    BY <2>2 DEF LocksOK
<1>2. CASE UNCHANGED <<holder, locals>>
  BY <1>2, LockedKept DEF LocksOK, locals, Locked
<1>3. QED
  BY <1>1, <1>2, EveryStep DEF Resolve, DeadLetter, vars

-----------------------------------------------------------------------------
(* An article whose message was processed before a step, or is by it.      *)
LEMMA DoneStep ==
    ASSUME TypeInv, [Next]_vars, NEW x \in Done', x \notin Done
    PROVE  \E w \in Workers : Acknowledge(w) /\ pc[w] = "sent" /\ x = self[w]
<1>1. CASE \E w \in Workers : StepOf(w)
  <2>1. PICK w \in Workers : StepOf(w)
    BY <1>1
  <2>2. /\ visible' = visible /\ dead' = dead
        /\ \A a \in queue \ queue' : a = self[w] /\ pc[w] = "sent"
    BY <2>1, WorkerStep
  <2>3. x \in queue \ queue'
    BY <2>2 DEF Done
  <2>4. CASE Acknowledge(w)
    BY <2>2, <2>3, <2>4
  <2>5. CASE ~Acknowledge(w)
    BY <2>1, <2>3, <2>5
       DEF StepOf, Work, Receive, Store, Match, Lock, Close, Write, Build, Send, Abort,
           GiveUp, Crash, Fail, sqs
  <2>6. QED
    BY <2>4, <2>5
<1>2. CASE ~ \E w \in Workers : StepOf(w)
  BY <1>2, EveryStep DEF Done, Resolve, DeadLetter, vars, sqs
<1>3. QED
  BY <1>1, <1>2

(* What x sees it goes on seeing, and its later matches see it as well.    *)
LEMMA SeesStays ==
    ASSUME Inv, HandledOK, [Next]_vars,
           NEW x \in visible, NEW y \in visible, x # y, y \in Similar[x], Sees(x, y)
    PROVE  Sees(x, y)'
<1>1. TypeInv /\ x \in Articles /\ y \in Articles
  BY DEF Inv, TypeInv, TypeOK
<1>2. ASSUME x \in Done'
      PROVE  Joined(x, y)'
  <2>1. CASE x \in Done
    BY <1>1, <2>1, JoinedStays DEF Sees
  <2>2. CASE x \notin Done
    <3>1. PICK w \in Workers : pc[w] = "sent" /\ x = self[w]
      BY <1>1, <1>2, <2>2, DoneStep
    <3>2. y \in Seeds(w)
      BY <3>1 DEF Sees, Past, Seeds
    <3>3. Joined(x, y)
      BY <3>1, <3>2 DEF HandledOK, Handled, Written
    <3>4. QED
      BY <1>1, <3>3, JoinedStays
  <2>3. QED
    BY <2>1, <2>2
<1>3. ASSUME NEW v \in Workers, self'[v] = x, pc'[v] \in Past
      PROVE  y \in matched'[v]
  <2>1. CASE self'[v] = self[v] /\ pc[v] \in Past /\ matched'[v] = matched[v]
    BY <1>3, <2>1 DEF Sees
  <2>2. CASE Match(v)
    BY <1>1, <1>3, <2>2 DEF Match, MatchesOf, TypeInv, TypeOK
  <2>3. CASE StepOf(v) /\ ~Match(v)
    <3>1. CASE (\E a \in Articles : Receive(v, a)) \/ Store(v) \/ Acknowledge(v) \/ Fail(v)
      BY <1>1, <1>3, <3>1
         DEF Receive, Store, Acknowledge, Fail, Forget, Past, TypeInv, TypeOK
    <3>2. CASE (\E a \in Articles : Lock(v, a)) \/ Close(v) \/ Write(v) \/ Build(v)
                 \/ Send(v) \/ Abort(v)
      <4>1. self' = self /\ matched' = matched /\ pc[v] \in Past
        BY <3>2 DEF Lock, Close, Write, Build, Send, Abort, InDeadlock, Deadlocked, Past
      <4>2. QED
        BY <2>1, <4>1
    <3>3. QED
      BY <2>3, <3>1, <3>2 DEF StepOf, Work, GiveUp, Crash
  <2>4. CASE ~StepOf(v)
    <3>1. self'[v] = self[v] /\ pc'[v] = pc[v] /\ matched'[v] = matched[v]
      <4>1. CASE \E w \in Workers : StepOf(w)
        BY <1>1, <2>4, <4>1, OthersKept DEF OtherKept
      <4>2. CASE ~ \E w \in Workers : StepOf(w)
        BY <4>2, EveryStep DEF Resolve, DeadLetter, vars, locals
      <4>3. QED
        BY <4>1, <4>2
    <3>2. QED
      BY <1>3, <2>1, <3>1
  <2>5. QED
    BY <2>2, <2>3, <2>4
<1>4. QED
  BY <1>2, <1>3 DEF Sees

(* Of two matching articles the one resolved second sees the first.        *)
LEMMA OneSeesStep ==
    ASSUME Inv, HandledOK, OneSees, [Next]_vars
    PROVE  OneSees'
<1>1. TypeInv
  BY DEF Inv
<1>2. SUFFICES ASSUME NEW x \in visible', NEW y \in visible', x # y,
                      x \in Similar[y], y \in Similar[x]
               PROVE  Sees(x, y)' \/ Sees(y, x)'
  BY DEF OneSees
<1>3. CASE x \in visible /\ y \in visible
  BY <1>2, <1>3, SeesStays DEF OneSees
<1>4. CASE ~(x \in visible /\ y \in visible)
  <2>1. PICK a \in Articles : Resolve(a)
    <3>1. visible' # visible
      BY <1>2, <1>4
    <3>2. QED
      BY <1>1, <3>1, EveryStep, WorkerStep DEF DeadLetter, vars, sqs
  <2>2. /\ a \notin visible /\ visible' = visible \cup {a}
        /\ queue' = queue \cup {a} /\ dead' = dead /\ pc' = pc /\ self' = self
    BY <2>1 DEF Resolve, locals
  <2>3. a \notin Done' /\ \A w \in Workers : pc'[w] \in Past => self'[w] # a
    BY <2>2 DEF Done, HandledOK, Handled, Past
  <2>4. \A z : Sees(a, z)'
    BY <2>3 DEF Sees
  <2>5. x = a \/ y = a
    BY <1>2, <1>4, <2>2
  <2>6. QED
    BY <2>4, <2>5
<1>5. QED
  BY <1>3, <1>4

(* With the locks, who has seen whom is an invariant.                      *)
LEMMA HistoryInvariant == Spec => [](Inv /\ History)
<1>1. Inv /\ History /\ [Next]_vars => History'
  BY HandledStep, LocksStep, OneSeesStep DEF History
<1>2. QED
  BY Invariance, InitHistory, <1>1, PTL DEF Spec

(* Two articles that match each other, once both are processed, are in one *)
(* story: the candidate reads take no lock, but whichever article became   *)
(* visible second cannot miss the first, in any of its invocations.        *)
THEOREM SimilarEndUpTogether == Spec => []SimilarTogether
<1>1. Inv /\ History => SimilarTogether
  <2>1. SUFFICES ASSUME History, NEW a \in Done, NEW b \in Done,
                        a \in Similar[b], b \in Similar[a]
                 PROVE  Joined(a, b)
    BY DEF SimilarTogether, Done, Joined
  <2>2. CASE a = b
    BY <2>1, <2>2 DEF History, HandledOK, Joined
  <2>3. CASE a # b
    BY <2>1, <2>3 DEF History, OneSees, Sees, Joined, Done
  <2>4. QED
    BY <2>2, <2>3
<1>2. QED
  BY HistoryInvariant, <1>1, PTL

-----------------------------------------------------------------------------
(* A set of articles that similarity holds together.                       *)
Linked(a, b) == a \in Similar[b] \/ b \in Similar[a]
Whole(S) ==
    \A half \in (SUBSET S) \ {{}, S} : \E a \in half, b \in S \ half : Linked(a, b)

(* Cut the locked articles of a writer in two.  Its own article is linked  *)
(* to its matches, and whoever else is locked is in a story of one of      *)
(* these, all of which is locked.                                          *)
LEMMA LinkAcross ==
    ASSUME Inv, HandledOK, LocksOK, StoriesConnected,
           NEW w \in Workers, pc[w] = "write",
           NEW A \in SUBSET Locked(w), NEW B \in SUBSET Locked(w),
           A \cup B = Locked(w), A \cap B = {}, self[w] \in A, B # {}
    PROVE  \E a \in A, b \in B : Linked(a, b)
<1>1. PICK y \in B : TRUE
  OBVIOUS
<1>2. /\ Seeds(w) \subseteq Locked(w) /\ Wanted(w) = Locked(w)
      /\ \A x \in Locked(w) : \/ x \in Seeds(w)
                              \/ \E s \in Seeds(w) \cap Locked(w) : Joined(s, x)
  BY DEF LocksOK, LockedFor, Wanted
<1>3. \A x \in Seeds(w) \ {self[w]} : Linked(self[w], x)
  BY DEF HandledOK, Handled, Seeds, Linked, Past
<1>4. CASE \E s \in Seeds(w) : s \in B
  <2>1. PICK s \in Seeds(w) : s \in B
    BY <1>4
  <2>2. s # self[w]
    BY <2>1
  <2>3. QED
    BY <1>3, <2>1, <2>2
<1>5. CASE \A s \in Seeds(w) : s \in A
  <2>1. PICK s \in Seeds(w) : Joined(s, y)
    BY <1>1, <1>2, <1>5
  <2>2. s \in A /\ s \in Articles /\ y \in Articles
    BY <1>1, <1>5, <2>1 DEF Locked
  <2>3. PICK d : d = cluster[s]
    OBVIOUS
  <2>4. d \in Live /\ s \in Members(d) /\ y \in Members(d)
    BY <2>1, <2>2, <2>3 DEF Joined, Live, Members
  <2>5. Members(d) \subseteq Locked(w)
    BY <2>1, <2>2, <2>3, <1>2
       DEF Inv, WriteLocksClosed, MembersTouching, IdsOf, Members, Joined
  <2>6. PICK half : half = A \cap Members(d)
    OBVIOUS
  <2>7. half \in (SUBSET Members(d)) \ {{}, Members(d)}
    BY <1>1, <2>2, <2>4, <2>6
  <2>8. Whole(Members(d))
    BY <2>4 DEF StoriesConnected, Whole, Linked
  <2>9. \E a \in half, b \in Members(d) \ half : Linked(a, b)
    BY <2>7, <2>8 DEF Whole
  <2>10. half \subseteq A /\ Members(d) \ half \subseteq B
    BY <2>5, <2>6
  <2>11. QED
    BY <2>9, <2>10
<1>6. QED
  BY <1>2, <1>4, <1>5

(* The articles a transaction is about to gather are connected.            *)
LEMMA LockedIsWhole ==
    ASSUME Inv, HandledOK, LocksOK, StoriesConnected,
           NEW w \in Workers, pc[w] = "write"
    PROVE  Whole(Locked(w))
<1>1. SUFFICES ASSUME NEW half \in (SUBSET Locked(w)) \ {{}, Locked(w)}
               PROVE  \E a \in half, b \in Locked(w) \ half : Linked(a, b)
  BY DEF Whole
<1>2. self[w] \in Locked(w)
  BY DEF LocksOK, LockedFor, Seeds, Wanted
<1>3. PICK rest : rest = Locked(w) \ half
  OBVIOUS
<1>4. /\ half \cup rest = Locked(w) /\ half \cap rest = {} /\ rest # {} /\ half # {}
      /\ rest \in SUBSET Locked(w) /\ half \in SUBSET Locked(w)
  BY <1>1, <1>3
<1>5. CASE self[w] \in half
  BY <1>3, <1>4, <1>5, LinkAcross
<1>6. CASE self[w] \in rest
  <2>1. PICK a \in rest : \E b \in half : Linked(a, b)
    BY <1>4, <1>6, LinkAcross
  <2>2. PICK b \in half : Linked(a, b)
    BY <2>1
  <2>3. Linked(b, a)
    BY <2>2 DEF Linked
  <2>4. QED
    BY <1>3, <2>1, <2>2, <2>3
<1>7. QED
  BY <1>2, <1>4, <1>5, <1>6

(* Every story is held together by matches between its members: no story   *)
(* gathers articles that similarity does not connect, whatever raced, was  *)
(* delivered twice or was run again after a deadlock.                      *)
THEOREM StoriesStayConnected == Spec => []StoriesConnected
<1>1. Init => StoriesConnected
  BY DEF Init, StoriesConnected, Live
<1>2. ASSUME Inv, History, StoriesConnected, [Next]_vars
      PROVE  StoriesConnected'
  <2>1. CASE \E w \in Workers : Write(w)
    <3>1. PICK w \in Workers : Write(w)
      BY <2>1
    <3>2. PICK c \in ClusterIds :
              /\ Members(c)' = Locked(w)
              /\ \A d \in ClusterIds \ {c} :
                    IF d \in IdsOf(Locked(w)) THEN Members(d)' = {}
                                             ELSE Members(d)' = Members(d)
      BY <1>2, <3>1, WriteByCluster
    <3>3. Whole(Locked(w))
      BY <1>2, <3>1, LockedIsWhole DEF History, Write
    <3>4. cluster' \in [Articles -> ClusterIds \cup {NoCluster}]
      BY <1>2, NextTypeInv DEF Inv, TypeInv, TypeOK
    <3>5. ASSUME NEW d \in Live'
          PROVE  Whole(Members(d)')
      <4>1. d \in ClusterIds /\ Members(d)' # {}
        BY <3>4, <3>5 DEF Live, Members
      <4>2. CASE d = c
        BY <3>2, <3>3, <4>2
      <4>3. CASE d # c
        <5>1. Members(d)' = Members(d)
          BY <3>2, <4>1, <4>3
        <5>2. d \in Live
          BY <4>1, <5>1, NoClusterAssumption DEF Live, Members
        <5>3. Whole(Members(d))
          BY <1>2, <5>2 DEF StoriesConnected, Whole, Linked
        <5>4. QED
          BY <5>1, <5>3
      <4>4. QED
        BY <4>2, <4>3
    <3>6. QED
      BY <3>5 DEF StoriesConnected, Whole, Linked
  <2>2. CASE ~ \E w \in Workers : Write(w)
    <3>1. cluster' = cluster
      BY <1>2, <2>2, OnlyWriteStamps DEF graph
    <3>2. Live' = Live /\ \A d : Members(d)' = Members(d)
      BY <3>1 DEF Live, Members
    <3>3. QED
      BY <1>2, <3>2 DEF StoriesConnected
  <2>3. QED
    BY <2>1, <2>2
<1>3. QED
  BY <1>1, <1>2, HistoryInvariant, PTL DEF Spec

-----------------------------------------------------------------------------
(* Whether a story as it stands was announced.                             *)

(* No invocation of x has written yet, and one is still to come.           *)
Fresh(x) ==
    /\ x \in queue \cup dead
    /\ \A w \in Workers : self[w] = x => pc[w] \notin Written

(* Whoever is to acknowledge x announces the story x is in first.          *)
Settles(x) ==
    \/ x \in dead
    \/ /\ x \in queue
       /\ \A w \in Workers :
             (self[w] = x /\ pc[w] \in Written) =>
                 \/ /\ pc[w] = "build"
                    /\ target[w] = cluster[x]
                 \/ /\ pc[w] = "send"
                    /\ outgoing[w] = StoryOf(cluster[x])
ToldOrOwed(c) == StoryOf(c) \in emitted \/ \E x \in Members(c) : Settles(x)
Told == \A c \in Live : Members(c) \subseteq MatchedBack => ToldOrOwed(c)

(* Of an article and one it matches and is in no story with, one has yet   *)
(* to be written for the first time, if what it matches matches it back.   *)
LEMMA ApartIsFresh ==
    ASSUME Inv, HandledOK, OneSees, NEW x \in visible \cap MatchedBack,
           NEW y \in visible, x # y, y \in Similar[x], ~Joined(x, y)
    PROVE  Fresh(x) \/ Fresh(y)
<1>1. x \in Articles /\ y \in Articles
  BY DEF Inv, TypeInv, TypeOK
<1>2. ASSUME NEW a \in visible, NEW b \in visible, Sees(a, b), ~Joined(a, b)
      PROVE  Fresh(a)
  <2>1. a \in queue \cup dead
    BY <1>2 DEF Sees, Done
  <2>2. ASSUME NEW w \in Workers, self[w] = a, pc[w] \in Written PROVE FALSE
    <3>1. b \in Seeds(w)
      BY <1>2, <2>2 DEF Sees, Past, Written, Seeds
    <3>2. QED
      BY <1>2, <2>2, <3>1 DEF HandledOK, Handled
  <2>3. QED
    BY <2>1, <2>2 DEF Fresh
<1>3. ~Joined(y, x)
  BY DEF Joined
<1>4. Sees(x, y) \/ Sees(y, x)
  BY <1>1 DEF OneSees, MatchedBack
<1>5. QED
  BY <1>2, <1>3, <1>4

(* An article in no story has yet to be written for the first time.        *)
LEMMA UnclusteredIsFresh ==
    ASSUME Inv, HandledOK, NEW x \in visible, cluster[x] = NoCluster
    PROVE  Fresh(x)
<1>1. x \in queue \cup dead
  BY DEF HandledOK, Done
<1>2. \A w \in Workers : self[w] = x => pc[w] \notin Written
  BY DEF HandledOK, Handled, Seeds, Joined
<1>3. QED
  BY <1>1, <1>2 DEF Fresh

(* An owner of a story that does not change stays one, if each invocation  *)
(* of it stays where it was or is about to announce that story.            *)
LEMMA SettlesKept ==
    ASSUME NEW x, NEW d, cluster[x] = d, cluster'[x] = d, StoryOf(d)' = StoryOf(d),
           Settles(x), dead \subseteq dead', x \in queue => x \in queue' \cup dead',
           \A v \in Workers : (self'[v] = x /\ pc'[v] \in Written) =>
               \/ /\ self[v] = x /\ pc[v] = pc'[v]
                  /\ target[v] = target'[v] /\ outgoing[v] = outgoing'[v]
               \/ pc'[v] = "build" /\ target'[v] = d
               \/ pc'[v] = "send" /\ outgoing'[v] = StoryOf(d)
    PROVE  Settles(x)'
<1>1. CASE x \in dead'
  BY <1>1 DEF Settles
<1>2. CASE x \notin dead'
  <2>1. x \in queue' /\ x \in queue
    BY <1>2 DEF Settles
  <2>2. ASSUME NEW v \in Workers, self'[v] = x, pc'[v] \in Written
        PROVE  \/ pc'[v] = "build" /\ target'[v] = d
               \/ pc'[v] = "send" /\ outgoing'[v] = StoryOf(d)
    <3>1. CASE /\ self[v] = x /\ pc[v] = pc'[v]
               /\ target[v] = target'[v] /\ outgoing[v] = outgoing'[v]
      <4>1. \/ pc[v] = "build" /\ target[v] = cluster[x]
            \/ pc[v] = "send" /\ outgoing[v] = StoryOf(cluster[x])
        BY <1>2, <2>2, <3>1 DEF Settles
      <4>2. QED
        BY <3>1, <4>1
    <3>2. QED
      BY <2>2, <3>1
  <2>3. (StoryOf(cluster[x]))' = StoryOf(d)
    <3>1. (StoryOf(cluster[x]))' = StoryOf(d)'
      BY DEF StoryOf, Members
    <3>2. QED
      BY <3>1
  <2>4. QED
    BY <2>1, <2>2, <2>3 DEF Settles
<1>3. QED
  BY <1>1, <1>2

(* A commit that changes a story gathers an article yet to be written: its *)
(* message is still to be processed, by this invocation or a later one.    *)
LEMMA WriteTold ==
    ASSUME Inv, History, Told, [Next]_vars,
           NEW w \in Workers, Write(w)
    PROVE  Told'
<1> DEFINE S == Locked(w)
<1>1. TypeInv /\ HandledOK /\ LocksOK /\ OneSees
  BY DEF Inv, History
<1>2. PICK c \in FinalIds(S), r \in Representatives(S) :
          Stamp(S, c, r) /\ target' = [target EXCEPT ![w] = c]
  BY DEF Write
<1>3. /\ c \in ClusterIds /\ c # NoCluster
      /\ Members(c)' = S
      /\ \A d \in ClusterIds \ {c} :
            IF d \in IdsOf(S) THEN Members(d)' = {} ELSE Members(d)' = Members(d)
  BY <1>2, CommitEffect, NoClusterAssumption DEF Write, Inv
<1>4. /\ blob' = blob /\ emitted' = emitted /\ queue' = queue /\ dead' = dead
      /\ self' = self /\ outgoing' = outgoing /\ pc[w] = "write"
      /\ pc' = [pc EXCEPT ![w] = "build"]
  BY DEF Write, sqs
<1>5. pc'[w] = "build" /\ target'[w] = c
  BY <1>1, <1>2, <1>4 DEF TypeInv, TypeOK
<1>6. \A v \in Workers : v # w => pc'[v] = pc[v] /\ target'[v] = target[v]
  BY <1>1, <1>2, <1>4 DEF TypeInv, TypeOK
<1>7. /\ S \subseteq Articles
      /\ \A a \in Articles : cluster'[a] = IF a \in S THEN c ELSE cluster[a]
  BY <1>2 DEF Stamp, Locked
<1>8. /\ Seeds(w) \subseteq S /\ self[w] \in S /\ Wanted(w) = S
      /\ self[w] \in visible
      /\ matched[w] \subseteq (Similar[self[w]] \cap visible) \ {self[w]}
      /\ \A x \in S : x \in Seeds(w) \/ \E s \in Seeds(w) : Joined(s, x)
  BY <1>1, <1>4 DEF LocksOK, LockedFor, HandledOK, Handled, Seeds, Wanted, Past
<1>9. ASSUME NEW x \in S, Fresh(x)
      PROVE  ToldOrOwed(c)'
  <2>1. x \in queue' \cup dead' /\ cluster'[x] = c /\ x \in Members(c)'
    BY <1>3, <1>4, <1>7, <1>9 DEF Fresh
  <2>2. ASSUME NEW v \in Workers, self'[v] = x, pc'[v] \in Written
        PROVE  pc'[v] = "build" /\ target'[v] = cluster'[x]
    <3>1. v = w
      BY <1>4, <1>6, <1>9, <2>2 DEF Fresh
    <3>2. QED
      BY <1>5, <2>1, <3>1
  <2>3. Settles(x)'
    BY <2>1, <2>2 DEF Settles
  <2>4. QED
    BY <2>1, <2>3 DEF ToldOrOwed
<1>10. ASSUME cluster[self[w]] = NoCluster
       PROVE  ToldOrOwed(c)'
  BY <1>1, <1>8, <1>9, <1>10, UnclusteredIsFresh
<1>11. ASSUME self[w] \in MatchedBack, \E y \in matched[w] : ~Joined(self[w], y)
       PROVE  ToldOrOwed(c)'
  <2>1. PICK y \in matched[w] : ~Joined(self[w], y)
    BY <1>11
  <2>2. /\ y \in visible /\ y # self[w] /\ y \in Similar[self[w]] /\ y \in S
    BY <1>8, <2>1 DEF Seeds
  <2>3. Fresh(self[w]) \/ Fresh(y)
    BY <1>1, <1>8, <1>11, <2>1, <2>2, ApartIsFresh
  <2>4. QED
    BY <1>8, <1>9, <2>2, <2>3
<1>12. ASSUME cluster[self[w]] # NoCluster, S \subseteq MatchedBack,
              \A y \in matched[w] : Joined(self[w], y)
       PROVE  ToldOrOwed(c)'
  <2>1. ASSUME NEW x \in S PROVE cluster[x] = cluster[self[w]]
    <3>1. \A s \in Seeds(w) : cluster[s] = cluster[self[w]]
      BY <1>12 DEF Seeds, Joined
    <3>2. QED
      BY <1>8, <3>1 DEF Joined
  <2>2. IdsOf(S) = {cluster[self[w]]}
    BY <1>8, <1>12, <2>1 DEF IdsOf
  <2>3. c = cluster[self[w]]
    BY <2>2 DEF FinalIds, OldestIds
  <2>4. \A a \in Articles : cluster'[a] = cluster[a]
    BY <1>7, <2>1, <2>3
  <2>5. Members(c)' = Members(c) /\ c \in Live
    BY <1>3, <1>7, <1>8, <2>3, <2>4 DEF Members, Live
  <2>6. StoryOf(c)' = StoryOf(c)
    BY <1>4, <2>5 DEF StoryOf
  <2>7. ASSUME NEW x \in Members(c), Settles(x)
        PROVE  Settles(x)'
    <3>1. cluster[x] = c /\ cluster'[x] = c
      BY <2>4 DEF Members
    <3>2. QED
      BY <1>4, <1>5, <1>6, <2>6, <2>7, <3>1, SettlesKept
  <2>8. Members(c) \subseteq MatchedBack
    BY <1>3, <1>12, <2>5
  <2>9. QED
    BY <1>4, <2>5, <2>6, <2>7, <2>8 DEF Told, ToldOrOwed
<1>13. ASSUME NEW d \in Live', d # c, Members(d)' \subseteq MatchedBack
       PROVE  ToldOrOwed(d)'
  <2>1. d \in ClusterIds /\ Members(d)' # {} /\ d # NoCluster
    <3>1. cluster' \in [Articles -> ClusterIds \cup {NoCluster}]
      BY NextTypeInv DEF Inv, TypeInv, TypeOK
    <3>2. QED
      BY <3>1 DEF Live, Members
  <2>2. Members(d)' = Members(d) /\ d \in Live
    BY <1>3, <1>13, <2>1 DEF Live, Members
  <2>3. StoryOf(d)' = StoryOf(d)
    BY <1>4, <2>2 DEF StoryOf
  <2>4. ASSUME NEW x \in Members(d), Settles(x)
        PROVE  Settles(x)'
    <3>1. cluster[x] = d /\ cluster'[x] = d
      BY <2>2 DEF Members
    <3>2. x \notin S
      BY <1>3, <1>7, <1>13, <3>1
    <3>3. x # self[w]
      BY <1>8, <3>2
    <3>4. QED
      BY <1>4, <1>6, <2>3, <2>4, <3>1, <3>3, SettlesKept
  <2>5. Members(d) \subseteq MatchedBack
    BY <1>13, <2>2
  <2>6. QED
    BY <1>4, <2>2, <2>3, <2>4, <2>5 DEF Told, ToldOrOwed
<1>14. ASSUME Members(c)' \subseteq MatchedBack
       PROVE  ToldOrOwed(c)'
  <2>1. S \subseteq MatchedBack /\ self[w] \in MatchedBack
    BY <1>3, <1>8, <1>14
  <2>2. QED
    BY <1>10, <1>11, <1>12, <2>1
<1>15. QED
  BY <1>13, <1>14 DEF Told, MatchedBack

(* A step of a worker that does not commit: unless it changes the story,   *)
(* whoever owes it goes on owing it, or announces it.                      *)
LEMMA OwedKept ==
    ASSUME TypeInv, NEW w \in Workers, StepOf(w), ~Write(w), cluster' = cluster,
           NEW d, StoryOf(d)' = StoryOf(d), ToldOrOwed(d)
    PROVE  ToldOrOwed(d)'
<1>1. /\ visible' = visible /\ dead' = dead /\ emitted \subseteq emitted'
      /\ \A a \in queue \ queue' : a = self[w] /\ pc[w] = "sent"
  BY WorkerStep
<1>2. CASE StoryOf(d) \in emitted
  BY <1>1, <1>2 DEF ToldOrOwed
<1>3. CASE \E x \in Members(d) : Settles(x)
  <2>1. PICK x \in Members(d) : Settles(x)
    BY <1>3
  <2>2. cluster[x] = d /\ cluster'[x] = d /\ x \in Members(d)'
    BY <2>1 DEF Members
  <2>3. CASE Send(w) /\ self[w] = x /\ x \notin dead
    <3>1. outgoing[w] = StoryOf(d)
      BY <2>1, <2>2, <2>3 DEF Settles, Send, Written
    <3>2. QED
      BY <2>3, <3>1 DEF Send, ToldOrOwed
  <2>4. CASE x \in dead
    BY <1>1, <2>2, <2>4 DEF Settles, ToldOrOwed
  <2>5. CASE ~(Send(w) /\ self[w] = x) /\ x \notin dead
    <3>1. x \in queue'
      BY <1>1, <2>1, <2>5 DEF Settles, Written
    <3>2. ASSUME NEW v \in Workers, self'[v] = x, pc'[v] \in Written
          PROVE  \/ /\ self[v] = x /\ pc[v] = pc'[v]
                    /\ target[v] = target'[v] /\ outgoing[v] = outgoing'[v]
                 \/ pc'[v] = "build" /\ target'[v] = d
                 \/ pc'[v] = "send" /\ outgoing'[v] = StoryOf(d)
      <4>1. CASE v # w
        BY <3>2, <4>1, OthersKept DEF OtherKept
      <4>2. CASE v = w /\ Build(w)
        <5>1. /\ self[w] = x /\ pc[w] = "build" /\ pc'[w] = "send"
              /\ outgoing'[w] = StoryOf(target[w])
          BY <3>2, <4>2 DEF Build, TypeInv, TypeOK
        <5>2. target[w] = d
          BY <2>1, <2>2, <2>5, <5>1 DEF Settles, Written
        <5>3. QED
          BY <4>2, <5>1, <5>2
      <4>3. CASE v = w /\ Send(w)
        BY <2>5, <3>2, <4>3 DEF Send
      <4>4. CASE v = w /\ ~Build(w) /\ ~Send(w)
        <5>1. pc'[w] \notin Written
          <6>1. CASE \E a \in Articles : Receive(w, a)
            BY <6>1 DEF Receive, Written, TypeInv, TypeOK
          <6>2. CASE Store(w) \/ Match(w) \/ Close(w)
            BY <6>2 DEF Store, Match, Close, Written, TypeInv, TypeOK
          <6>3. CASE (\E a \in Articles : Lock(w, a)) \/ Abort(w)
            BY <6>3 DEF Lock, Abort, InDeadlock, Deadlocked, Written, TypeInv, TypeOK
          <6>4. CASE Acknowledge(w) \/ Fail(w)
            BY <6>4 DEF Acknowledge, Fail, Forget, Written, TypeInv, TypeOK
          <6>5. QED
            BY <4>4, <6>1, <6>2, <6>3, <6>4 DEF StepOf, Work, GiveUp, Crash
        <5>2. QED
          BY <3>2, <4>4, <5>1
      <4>5. QED
        BY <4>1, <4>2, <4>3, <4>4
    <3>3. Settles(x)'
      BY <1>1, <2>1, <2>2, <3>1, <3>2, SettlesKept
    <3>4. QED
      BY <2>2, <3>3 DEF ToldOrOwed
  <2>6. QED
    BY <2>3, <2>4, <2>5
<1>4. QED
  BY <1>2, <1>3 DEF ToldOrOwed

(* Entities that are stored for the first time change the story, and are   *)
(* announced by the invocation that stored them, or one after it.          *)
LEMMA StoreTold ==
    ASSUME Inv, HandledOK, NEW w \in Workers, Store(w), self[w] \notin blob,
           NEW d, self[w] \in Members(d)
    PROVE  ToldOrOwed(d)'
<1>1. /\ self[w] \in visible /\ pc[w] = "store"
      /\ queue' = queue /\ dead' = dead /\ self' = self /\ cluster' = cluster
      /\ pc' = [pc EXCEPT ![w] = "match"]
  BY DEF Store, HandledOK, Handled, sqs, graph
<1>2. self[w] \in queue \cup dead
  BY <1>1 DEF HandledOK, Done
<1>3. ASSUME NEW v \in Workers, self'[v] = self[w], pc'[v] \in Written
      PROVE  FALSE
  <2>1. pc'[v] = IF v = w THEN "match" ELSE pc[v]
    BY <1>1 DEF Inv, TypeInv, TypeOK
  <2>2. QED
    BY <1>1, <1>3, <2>1 DEF HandledOK, Handled, Past, Written
<1>4. PICK x : x = self[w]
  OBVIOUS
<1>5. Settles(x)' /\ x \in Members(d)'
  BY <1>1, <1>2, <1>3, <1>4 DEF Settles, Members
<1>6. QED
  BY <1>5 DEF ToldOrOwed

(* Every step keeps a story told, or somebody who owes it.                 *)
LEMMA ToldStep ==
    ASSUME Inv, History, Told, [Next]_vars
    PROVE  Told'
<1>1. TypeInv /\ HandledOK
  BY DEF Inv, History
<1>2. CASE \E w \in Workers : Write(w)
  BY <1>2, WriteTold
<1>3. CASE ~ \E w \in Workers : Write(w)
  <2>1. cluster' = cluster
    BY <1>3, OnlyWriteStamps DEF graph
  <2>2. Live' = Live /\ \A d : Members(d)' = Members(d)
    BY <2>1 DEF Live, Members
  <2>3. ASSUME NEW d \in Live, Members(d) \subseteq MatchedBack
        PROVE  ToldOrOwed(d)'
    <3>1. ToldOrOwed(d)
      BY <2>3 DEF Told
    <3>2. CASE \E w \in Workers : StepOf(w)
      <4>1. PICK w \in Workers : StepOf(w)
        BY <3>2
      <4>2. CASE StoryOf(d)' = StoryOf(d)
        BY <1>1, <1>3, <2>1, <3>1, <4>1, <4>2, OwedKept
      <4>3. CASE StoryOf(d)' # StoryOf(d)
        <5>1. Members(d) \cap blob' # Members(d) \cap blob
          BY <2>2, <4>3 DEF StoryOf
        <5>2. Store(w)
          BY <1>3, <4>1, <5>1
             DEF StepOf, Work, Receive, Match, Lock, Close, Build, Send, Acknowledge, Abort,
                 GiveUp, Crash, Fail
        <5>3. self[w] \notin blob /\ self[w] \in Members(d)
          BY <5>1, <5>2 DEF Store
        <5>4. QED
          BY <1>1, <5>2, <5>3, StoreTold
      <4>4. QED
        BY <4>2, <4>3
    <3>3. CASE ~ \E w \in Workers : StepOf(w)
      <4>1. /\ blob' = blob /\ emitted' = emitted /\ UNCHANGED locals
            /\ dead \subseteq dead' /\ queue \subseteq queue' \cup dead'
        BY <3>3, EveryStep DEF Resolve, DeadLetter, vars, sqs
      <4>2. StoryOf(d)' = StoryOf(d)
        BY <2>2, <4>1 DEF StoryOf
      <4>3. ASSUME NEW x \in Members(d), Settles(x)
            PROVE  Settles(x)'
        <5>1. cluster[x] = d /\ cluster'[x] = d
          BY <2>1 DEF Members
        <5>2. QED
          BY <4>1, <4>2, <4>3, <5>1, SettlesKept DEF locals
      <4>4. QED
        BY <2>2, <3>1, <4>1, <4>2, <4>3 DEF ToldOrOwed
    <3>4. QED
      BY <3>2, <3>3
  <2>4. QED
    BY <2>2, <2>3 DEF Told
<1>4. QED
  BY <1>2, <1>3

(* A story whose matches are mutual was emitted in full as it stands, or   *)
(* the message of one of its members is still to be processed or was given *)
(* up on: of any number of articles and workers, though the read-back and  *)
(* the send happen after the locks are gone, and a crash may lose each.    *)
THEOREM NoStoryIsLost == Spec => []NoLostStory
<1>1. Init => Told
  BY DEF Init, Told, Live
<1>2. Inv /\ History /\ Told /\ [Next]_vars => Told'
  BY ToldStep
<1>3. Told => NoLostStory
  BY DEF Told, ToldOrOwed, Settles, NoLostStory
<1>4. QED
  BY HistoryInvariant, <1>1, <1>2, <1>3, PTL DEF Spec
=============================================================================
