-------------------------- MODULE CveScoringProofs --------------------------
(***************************************************************************)
(* What holds of CveScoring for any weights, any scores the sources give,  *)
(* and any number of invocations, changes and failures.                    *)
(***************************************************************************)
EXTENDS CveScoring, TLAPS

(* A CVE is exploited by no more than there were changes.                  *)
ExploitersOK == facts.exploiters <= time

Inv == TypeOK /\ ExploitersOK

-----------------------------------------------------------------------------
(* The formula.                                                            *)

LEMMA KnobsType ==
    /\ WImpact \in Nat /\ WLikelihood \in Nat /\ WAdoption \in Nat
    /\ SaturationK \in Nat \ {0} /\ KevFloor \in Nat
    /\ MaxChanges \in Nat /\ MaxFails \in Nat
BY KnobsAssumption, BoundsAssumption

(* Multiplying by a weight keeps an order.                                 *)
LEMMA TimesMonotone ==
    ASSUME NEW a \in Nat, NEW x \in Nat, NEW y \in Nat, x <= y
    PROVE  a * x \in Nat /\ a * x <= a * y
<1>1. PICK d \in Nat : y = x + d
  <2>1. y - x \in Nat /\ y = x + (y - x)
    OBVIOUS
  <2>2. QED
    BY <2>1
<1>2. a * y = a * x + a * d
  BY <1>1
<1>3. a * x \in Nat /\ a * d \in Nat
  OBVIOUS
<1>4. QED
  BY <1>2, <1>3

(* So does dividing.                                                       *)
LEMMA DivMonotone ==
    ASSUME NEW k \in Nat \ {0}, NEW x \in Nat, NEW y \in Nat, x <= y
    PROVE  x \div k \in Nat /\ x \div k <= y \div k
<1>1. x \div k \in Nat /\ y \div k \in Nat
  OBVIOUS
<1>2. x = k * (x \div k) + (x % k) /\ y = k * (y \div k) + (y % k)
  OBVIOUS
<1>3. x % k \in 0..(k - 1) /\ y % k \in 0..(k - 1)
  OBVIOUS
<1>4. SUFFICES ASSUME x \div k > y \div k PROVE FALSE
  BY <1>1
<1>5. k * (y \div k + 1) <= k * (x \div k)
  BY <1>1, <1>4, TimesMonotone
<1>6. k * (y \div k + 1) = k * (y \div k) + k
  BY <1>1
<1>7. QED
  BY <1>1, <1>2, <1>3, <1>5, <1>6

(* Facts, with any number of exploiters.                                   *)
AnyFacts == [cvss : {Absent} \cup CvssScores, epss : {Absent} \cup EpssScores,
             exploited : BOOLEAN, exploiters : Nat]

LEMMA ScoreOrAbsent ==
    ASSUME NEW n \in Nat, NEW S, S \subseteq 0..n, NEW x \in {Absent} \cup S
    PROVE  x \in Int /\ (x # Absent => x \in 0..n)
BY DEF Absent

LEMMA FactsFields ==
    ASSUME NEW f \in AnyFacts
    PROVE  /\ f.cvss \in Int /\ (f.cvss # Absent => f.cvss \in 0..10)
           /\ f.epss \in Int /\ (f.epss # Absent => f.epss \in 0..100)
           /\ f.exploiters \in Nat
<1>1. f.cvss \in {Absent} \cup CvssScores /\ f.epss \in {Absent} \cup EpssScores
  BY DEF AnyFacts
<1>2. CvssScores \subseteq 0..10 /\ EpssScores \subseteq 0..100
  BY ScoresAssumption
<1>3. f.cvss \in Int /\ (f.cvss # Absent => f.cvss \in 0..10)
  BY <1>1, <1>2, ScoreOrAbsent
<1>4. f.epss \in Int /\ (f.epss # Absent => f.epss \in 0..100)
  <2> DEFINE e == f.epss
  <2>1. e \in {Absent} \cup EpssScores
    BY <1>1
  <2> HIDE DEF e
  <2>2. e \in Int /\ (e # Absent => e \in 0..100)
    BY <1>2, <2>1, ScoreOrAbsent
  <2>3. QED
    BY <2>2 DEF e
<1>5. f.exploiters \in Nat
  BY DEF AnyFacts
<1>6. QED
  BY <1>3, <1>4, <1>5

LEMMA LikelihoodType ==
    ASSUME NEW f \in AnyFacts
    PROVE  Likelihood(f) \in 0..100
BY FactsFields DEF Likelihood

(* More exploiters, no less adoption.                                      *)
LEMMA AdoptionMonotone ==
    ASSUME NEW f \in AnyFacts, NEW g \in AnyFacts, f.exploiters <= g.exploiters
    PROVE  Adoption(f) \in Nat /\ Adoption(f) <= Adoption(g)
<1> DEFINE F == 100 * f.exploiters
           G == 100 * g.exploiters
<1>1. F \in Nat /\ G \in Nat /\ F <= G
  BY FactsFields
<1>2. /\ F \div SaturationK \in Nat /\ G \div SaturationK \in Nat
      /\ F \div SaturationK <= G \div SaturationK
  BY <1>1, DivMonotone, KnobsType
<1>3. QED
  BY <1>2 DEF Adoption

(* The weighted sum never falls with what it is made of.                   *)
LEMMA WeightedMonotone ==
    ASSUME NEW f \in AnyFacts, NEW g \in AnyFacts,
           f.cvss # Absent, g.cvss # Absent, f.cvss <= g.cvss,
           Likelihood(f) <= Likelihood(g), f.exploiters <= g.exploiters
    PROVE  Weighted(f) \in Nat /\ Weighted(g) \in Nat /\ Weighted(f) <= Weighted(g)
<1> DEFINE If == 10 * f.cvss
           Ig == 10 * g.cvss
<1>1. If \in Nat /\ Ig \in Nat /\ If <= Ig
  BY FactsFields
<1>2. /\ WImpact * If \in Nat /\ WImpact * Ig \in Nat
      /\ WImpact * If <= WImpact * Ig
  BY <1>1, TimesMonotone, KnobsType
<1>3. /\ WLikelihood * Likelihood(f) \in Nat /\ WLikelihood * Likelihood(g) \in Nat
      /\ WLikelihood * Likelihood(f) <= WLikelihood * Likelihood(g)
  BY LikelihoodType, TimesMonotone, KnobsType
<1>4. Adoption(f) \in Nat /\ Adoption(g) \in Nat /\ Adoption(f) <= Adoption(g)
  BY AdoptionMonotone, FactsFields
<1>5. /\ WAdoption * Adoption(f) \in Nat /\ WAdoption * Adoption(g) \in Nat
      /\ WAdoption * Adoption(f) <= WAdoption * Adoption(g)
  BY <1>4, TimesMonotone, KnobsType
<1>6. QED
  BY <1>2, <1>3, <1>5 DEF Weighted

LEMMA WeightedType ==
    ASSUME NEW f \in AnyFacts, f.cvss # Absent
    PROVE  Weighted(f) \in Nat
BY WeightedMonotone, LikelihoodType, FactsFields

LEMMA SeverityType ==
    ASSUME NEW f \in AnyFacts
    PROVE  Severity(f) \in [score : Int, provisional : BOOLEAN]
<1>1. f.exploited \in BOOLEAN
  BY DEF AnyFacts
<1>2. KevFloor \in Int /\ Absent \in Int
  BY KnobsType DEF Absent
<1>3. CASE f.cvss = Absent
  <2>1. Severity(f) = [score |-> IF f.exploited THEN KevFloor ELSE Absent,
                       provisional |-> f.exploited]
    BY <1>3 DEF Severity
  <2>2. (IF f.exploited THEN KevFloor ELSE Absent) \in Int
    BY <1>2
  <2>3. QED
    BY <1>1, <2>1, <2>2
<1>4. CASE f.cvss # Absent
  <2>1. Weighted(f) \in Int
    BY <1>4, WeightedType
  <2>2. Severity(f) = [score |-> IF f.exploited THEN Larger(KevFloor, Weighted(f))
                                                ELSE Weighted(f),
                       provisional |-> f.epss = Absent]
    BY <1>4 DEF Severity
  <2>3. (IF f.exploited THEN Larger(KevFloor, Weighted(f)) ELSE Weighted(f)) \in Int
    BY <1>2, <2>1 DEF Larger
  <2>4. QED
    BY <2>2, <2>3
<1>5. QED
  BY <1>3, <1>4

(* What is worse in every respect is not scored lower.                     *)
LEMMA SeverityMonotone ==
    ASSUME NEW f \in AnyFacts, NEW g \in AnyFacts,
           f.cvss <= g.cvss, f.epss <= g.epss, f.exploited => g.exploited,
           f.exploiters <= g.exploiters
    PROVE  Severity(g).score >= Severity(f).score
<1>1. Likelihood(f) <= Likelihood(g)
  BY FactsFields DEF Likelihood, Absent
<1>2. CASE f.cvss = Absent /\ g.cvss = Absent
  BY <1>2, FactsFields, KnobsType DEF Severity, Absent
<1>3. CASE f.cvss = Absent /\ g.cvss # Absent
  <2>1. Weighted(g) \in Nat
    BY <1>3, WeightedType
  <2>2. QED
    BY <1>3, <2>1, FactsFields, KnobsType DEF Severity, Absent, Larger
<1>4. CASE f.cvss # Absent
  <2>1. g.cvss # Absent
    BY <1>4, FactsFields DEF Absent
  <2>2. Weighted(f) \in Nat /\ Weighted(g) \in Nat /\ Weighted(f) <= Weighted(g)
    BY <1>1, <1>4, <2>1, WeightedMonotone
  <2>3. QED
    BY <1>4, <2>1, <2>2, FactsFields, KnobsType DEF Severity, Larger
<1>5. QED
  BY <1>2, <1>3, <1>4

(* A graver fact is worse in one factor and better in none.                *)
LEMMA GraverIsWorse ==
    ASSUME NEW f \in AnyFacts, NEW g \in Graver(f)
    PROVE  /\ g \in AnyFacts
           /\ f.cvss <= g.cvss /\ f.epss <= g.epss
           /\ f.exploited => g.exploited
           /\ f.exploiters <= g.exploiters
<1>1. CASE g \in {[f EXCEPT !.cvss = s] : s \in {s \in CvssScores : s >= f.cvss}}
  BY <1>1, FactsFields, ScoresAssumption DEF AnyFacts
<1>2. CASE g \in {[f EXCEPT !.epss = e] : e \in {e \in EpssScores : e >= f.epss}}
  BY <1>2, FactsFields, ScoresAssumption DEF AnyFacts
<1>3. CASE g = [f EXCEPT !.exploited = TRUE]
  <2>1. /\ g.cvss = f.cvss /\ g.epss = f.epss /\ g.exploiters = f.exploiters
        /\ g.exploited = TRUE /\ g \in AnyFacts
    BY <1>3 DEF AnyFacts
  <2>2. f.cvss <= f.cvss /\ f.epss <= f.epss /\ f.exploiters <= f.exploiters
    BY FactsFields
  <2>3. QED
    BY <2>1, <2>2
<1>4. CASE g = [f EXCEPT !.exploiters = @ + 1]
  <2>1. /\ g.cvss = f.cvss /\ g.epss = f.epss /\ g.exploited = f.exploited
        /\ g.exploiters = f.exploiters + 1 /\ g \in AnyFacts
    BY <1>4 DEF AnyFacts
  <2>2. /\ f.cvss <= f.cvss /\ f.epss <= f.epss
        /\ f.exploiters <= f.exploiters + 1
    BY FactsFields
  <2>3. QED
    BY <2>1, <2>2
<1>5. QED
  BY <1>1, <1>2, <1>3, <1>4 DEF Graver

(* Over the facts of the type, a graver fact never scores lower.           *)
LEMMA InvImpliesEvidence == Inv => EvidenceNeverLowers
<1> SUFFICES ASSUME Inv, NEW g \in Graver(facts)
             PROVE  Severity(g).score >= Severity(facts).score
  BY DEF EvidenceNeverLowers
<1>1. facts \in AnyFacts
  BY BoundsAssumption DEF Inv, TypeOK, Facts, AnyFacts
<1>2. QED
  BY <1>1, GraverIsWorse, SeverityMonotone
-----------------------------------------------------------------------------
(* No step leaves the types.                                               *)

LEMMA InitInv == Init => Inv
<1> SUFFICES ASSUME Init PROVE Inv
  OBVIOUS
<1>1. Unknown \in Facts /\ Unknown \in AnyFacts
  BY KnobsType DEF Unknown, Facts, AnyFacts
<1>2. Severity(Unknown) \in [score : Int, provisional : BOOLEAN]
  BY <1>1, SeverityType
<1>3. Unranked \in Ranking
  BY KnobsType DEF Unranked, Ranking, Instants
<1>4. Rescan \in Message /\ Rescan.news = FALSE
  BY KnobsType DEF Rescan, Message, Instants
<1>5. TypeOK
  BY <1>1, <1>2, <1>3, <1>4, KnobsType, ProcsAssumption
     DEF Init, TypeOK, Instants, Procs
<1>6. ExploitersOK
  BY DEF Init, ExploitersOK, Unknown
<1>7. QED
  BY <1>5, <1>6 DEF Inv

(* What the writers of the facts have in common.                           *)
LEMMA ChangeInv ==
    ASSUME Inv, Change, facts' \in Facts, facts'.exploiters <= time + 1,
           credible' \in {0} \cup Credibilities, inbox' \subseteq Message
    PROVE  Inv'
<1>1. time' \in Instants /\ time' = time + 1
  BY KnobsType DEF Change, Inv, TypeOK, Instants
<1>2. TypeOK'
  BY <1>1 DEF Change, Inv, TypeOK
<1>3. ExploitersOK'
  BY <1>1 DEF ExploitersOK
<1>4. QED
  BY <1>2, <1>3 DEF Inv

LEMMA AnnounceType ==
    ASSUME Inv, time < MaxChanges, NEW news \in BOOLEAN,
           NEW kind \in {"fields", "mention", "exploited_by"}, Announce(kind, news)
    PROVE  inbox' \subseteq Message
<1>1. time + 1 \in Instants
  BY KnobsType DEF Inv, TypeOK, Instants
<1>2. [kind |-> kind, at |-> time + 1, news |-> news] \in Message
  BY <1>1 DEF Message
<1>3. inbox \subseteq Message
  BY DEF Inv, TypeOK
<1>4. QED
  BY <1>2, <1>3 DEF Announce

LEMMA FactsOf ==
    ASSUME Inv
    PROVE  /\ facts \in Facts /\ facts \in AnyFacts
           /\ facts.exploiters \in 0..MaxChanges /\ facts.exploiters <= time
           /\ time \in 0..MaxChanges
           /\ credible \in {0} \cup Credibilities /\ inbox \subseteq Message
BY KnobsType DEF Inv, TypeOK, ExploitersOK, Facts, AnyFacts, Instants

(* One lemma per operation: types, and who holds the node's lock.          *)
LEMMA WritersInv ==
    ASSUME Inv, NvdScores \/ KevLists \/ EpssRefresh \/ Assert \/ Mention
    PROVE  Inv'
<1>1. CASE NvdScores
  <2>1. facts' \in Facts /\ facts'.exploiters = facts.exploiters
    BY <1>1, FactsOf DEF NvdScores, Facts
  <2>2. inbox' \subseteq Message
    BY <1>1, AnnounceType DEF NvdScores, Change
  <2>3. QED
    BY <1>1, <2>1, <2>2, FactsOf, ChangeInv, KnobsType DEF NvdScores
<1>2. CASE KevLists
  <2>1. facts' \in Facts /\ facts'.exploiters = facts.exploiters
    BY <1>2, FactsOf DEF KevLists, Facts
  <2>2. inbox' \subseteq Message
    BY <1>2, AnnounceType DEF KevLists, Change
  <2>3. QED
    BY <1>2, <2>1, <2>2, FactsOf, ChangeInv, KnobsType DEF KevLists
<1>3. CASE EpssRefresh
  <2>1. facts' \in Facts /\ facts'.exploiters = facts.exploiters
    BY <1>3, FactsOf DEF EpssRefresh, Facts
  <2>2. QED
    BY <1>3, <2>1, FactsOf, ChangeInv, KnobsType DEF EpssRefresh
<1>4. CASE Assert
  <2>1. Change /\ time < MaxChanges /\ credible' = credible
    BY <1>4 DEF Assert, Change
  <2>2. CASE facts' = [facts EXCEPT !.exploiters = @ + 1] /\ Announce("exploited_by", TRUE)
    <3>1. facts.exploiters + 1 \in 0..MaxChanges
      BY <2>1, FactsOf, KnobsType
    <3>2. facts' \in Facts /\ facts'.exploiters = facts.exploiters + 1
      BY <2>2, <3>1, FactsOf DEF Facts
    <3>3. inbox' \subseteq Message
      BY <2>1, <2>2, AnnounceType
    <3>4. facts'.exploiters <= time + 1
      BY <3>2, FactsOf, KnobsType
    <3>5. QED
      BY <2>1, <3>2, <3>3, <3>4, FactsOf, ChangeInv
  <2>3. CASE facts' = facts /\ \E news \in BOOLEAN : Announce("exploited_by", news)
    <3>1. inbox' \subseteq Message
      BY <2>1, <2>3, AnnounceType
    <3>2. facts'.exploiters <= time + 1
      BY <2>3, FactsOf, KnobsType
    <3>3. QED
      BY <2>1, <2>3, <3>1, <3>2, FactsOf, ChangeInv
  <2>4. QED
    BY <1>4, <2>2, <2>3 DEF Assert
<1>5. CASE Mention
  <2>1. Change /\ time < MaxChanges /\ facts' = facts
    BY <1>5 DEF Mention, Change
  <2>2. inbox' \subseteq Message
    BY <1>5, <2>1, AnnounceType DEF Mention
  <2>3. credible' \in {0} \cup Credibilities
    BY <1>5, FactsOf DEF Mention, Larger
  <2>4. facts'.exploiters <= time + 1
    BY <2>1, FactsOf, KnobsType
  <2>5. QED
    BY <2>1, <2>2, <2>3, <2>4, FactsOf, ChangeInv
<1>6. QED
  BY <1>1, <1>2, <1>3, <1>4, <1>5

(* A step of a process leaves the facts alone, and so is well typed when   *)
(* what it does to the rest is.                                            *)
LEMMA StepInv ==
    ASSUME Inv, UNCHANGED World, TypeOK'
    PROVE  Inv'
BY DEF Inv, World, ExploitersOK

LEMMA TakeInv ==
    ASSUME Inv, NEW h \in Handlers, Take(h)
    PROVE  Inv'
<1>1. h \in Procs /\ h # Free
  BY ProcsAssumption DEF Procs
<1>2. PICK m \in inbox : job' = [job EXCEPT ![h] = m]
                         /\ Goto(h, IF m.kind = "fields" THEN "read" ELSE "open")
  BY DEF Take
<1>3. m \in Message
  BY <1>2 DEF Inv, TypeOK
<1>4. TypeOK'
  BY <1>1, <1>2, <1>3 DEF Take, Inv, TypeOK, Goto, World
<1>5. QED
  BY <1>4, StepInv DEF Take

LEMMA ScanInv ==
    ASSUME Inv, Scan
    PROVE  Inv'
<1>1. Sweep \in Procs
  BY DEF Procs
<1>2. TypeOK'
  BY <1>1 DEF Scan, Inv, TypeOK, Goto, World
<1>3. QED
  BY <1>2, StepInv DEF Scan

LEMMA LoseInv ==
    ASSUME Inv, Lose
    PROVE  Inv'
<1>1. TypeOK'
  BY DEF Lose, Inv, TypeOK, World
<1>2. QED
  BY <1>1, StepInv DEF Lose

LEMMA ReadFactsInv ==
    ASSUME Inv, NEW p \in Procs, ReadFacts(p)
    PROVE  Inv'
<1>1. TypeOK'
  BY DEF ReadFacts, Inv, TypeOK, Goto, World
<1>2. QED
  BY <1>1, StepInv DEF ReadFacts

LEMMA WriteSeverityInv ==
    ASSUME Inv, NEW p \in Procs, WriteSeverity(p)
    PROVE  Inv'
<1>1. seen[p] \in Facts /\ seen[p] \in AnyFacts
  BY KnobsType DEF Inv, TypeOK, Facts, AnyFacts
<1>2. Severity(seen[p]) \in [score : Int, provisional : BOOLEAN]
  BY <1>1, SeverityType
<1>3. Unknown \in Facts
  BY KnobsType DEF Unknown, Facts
<1>4. TypeOK'
  BY <1>2, <1>3 DEF WriteSeverity, Inv, TypeOK, Goto, World
<1>5. QED
  BY <1>4, StepInv DEF WriteSeverity

LEMMA OpenInv ==
    ASSUME Inv, NEW p \in Procs, Open(p)
    PROVE  Inv'
<1>1. TypeOK'
  BY ProcsAssumption DEF Open, Stamp, Inv, TypeOK, Goto, World, Procs
<1>2. QED
  BY <1>1, StepInv DEF Open

LEMMA ClockType ==
    ASSUME Inv, NEW p \in Procs
    PROVE  ClockAfter(p) \in Instants
<1>1. job[p].at \in Instants /\ clock \in Instants
  BY DEF Inv, TypeOK, Message
<1>2. QED
  BY <1>1 DEF ClockAfter, Larger

LEMMA WeighInv ==
    ASSUME Inv, NEW p \in Procs, Weigh(p)
    PROVE  Inv'
<1>1. RankAfter(p) \in Ranking
  BY ClockType, FactsOf DEF RankAfter, Ranking
<1>2. TypeOK'
  BY <1>1 DEF Weigh, Inv, TypeOK, Goto, World
<1>3. QED
  BY <1>2, StepInv DEF Weigh

LEMMA RankInv ==
    ASSUME Inv, NEW p \in Procs, Rank(p)
    PROVE  Inv'
<1>1. Unranked \in Ranking
  BY KnobsType DEF Unranked, Ranking, Instants
<1>2. job[p].at \in Instants /\ clock' \in Instants /\ heard' \subseteq Instants
  <2>1. job[p].at \in Instants
    BY DEF Inv, TypeOK, Message
  <2>2. QED
    BY <2>1, ClockType DEF Rank, Inv, TypeOK
<1>3. \A q \in Procs \ {p} : ~(pc[q] \in {"weigh", "rank"} /\ job[q].news)
  BY ProcsAssumption DEF Rank, Inv, TypeOK, Procs
<1>4. TypeOK'
  BY <1>1, <1>2, <1>3, ProcsAssumption DEF Rank, Inv, TypeOK, Goto, World, Procs
<1>5. QED
  BY <1>4, StepInv DEF Rank

LEMMA FinishInv ==
    ASSUME Inv, NEW p \in Procs, Finish(p)
    PROVE  Inv'
<1>1. Rescan \in Message
  BY KnobsType DEF Rescan, Message, Instants
<1>2. TypeOK'
  BY <1>1 DEF Finish, Inv, TypeOK, Goto, World
<1>3. QED
  BY <1>2, StepInv DEF Finish

LEMMA FailInv ==
    ASSUME Inv, NEW p \in Procs, Fail(p)
    PROVE  Inv'
<1>1. Rescan \in Message /\ Unknown \in Facts /\ Unranked \in Ranking
  BY KnobsType DEF Rescan, Message, Instants, Unknown, Facts, Unranked, Ranking
<1>2. fails' \in 0..MaxFails
  BY KnobsType DEF Fail, Inv, TypeOK
<1>3. TypeOK'
  BY <1>1, <1>2, ProcsAssumption DEF Fail, Inv, TypeOK, Goto, World, Procs
<1>4. QED
  BY <1>3, StepInv DEF Fail

(* Every step keeps the invariant.                                         *)
LEMMA NextInv == Inv /\ [Next]_vars => Inv'
<1> SUFFICES ASSUME Inv, [Next]_vars PROVE Inv'
  OBVIOUS
<1>1. CASE NvdScores \/ KevLists \/ EpssRefresh \/ Assert \/ Mention
  BY <1>1, WritersInv
<1>2. CASE Scan
  BY <1>2, ScanInv
<1>3. CASE Lose
  BY <1>3, LoseInv
<1>4. ASSUME NEW h \in Handlers, Take(h) PROVE Inv'
  BY <1>4, TakeInv
<1>5. ASSUME NEW p \in Procs, Step(p) PROVE Inv'
  BY <1>5, ReadFactsInv, WriteSeverityInv, OpenInv, WeighInv, RankInv, FinishInv
     DEF Step
<1>6. ASSUME NEW p \in Procs, Fail(p) PROVE Inv'
  BY <1>6, FailInv
<1>7. CASE UNCHANGED vars
  BY <1>7 DEF vars, Inv, TypeOK, ExploitersOK
<1>8. QED
  BY <1>1, <1>2, <1>3, <1>4, <1>5, <1>6, <1>7 DEF Next

LEMMA Invariance == Spec => []Inv
BY InitInv, NextInv, PTL DEF Spec

(* Every variable holds a value of its kind, and an invocation that has    *)
(* stamped the node holds its lock until it commits or fails.              *)
THEOREM TypeCorrect == Spec => []TypeOK
<1>1. Inv => TypeOK
  BY DEF Inv
<1>2. QED
  BY <1>1, Invariance, PTL

-----------------------------------------------------------------------------
(* The clock.                                                              *)

(* Ranking leaves the clock at the latest news handled.                    *)
LEMMA RankKeepsClock ==
    ASSUME Inv, ClockIsLatestNews, NEW p \in Procs, Rank(p)
    PROVE  ClockIsLatestNews'
<1>1. job[p].at \in Nat /\ clock \in Nat /\ heard \subseteq Nat
  BY KnobsType DEF Inv, TypeOK, Message, Instants
<1>2. CASE job[p].news
  <2>1. clock' = Larger(job[p].at, clock) /\ heard' = heard \cup {job[p].at}
    BY <1>2 DEF Rank, ClockAfter
  <2>2. QED
    BY <1>1, <2>1 DEF ClockIsLatestNews, Larger
<1>3. CASE ~job[p].news
  BY <1>3 DEF Rank, ClockAfter, ClockIsLatestNews
<1>4. QED
  BY <1>2, <1>3

(* The novelty clock is the latest news handled, in whatever order news    *)
(* was delivered and however often (significance.py: _STAMP).              *)
THEOREM ClockNeverWalksBack == Spec => []ClockIsLatestNews
<1>1. Init => ClockIsLatestNews
  BY DEF Init, ClockIsLatestNews
<1>2. Inv /\ ClockIsLatestNews /\ [Next]_vars => ClockIsLatestNews'
  <2> SUFFICES ASSUME Inv, ClockIsLatestNews, [Next]_vars
               PROVE  ClockIsLatestNews'
    OBVIOUS
  <2>1. ASSUME NEW p \in Procs, Rank(p) PROVE ClockIsLatestNews'
    BY <2>1, RankKeepsClock
  <2>2. CASE UNCHANGED <<clock, heard>>
    BY <2>2 DEF ClockIsLatestNews
  <2>3. (\E p \in Procs : Rank(p)) \/ UNCHANGED <<clock, heard>>
    BY DEF Next, Step, NvdScores, KevLists, EpssRefresh, Assert, Mention, Change,
           Scan, Lose, Take, ReadFacts, WriteSeverity, Open, Weigh, Finish, Fail,
           vars
  <2>4. QED
    BY <2>1, <2>2, <2>3
<1>3. QED
  BY <1>1, <1>2, Invariance, PTL DEF Spec

(* Whatever the weights, evidence never speaks for a CVE (formulas.py:     *)
(* severity): the weighted sum is monotone and the floor is only a floor.  *)
THEOREM EvidenceMonotone == Spec => []EvidenceNeverLowers
BY Invariance, InvImpliesEvidence, PTL
=============================================================================
