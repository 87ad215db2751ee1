----------------------------- MODULE CveScoring -----------------------------
(***************************************************************************)
(* The scores of one CVE: severity, relevance and the clock of its latest  *)
(* news.  Events recompute them soon after something has changed           *)
(* (scoring/event_handler.py), the daily sweep recomputes them whatever    *)
(* happened (scoring/sweep_handler.py).  Both read the facts and write the *)
(* score in one transaction without a lock, so of two recomputations the   *)
(* one that has read first may write last.                                 *)
(*                                                                         *)
(* Percentages are integers; a score is in hundredths of a percent.  Age   *)
(* enters relevance only as the clock it is computed from.                 *)
(*                                                                         *)
(* A definition marked "Mistake" is a plausible bug; the mutation runs put *)
(* it in place of the definition after it, to show a property notices.     *)
(***************************************************************************)
EXTENDS Naturals, Integers, FiniteSets

CONSTANTS
    Handlers,       \* concurrent invocations of the event handler
    Sweep,          \* the daily sweep
    Free,           \* nobody: the node is not locked
    CvssScores,     \* base scores NVD may give, 0..10
    EpssScores,     \* percentages EPSS may give
    Credibilities,  \* of the sources that mention the CVE, percentages
    WImpact, WLikelihood, WAdoption,   \* the weights, percentages
    SaturationK,    \* exploiters at which adoption is full
    KevFloor,       \* the least score of what is exploited in the wild
    MaxChanges,     \* bound: changes of the facts
    MaxFails        \* bound: invocations that fail

ASSUME ProcsAssumption ==
    /\ Sweep \notin Handlers
    /\ Free \notin Handlers \cup {Sweep}

ASSUME ScoresAssumption ==
    /\ CvssScores \subseteq 0..10
    /\ EpssScores \subseteq 0..100
    /\ Credibilities \subseteq 0..100

\* SeverityKnobs checks that the weights add up.
ASSUME KnobsAssumption ==
    /\ WImpact \in Nat /\ WLikelihood \in Nat /\ WAdoption \in Nat
    /\ WImpact + WLikelihood + WAdoption = 100
    /\ SaturationK \in Nat \ {0}
    /\ KevFloor \in 0..10000

ASSUME BoundsAssumption == MaxChanges \in Nat /\ MaxFails \in Nat

Procs == Handlers \cup {Sweep}
Absent == -1
Larger(x, y) == IF x >= y THEN x ELSE y

(***************************************************************************)
(* The formula.                                                            *)
(***************************************************************************)
Facts == [cvss : {Absent} \cup CvssScores, epss : {Absent} \cup EpssScores,
          exploited : BOOLEAN, exploiters : 0..MaxChanges]
Adoption(f) ==
    LET share == (100 * f.exploiters) \div SaturationK
    IN  IF share > 100 THEN 100 ELSE share
Likelihood(f) ==
    IF f.exploited THEN 100 ELSE IF f.epss = Absent THEN 0 ELSE f.epss
Weighted(f) ==
    WImpact * (10 * f.cvss) + WLikelihood * Likelihood(f) + WAdoption * Adoption(f)

\* Mistake: the floor only where there is nothing else.
SeverityWithoutFloor(f) ==
    IF f.cvss = Absent
    THEN [score |-> IF f.exploited THEN KevFloor ELSE Absent,
          provisional |-> f.exploited]
    ELSE [score |-> Weighted(f), provisional |-> f.epss = Absent]
(* severity(): nothing to compute from, the floor of a known exploited CVE *)
(* without a base score, or the weighted sum.                              *)
Severity(f) ==
    IF f.cvss = Absent
    THEN [score |-> IF f.exploited THEN KevFloor ELSE Absent,
          provisional |-> f.exploited]
    ELSE [score |-> IF f.exploited THEN Larger(KevFloor, Weighted(f))
                                   ELSE Weighted(f),
          provisional |-> f.epss = Absent]

(***************************************************************************)
(* State.                                                                  *)
(***************************************************************************)
VARIABLES
    facts,       \* what severity is computed from
    credible,    \* the highest credibility that mentions the CVE
    severity,    \* the stored severity
    clock,       \* last_significant_event, 0: none
    relevance,   \* what the stored relevance was computed from
    time,        \* counts the changes: the instant of the latest one
    inbox,       \* announcements on their way to the handlers
    locker,      \* who holds the CVE's node lock
    pc,          \* where each process is
    job,         \* the announcement it works on
    seen,        \* the facts it has read
    ranking,     \* what relevance it is about to store
    fails,       \* failures so far, bounded by MaxFails
    heard        \* history: the instants of the news that was handled

vars == <<facts, credible, severity, clock, relevance, time, inbox, locker,
          pc, job, seen, ranking, fails, heard>>

Instants == 0..MaxChanges
Message == [kind : {"fields", "mention", "exploited_by", "rescan"},
            at : Instants, news : BOOLEAN]
Rescan == [kind |-> "rescan", at |-> 0, news |-> FALSE]
Ranking == [clock : Instants, credible : {0} \cup Credibilities,
            degree : 0..MaxChanges]

Unknown == [cvss |-> Absent, epss |-> Absent, exploited |-> FALSE, exploiters |-> 0]
Unranked == [clock |-> 0, credible |-> 0, degree |-> 0]

Init ==
    /\ facts = Unknown
    /\ credible = 0
    /\ severity = Severity(Unknown)
    /\ clock = 0
    /\ relevance = Unranked
    /\ time = 0
    /\ inbox = {}
    /\ locker = Free
    /\ pc = [p \in Procs |-> "idle"]
    /\ job = [p \in Procs |-> Rescan]
    /\ seen = [p \in Procs |-> Unknown]
    /\ ranking = [p \in Procs |-> Unranked]
    /\ fails = 0
    /\ heard = {}

(***************************************************************************)
(* The writers of the facts.  Whoever commits a change announces it after- *)
(* wards, unless it dies first; and an announcement may be lost.           *)
(***************************************************************************)
Announce(kind, news) ==
    \E told \in BOOLEAN :
        inbox' = IF told
                 THEN inbox \cup {[kind |-> kind, at |-> time + 1, news |-> news]}
                 ELSE inbox

Change ==
    /\ locker = Free
    /\ time < MaxChanges
    /\ time' = time + 1
    /\ UNCHANGED <<severity, clock, relevance, locker, pc, job, seen, ranking,
                   fails, heard>>

(* NVD gives a score, never takes it away; announced when it has changed.  *)
NvdScores ==
    /\ Change
    /\ \E s \in CvssScores \ {facts.cvss} : facts' = [facts EXCEPT !.cvss = s]
    /\ Announce("fields", FALSE)
    /\ UNCHANGED credible

(* CISA lists the CVE; announced only when the flag flips.                 *)
KevLists ==
    /\ Change
    /\ ~facts.exploited
    /\ facts' = [facts EXCEPT !.exploited = TRUE]
    /\ Announce("fields", FALSE)
    /\ UNCHANGED credible

(* The daily EPSS file: announced to nobody.                               *)
EpssRefresh ==
    /\ Change
    /\ \E e \in EpssScores \ {facts.epss} : facts' = [facts EXCEPT !.epss = e]
    /\ UNCHANGED <<credible, inbox>>

(* An EXPLOITED_BY edge is created, or confirmed with or without news.     *)
Assert ==
    /\ Change
    /\ \/ /\ facts' = [facts EXCEPT !.exploiters = @ + 1]
          /\ Announce("exploited_by", TRUE)
       \/ /\ facts.exploiters > 0
          /\ \E news \in BOOLEAN : Announce("exploited_by", news)
          /\ UNCHANGED facts
    /\ UNCHANGED credible

(* An article mentions the CVE.                                            *)
Mention ==
    /\ Change
    /\ \E c \in Credibilities : credible' = Larger(c, credible)
    /\ Announce("mention", TRUE)
    /\ UNCHANGED facts

(***************************************************************************)
(* The event handler, and the sweep's two phases over this CVE.            *)
(***************************************************************************)
Goto(p, label) == pc' = [pc EXCEPT ![p] = label]
World == <<facts, credible, time>>

(* SNS invokes the handler.  The announcement stays until it is handled:   *)
(* it may be delivered more than once, and to two invocations at a time.   *)
Take(h) ==
    /\ pc[h] = "idle"
    /\ \E m \in inbox :
           /\ job' = [job EXCEPT ![h] = m]
           /\ Goto(h, IF m.kind = "fields" THEN "read" ELSE "open")
    /\ UNCHANGED <<World, severity, clock, relevance, inbox, locker, seen,
                   ranking, fails, heard>>

\* Mistake: the page of severity_rescan leaves out what has no base score.
ScorableScored == facts.cvss # Absent
(* The page of severity_rescan: only what has a score or is exploited.     *)
Scorable == facts.cvss # Absent \/ facts.exploited
Scan ==
    /\ pc[Sweep] = "idle"
    /\ Goto(Sweep, IF Scorable THEN "read" ELSE "open")
    /\ UNCHANGED <<World, severity, clock, relevance, inbox, locker, job, seen,
                   ranking, fails, heard>>

(* score_cve: read the facts ...                                           *)
ReadFacts(p) ==
    /\ pc[p] = "read"
    /\ seen' = [seen EXCEPT ![p] = facts]
    /\ Goto(p, "write")
    /\ UNCHANGED <<World, severity, clock, relevance, inbox, locker, job,
                   ranking, fails, heard>>

(* ... and write what follows from them, nulls included.                   *)
WriteSeverity(p) ==
    /\ pc[p] = "write"
    /\ locker = Free
    /\ severity' = Severity(seen[p])
    /\ seen' = [seen EXCEPT ![p] = Unknown]
    /\ Goto(p, IF p = Sweep THEN "open" ELSE "done")
    /\ UNCHANGED <<World, clock, relevance, inbox, locker, job, ranking, fails,
                   heard>>

\* Mistake: the last delivery sets the clock.
ClockSet(p) == IF job[p].news THEN job[p].at ELSE clock
(* _STAMP: the event's own instant, and never backwards.                   *)
ClockAfter(p) == IF job[p].news THEN Larger(job[p].at, clock) ELSE clock

\* Mistake: the stamp is a transaction of its own.
StampOnly(p) == Free
(* _score_endpoint begins: stamping locks the node until the commit.       *)
Stamp(p) == IF job[p].news THEN p ELSE locker
Open(p) ==
    /\ pc[p] = "open"
    /\ job[p].news => locker = Free
    /\ locker' = Stamp(p)
    /\ Goto(p, "weigh")
    /\ UNCHANGED <<World, severity, clock, relevance, inbox, job, seen, ranking,
                   fails, heard>>

(* score_entity reads its own transaction's stamp.                         *)
RankAfter(p) ==
    [clock |-> ClockAfter(p), credible |-> credible, degree |-> facts.exploiters]

Weigh(p) ==
    /\ pc[p] = "weigh"
    /\ ranking' = [ranking EXCEPT ![p] = RankAfter(p)]
    /\ Goto(p, "rank")
    /\ UNCHANGED <<World, severity, clock, relevance, inbox, locker, job, seen,
                   fails, heard>>

(* Relevance is written, and the stamp with it.                            *)
Rank(p) ==
    /\ pc[p] = "rank"
    /\ locker \in {Free, p}
    /\ relevance' = ranking[p]
    /\ ranking' = [ranking EXCEPT ![p] = Unranked]
    /\ clock' = ClockAfter(p)
    /\ heard' = IF job[p].news THEN heard \cup {job[p].at} ELSE heard
    /\ locker' = Free
    /\ Goto(p, IF job[p].kind = "exploited_by" THEN "read" ELSE "done")
    /\ UNCHANGED <<World, severity, inbox, job, seen, fails>>

(* The invocation ends; its announcement is handled, unless it is handed   *)
(* out once more.                                                          *)
Finish(p) ==
    /\ pc[p] = "done"
    /\ Goto(p, "idle")
    /\ inbox' = inbox \ {job[p]}
    /\ job' = [job EXCEPT ![p] = Rescan]
    /\ UNCHANGED <<World, severity, clock, relevance, locker, seen, ranking,
                   fails, heard>>

(* An invocation fails: its transaction is rolled back.                    *)
Fail(p) ==
    /\ pc[p] # "idle"
    /\ fails < MaxFails
    /\ fails' = fails + 1
    /\ locker' = IF locker = p THEN Free ELSE locker
    /\ Goto(p, "idle")
    /\ job' = [job EXCEPT ![p] = Rescan]
    /\ seen' = [seen EXCEPT ![p] = Unknown]
    /\ ranking' = [ranking EXCEPT ![p] = Unranked]
    /\ UNCHANGED <<World, severity, clock, relevance, inbox, heard>>

(* SNS gives up after two retries.                                         *)
Lose ==
    /\ \E m \in inbox : inbox' = inbox \ {m}
    /\ UNCHANGED <<World, severity, clock, relevance, locker, pc, job, seen,
                   ranking, fails, heard>>

Step(p) ==
    ReadFacts(p) \/ WriteSeverity(p) \/ Open(p) \/ Weigh(p) \/ Rank(p) \/ Finish(p)

Next ==
    \/ NvdScores \/ KevLists \/ EpssRefresh \/ Assert \/ Mention
    \/ Scan \/ Lose
    \/ \E h \in Handlers : Take(h)
    \/ \E p \in Procs : Step(p) \/ Fail(p)

Spec == Init /\ [][Next]_vars

(* The state machine starts the sweep every day and retries its phases,    *)
(* and an invocation that was started ends.  Nothing makes SNS deliver.    *)
Fairness ==
    /\ WF_vars(Scan)
    /\ \A p \in Procs : WF_vars(Step(p))
FairSpec == Spec /\ Fairness

-----------------------------------------------------------------------------
TypeOK ==
    /\ facts \in Facts
    /\ credible \in {0} \cup Credibilities
    /\ severity \in [score : Int, provisional : BOOLEAN]
    /\ clock \in Instants
    /\ relevance \in Ranking
    /\ time \in Instants
    /\ inbox \subseteq Message
    /\ locker \in Procs \cup {Free}
    /\ pc \in [Procs -> {"idle", "read", "write", "open", "weigh", "rank", "done"}]
    /\ job \in [Procs -> Message]
    /\ seen \in [Procs -> Facts]
    /\ ranking \in [Procs -> Ranking]
    /\ fails \in 0..MaxFails
    /\ heard \subseteq Instants
    /\ \A p \in Procs :
           locker = p <=> pc[p] \in {"weigh", "rank"} /\ job[p].news

(* The novelty clock is the instant of the latest news that was handled,   *)
(* in whatever order, how often and by how many invocations at a time news *)
(* was delivered (significance.py: stamp_significant_event).               *)
ClockIsLatestNews ==
    /\ clock \in heard \cup {0}
    /\ \A t \in heard : t <= clock

(* Evidence never speaks for a CVE: being scored higher, likelier, listed  *)
(* as exploited or exploited by one more never lowers its severity, nor    *)
(* does the base score that replaces the floor of a KEV entry (formulas.py:*)
(* severity).                                                              *)
Graver(f) ==
    {[f EXCEPT !.cvss = s] : s \in {s \in CvssScores : s >= f.cvss}}
    \cup {[f EXCEPT !.epss = e] : e \in {e \in EpssScores : e >= f.epss}}
    \cup {[f EXCEPT !.exploited = TRUE], [f EXCEPT !.exploiters = @ + 1]}
EvidenceNeverLowers ==
    \A g \in Graver(facts) : Severity(g).score >= Severity(facts).score

(* Whatever was lost, overtaken or computed from a view that was no longer *)
(* true, both stored scores end as those of the facts (event_handler.py:   *)
(* the events are an optimization, the sweep is the guarantee).            *)
ScoresSettle ==
    <>[](/\ severity = Severity(facts)
         /\ relevance = [clock |-> clock, credible |-> credible,
                         degree |-> facts.exploiters])
=============================================================================
