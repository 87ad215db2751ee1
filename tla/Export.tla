------------------------------- MODULE Export -------------------------------
(***************************************************************************)
(* What a TAXII client learns of the graph.  Writers announce what they    *)
(* change and the watermark handler dates it (last_updated); a poll reads  *)
(* nodes, relations, reports and revocations in that order, page by page   *)
(* in elementId order, each page in a transaction of its own, marks what   *)
(* it serves as exported, and answers; the daily sweep revokes what was    *)
(* exported and no longer passes the gate.  Nothing orders these three.    *)
(* A poll reads at most MaxPages pages of a kind: what lies beyond them is *)
(* not in the answer, which says there is no more.                         *)
(*                                                                         *)
(* A client polls everything every time, or asks for what was added after  *)
(* the start of its last poll.  Instants are told apart by the client's    *)
(* polls alone: "old" is before the cursor it asks with, "due" after it,   *)
(* "new" after the start of the poll that is running.                      *)
(*                                                                         *)
(* What passes the gate depends on the confidence of an object and on the  *)
(* floor, a knob an invocation takes when it starts.  Of the nodes only    *)
(* the provisional ones, never exported, have a confidence that changes    *)
(* and may be flagged for pruning; the confidence of a relation decays.    *)
(*                                                                         *)
(* A definition marked "Mistake" is a plausible bug; the mutation runs put *)
(* it in place of the definition after it, to show a property notices.     *)
(***************************************************************************)
EXTENDS Naturals, FiniteSets

CONSTANTS
    Nodes,        \* CVEs, actors, techniques: what the confidence gate is for
    Provisional,  \* those of them that are not verified
    Relations,    \* assertion edges
    Articles,     \* exported as reports, without a confidence
    Weak,         \* scored between the two values the floor may have
    ElementId,    \* Neo4j's elementIds: the order pages are read in
    Mentions,     \* what an article mentions
    Nobody,       \* no invocation running
    Batch,        \* rows of a page
    MaxPages,     \* pages of a kind that a poll reads
    MaxWrites,    \* bound: changes of the graph and of the floor
    MaxFaults     \* bound: lost and repeated announcements, failed polls

Objects == Nodes \cup Relations \cup Articles
Scored == Nodes \cup Relations
Eras == {"old", "due", "new"}
Events == [object : Objects, era : Eras]
Sweeps == [era : Eras, strict : BOOLEAN]
Steps == {"nodes", "relations", "reports", "revoked"}

ASSUME ObjectsAssumption ==
    /\ Nodes \cap Relations = {} /\ Scored \cap Articles = {}
    /\ Provisional \subseteq Nodes /\ Weak \subseteq Scored
    /\ IsFiniteSet(Objects)
ASSUME ElementIdAssumption == ElementId \in [Objects -> Nat]
ASSUME NobodyAssumption == Nobody \notin Events \cup Sweeps
ASSUME PagesAssumption == Batch \in Nat \ {0} /\ MaxPages \in Nat \ {0}
ASSUME MentionsAssumption == Mentions \in [Articles -> SUBSET Nodes]
ASSUME BoundsAssumption == MaxWrites \in Nat /\ MaxFaults \in Nat

VARIABLES
    version,    \* how often an object was written
    faded,      \* relations decayed below any floor
    strict,     \* export_confidence_floor has the higher of its values
    updated,    \* last_updated
    exported, revoked,   \* the flags of that name
    writes,     \* changes so far, bounded by MaxWrites
    events,     \* announcements in flight: of what, written when
    stamper,    \* the watermark invocation: what it dates, and how
    sweep,      \* the withdrawal phase: the instant and the floor it took
    poll,       \* the poll: its step, the floor it took, the pages read and
                \* the ids up to the cursor, what it has to mark, what it
                \* found, and what it left
    asked,      \* the client has polled before
    incremental, \* it asks for what is new since
    held,       \* the client's copies: a version, or what it was told is gone
    faults,     \* bounded by MaxFaults
    gap,        \* history: objects whose date was left behind
    missed      \* history: rows that answers left beyond their last page

graph == <<version, faded, strict, writes>>
flags == <<exported, revoked>>
client == <<asked, incremental, held, missed>>
vars == <<graph, updated, flags, events, stamper, sweep, poll, client,
          faults, gap>>

Versions == 0..MaxWrites
Unknown == MaxWrites + 1   \* the client has never seen it
Gone == MaxWrites + 2      \* the client was told it is revoked

NoPoll == [at |-> "idle", strict |-> FALSE, pages |-> 0, seen |-> {},
           mark |-> {}, found |-> {}, left |-> {}]
Found == Objects \X (Versions \cup {Gone})

Init ==
    /\ version = [o \in Objects |-> 0]
    /\ faded = {} /\ strict = FALSE
    /\ updated = [o \in Objects |-> "never"]
    /\ exported = {} /\ revoked = {}
    /\ writes = 0
    /\ events = {}
    /\ stamper = Nobody
    /\ sweep = Nobody
    /\ poll = NoPoll
    /\ asked = FALSE
    /\ incremental \in BOOLEAN
    /\ held = [o \in Objects |-> Unknown]
    /\ faults = 0
    /\ gap = {} /\ missed = {}

(***************************************************************************)
(* The graph changes.                                                      *)
(***************************************************************************)
Change == writes < MaxWrites /\ writes' = writes + 1

\* What is below the floor, whichever of its values that has.
Below(floor) == faded \cup (IF floor THEN Weak ELSE {})

(* A write that is announced after its commit, unless its writer dies; a   *)
(* relation may regain its confidence by it.                               *)
Write(o) ==
    /\ Change
    /\ version' = [version EXCEPT ![o] = @ + 1]
    /\ faded' \in {faded, faded \ {o}}
    /\ \/ /\ events' = events \cup {[object |-> o, era |-> "new"]}
          /\ UNCHANGED <<gap, faults>>
       \/ /\ faults < MaxFaults /\ faults' = faults + 1
          /\ gap' = gap \cup {o}
          /\ UNCHANGED events
    /\ UNCHANGED <<strict, updated, flags, stamper, sweep, poll, client>>

(* The sweep's decay announces nothing: confidence falls, or rises where   *)
(* it puts right what a stale decay has overwritten.                       *)
Decay(r) ==
    /\ Change
    /\ faded' = IF r \in faded THEN faded \ {r} ELSE faded \cup {r}
    /\ gap' = IF r \in faded THEN gap \cup {r} ELSE gap
    /\ UNCHANGED <<version, strict, updated, flags, events, stamper, sweep, poll,
                   client, faults>>

(* The knob is set to its other value, for the invocations that follow.    *)
MoveFloor ==
    /\ Change
    /\ strict' = ~strict
    /\ gap' = IF strict THEN gap \cup Weak ELSE gap
    /\ UNCHANGED <<version, faded, updated, flags, events, stamper, sweep, poll,
                   client, faults>>

(***************************************************************************)
(* The watermark handler.  A relation's event carries the instant of its   *)
(* publication; a node's and an article's do not, they are dated by the    *)
(* handler's own clock.  SNS delivers in any order, and more than once.    *)
(***************************************************************************)
ReceiveEvent ==
    /\ stamper = Nobody
    /\ \E e \in events :
           /\ stamper' = e
           /\ \/ /\ events' = events \ {e}
                 /\ UNCHANGED faults
              \/ /\ faults < MaxFaults /\ faults' = faults + 1
                 /\ UNCHANGED events
    /\ UNCHANGED <<graph, updated, flags, sweep, poll, client, gap>>

\* Mistake: an object is dated when it is first seen.
StampedOnce == IF updated[stamper.object] = "never" THEN stamper.era
                                                    ELSE updated[stamper.object]
(* _STAMP_NODE, _STAMP_EDGE: whatever date was there.                      *)
Stamped == stamper.era

Stamp ==
    /\ stamper # Nobody
    /\ updated' = [updated EXCEPT ![stamper.object] = Stamped]
    /\ stamper' = Nobody
    /\ UNCHANGED <<graph, flags, events, sweep, poll, client, faults, gap>>

(***************************************************************************)
(* The stix_withdrawal phase of the sweep.  It takes the time and the      *)
(* floor first; its page of exported nodes and their revocation are one    *)
(* transaction, and the phase is started again until no page is left.      *)
(***************************************************************************)
SweepStart ==
    /\ sweep = Nobody
    /\ sweep' = [era |-> "new", strict |-> strict]
    /\ UNCHANGED <<graph, updated, flags, events, stamper, poll, client,
                   faults, gap>>

\* Mistake: relations are scanned for as well.
GatedOutAny == exported \cap (Below(sweep.strict) \cup Articles)
(* Only nodes are scanned; an article has no confidence, which counts as   *)
(* the lowest.                                                             *)
GatedOut == exported \cap ((Below(sweep.strict) \cap Nodes) \cup Articles)

\* Mistake: the flag is set to what the gate says, as prune_candidate is.
RevokedWhileLow == (revoked \cup GatedOut) \cap (Below(sweep.strict) \cup Articles)
(* Nothing clears it.                                                      *)
RevokedNow == revoked \cup GatedOut

SweepRevoke ==
    /\ sweep # Nobody
    /\ revoked' = RevokedNow
    /\ exported' = exported \ GatedOut
    /\ updated' = [o \in Objects |-> IF o \in GatedOut THEN sweep.era
                                                       ELSE updated[o]]
    /\ sweep' = Nobody
    /\ UNCHANGED <<graph, events, stamper, poll, client, faults, gap>>

(***************************************************************************)
(* A poll.                                                                 *)
(***************************************************************************)
\* Time passes the start of a poll, its end, its failure.
Started == [era \in Eras |-> IF era = "new" THEN "due" ELSE era]
Ended == [era \in Eras |-> IF era = "due" THEN "old" ELSE era]
Failed == [era \in Eras |-> IF era = "due" THEN "new" ELSE era]
Redate(R) ==
    /\ updated' = [o \in Objects |-> IF updated[o] = "never" THEN "never" ELSE R[updated[o]]]
    /\ events' = {[e EXCEPT !.era = IF e.object \in Relations THEN R[@] ELSE @] :
                      e \in events}
    /\ stamper' = IF stamper = Nobody THEN Nobody ELSE [stamper EXCEPT !.era = R[@]]
    /\ sweep' = IF sweep = Nobody THEN Nobody ELSE [sweep EXCEPT !.era = R[@]]

(* What is dated, but not yet visible as such, will be before the cursor.  *)
InFlight ==
    {e.object : e \in {e \in events : e.object \in Relations}}
    \cup (IF stamper = Nobody THEN {} ELSE {stamper.object})
    \cup (IF sweep = Nobody THEN {} ELSE Nodes)

PollStart ==
    /\ poll = NoPoll
    /\ poll' = [NoPoll EXCEPT !.at = "nodes", !.strict = strict]
    /\ Redate(Started)
    /\ gap' = gap \cup InFlight
    /\ UNCHANGED <<graph, flags, client, faults>>

After(o) == ~incremental \/ ~asked \/ updated[o] \in {"due", "new"}

(* _FETCH_NODES; _FETCH_EDGES looks at neither flag nor end points.        *)
PassesFloor(o, floor) == o \notin Below(floor) /\ o \notin Provisional /\ o \notin revoked
Passes(o) == PassesFloor(o, strict)

\* Mistake: the page of revocations passes the gate as well.
RevokedPassing == {o \in revoked : o \notin Below(poll.strict) /\ After(o)}
(* _FETCH_REVOKED_NODES.                                                   *)
RevokedRows == {o \in revoked : After(o)}

(* What a step's query matches.  The reports come out of a scan of nodes   *)
(* of all kinds, at floor 0.                                               *)
Rows(step) ==
    CASE step = "nodes" -> {o \in Nodes : PassesFloor(o, poll.strict) /\ After(o)}
      [] step = "relations" -> {o \in Relations : PassesFloor(o, poll.strict) /\ After(o)}
      [] step = "reports" ->
             {o \in (Nodes \ Provisional) \cup Articles : o \notin revoked /\ After(o)}
      [] step = "revoked" -> RevokedRows

(* ORDER BY elementId LIMIT batch_size; the cursor is the last row's id.   *)
FirstOf(rows) ==
    {o \in rows : Cardinality({q \in rows : ElementId[q] < ElementId[o]}) < Batch}
UpTo(page) == {o \in Objects : \E q \in page : ElementId[o] <= ElementId[q]}

(* The rows a step is after: the scan for reports skips the others.        *)
Wanted(step, rows) == IF step = "reports" THEN rows \cap Articles ELSE rows

(* What is served of a page: an article needs something to refer to, a     *)
(* node that was ever exported; revocations are not marked.                *)
Served(step, page) ==
    CASE step = "reports" -> {a \in page \cap Articles : Mentions[a] \cap exported # {}}
      [] step = "revoked" -> {}
      [] OTHER -> page

NextStep(step) ==
    CASE step = "nodes" -> "relations" [] step = "relations" -> "reports"
      [] step = "reports" -> "revoked" [] step = "revoked" -> "answer"

(* A page is read in one transaction, and mapped.  An empty page ends the  *)
(* step, and so does the last of MaxPages pages.                           *)
ReadPage ==
    /\ poll.at \in Steps /\ poll.mark = {}
    /\ LET rows == Rows(poll.at) \ poll.seen
           page == FirstOf(rows)
           over == rows = {} \/ poll.pages + 1 = MaxPages
           gone == IF poll.at = "revoked" THEN page ELSE {}
       IN  poll' = [at |-> IF over THEN NextStep(poll.at) ELSE poll.at,
                    strict |-> poll.strict,
                    pages |-> IF over THEN 0 ELSE poll.pages + 1,
                    seen |-> IF over THEN {} ELSE UpTo(page),
                    mark |-> Served(poll.at, page),
                    found |-> {f \in poll.found : f[1] \notin gone}
                              \cup {<<o, version[o]>> : o \in Served(poll.at, page)}
                              \cup {<<o, Gone>> : o \in gone},
                    left |-> IF over THEN poll.left \cup (Wanted(poll.at, rows \ page) \X {poll.at})
                                     ELSE poll.left]
    /\ UNCHANGED <<graph, updated, flags, events, stamper, sweep, client,
                   faults, gap>>

(* mark_exported, one object at a time.                                    *)
MarkExported ==
    /\ \E o \in poll.mark :
           /\ exported' = exported \cup {o}
           /\ poll' = [poll EXCEPT !.mark = @ \ {o}]
    /\ UNCHANGED <<graph, updated, revoked, events, stamper, sweep, client,
                   faults, gap>>

(* The client takes the objects in the order of the answer.                *)
Answer ==
    /\ poll.at = "answer" /\ poll.mark = {}
    /\ held' = [o \in Objects |-> IF \E f \in poll.found : f[1] = o
                                  THEN (CHOOSE f \in poll.found : f[1] = o)[2]
                                  ELSE held[o]]
    /\ asked' = TRUE
    /\ missed' = {m \in missed : \A f \in poll.found : f[1] # m[1]} \cup poll.left
    /\ poll' = NoPoll
    /\ Redate(Ended)
    /\ UNCHANGED <<graph, flags, incremental, faults, gap>>

(* A poll fails: the client asks again with the cursor it had.             *)
PollFails ==
    /\ poll # NoPoll
    /\ faults < MaxFaults
    /\ faults' = faults + 1
    /\ poll' = NoPoll
    /\ Redate(Failed)
    /\ UNCHANGED <<graph, flags, client, gap>>

Polling == PollStart \/ ReadPage \/ MarkExported \/ Answer

Next ==
    \/ \E o \in Objects : Write(o)
    \/ \E r \in Relations : Decay(r)
    \/ MoveFloor
    \/ ReceiveEvent \/ Stamp
    \/ SweepStart \/ SweepRevoke
    \/ Polling \/ PollFails

Spec == Init /\ [][Next]_vars

(* The sweep runs every day, and the client goes on polling.               *)
Fairness == WF_vars(SweepStart \/ SweepRevoke) /\ WF_vars(Polling)
FairSpec == Spec /\ Fairness

-----------------------------------------------------------------------------
Polls == [at : {"idle", "answer"} \cup Steps, strict : BOOLEAN, pages : Nat,
          seen : SUBSET Objects, mark : SUBSET Objects, found : SUBSET Found,
          left : SUBSET (Objects \X Steps)]

TypeOK ==
    /\ version \in [Objects -> Versions]
    /\ faded \subseteq Relations /\ strict \in BOOLEAN
    /\ updated \in [Objects -> {"never"} \cup Eras]
    /\ exported \subseteq Objects /\ revoked \subseteq Nodes \cup Articles
    /\ writes \in Versions
    /\ events \subseteq Events
    /\ stamper \in {Nobody} \cup Events
    /\ sweep \in {Nobody} \cup Sweeps
    /\ poll \in Polls
    /\ asked \in BOOLEAN /\ incremental \in BOOLEAN
    /\ held \in [Objects -> Versions \cup {Unknown, Gone}]
    /\ faults \in 0..MaxFaults
    /\ gap \subseteq Objects /\ missed \subseteq Objects \X Steps
    /\ poll.at = "idle" => \A o \in Objects : updated[o] # "due"

(* A client that was told an object is revoked is never served it again,   *)
(* whatever the sweep did between two pages and however confidence changed *)
(* afterwards (queries.py: fetch_nodes_page; withdrawal.py: revoke_batch). *)
RevocationIsFinal ==
    [][\A o \in Objects : held[o] = Gone => held'[o] = Gone]_vars

(* Revoked rows only accumulate: these take the places of a revocation in  *)
(* every answer to a client that polls everything.                         *)
Ahead(o) == {x \in revoked : ElementId[x] < ElementId[o]}
CrowdedOut(o) == IF incremental THEN <<o, "revoked">> \in missed
                                ELSE Cardinality(Ahead(o)) >= Batch * MaxPages

(* A client does not keep a node that fell below the floor, unless there   *)
(* are more revocations than an answer holds: one that polls everything    *)
(* learns of those an answer has room for, an incremental one of all, but  *)
(* for those an answer left, or that the sweep dated before a poll and     *)
(* committed after it (queries.py: fetch_revoked_nodes_page).              *)
Kept(o) == held[o] \in Versions
Withdrawn ==
    <>[]\A o \in Nodes :
        Kept(o) /\ o \in Below(strict) => CrowdedOut(o) \/ (incremental /\ o \in gap)

(* When everything announced is dated and the client has polled since, it  *)
(* has the last version of every object that passes the gate, unless its   *)
(* row lay beyond the pages of an answer, its announcement was lost or was *)
(* not yet dated when a poll began, or it came above the floor without one *)
(* (watermark_handler.py; taxii_handler.py: added_after).                  *)
Settled ==
    /\ poll = NoPoll /\ asked /\ events = {} /\ stamper = Nobody
    /\ \A o \in Objects : updated[o] # "new"
UpToDate ==
    Settled =>
        \A o \in Scored : /\ Passes(o) /\ o \notin gap /\ updated[o] # "never"
                          /\ <<o, "nodes">> \notin missed /\ <<o, "relations">> \notin missed
                          => held[o] = version[o]

(* A report is not scored, so it is never withdrawn for its score          *)
(* (taxii_handler.py: "Articles aren't score-gated").                      *)
ReportsStay == revoked \cap Articles = {}
=============================================================================
