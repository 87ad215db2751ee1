---------------------------- MODULE ExportProofs ----------------------------
(***************************************************************************)
(* What holds of Export for any objects, any number of writes and of       *)
(* faults, any pages, and both kinds of client.                            *)
(***************************************************************************)
EXTENDS Export, TLAPS, FiniteSetTheorems

(* No more versions of an object than changes of the graph.                *)
Numbered == \A o \in Objects : version[o] \in 0..writes

(* Only what is dated at publication has a date that time can pass; and    *)
(* nothing is dated after the cursor of a poll that is not running.        *)
Dates ==
    /\ \A e \in events : e.object \notin Relations => e.era = "new"
    /\ poll.at = "idle" =>
           /\ \A e \in events : e.era # "due"
           /\ stamper # Nobody => stamper.era # "due"
           /\ sweep # Nobody => sweep.era # "due"

(* What the client was told is gone is revoked, and the answer it waits    *)
(* for says nothing else of it.                                            *)
GoneStays ==
    /\ \A o \in Objects : held[o] = Gone => o \in revoked
    /\ \A f \in poll.found : held[f[1]] = Gone => f[2] = Gone
    /\ \A f \in poll.found : f[2] = Gone => f[1] \in revoked
    /\ \A f, g \in poll.found : f[1] = g[1] /\ f[2] = Gone => g[2] = Gone
    /\ \A f \in poll.found : f[2] = Gone => poll.at \in {"revoked", "answer"}

Inv == TypeOK /\ Numbered /\ Dates /\ GoneStays

-----------------------------------------------------------------------------
LEMMA GoneIsNoVersion == Gone \notin Versions /\ Unknown # Gone
BY BoundsAssumption DEF Gone, Unknown, Versions

(* One lemma per operation: every variable keeps its type and no date      *)
(* falls between cursor and poll.                                          *)
LEMMA InitInv == Init => Inv
<1> SUFFICES ASSUME Init PROVE Inv
  OBVIOUS
<1>1. TypeOK
  <2>1. 0 \in Versions /\ 0 \in 0..MaxFaults
    BY BoundsAssumption DEF Versions
  <2>2. /\ version \in [Objects -> Versions]
        /\ updated \in [Objects -> {"never"} \cup Eras]
        /\ held \in [Objects -> Versions \cup {Unknown, Gone}]
        /\ \A o \in Objects : updated[o] # "due"
    BY <2>1 DEF Init
  <2>3. poll \in Polls
    BY DEF Init, NoPoll, Polls
  <2>4. QED
    BY <2>1, <2>2, <2>3 DEF Init, TypeOK
<1>2. Numbered /\ Dates
  BY DEF Init, Numbered, Dates
<1>3. GoneStays
  BY GoneIsNoVersion DEF Init, GoneStays, NoPoll
<1>4. QED
  BY <1>1, <1>2, <1>3 DEF Inv

-----------------------------------------------------------------------------
(* The writers.                                                            *)

LEMMA WriteInv ==
    ASSUME Inv, NEW o \in Objects, Write(o)
    PROVE  Inv'
<1>1. TypeOK /\ Numbered /\ Dates /\ GoneStays
  BY DEF Inv
<1>2. /\ UNCHANGED <<strict, updated, exported, revoked, stamper, sweep, poll,
                     asked, incremental, held, missed>>
      /\ writes < MaxWrites /\ writes' = writes + 1
      /\ version' = [version EXCEPT ![o] = @ + 1]
      /\ faded' \subseteq Relations /\ faults' \in 0..MaxFaults
  BY <1>1, BoundsAssumption DEF Write, Change, flags, client, TypeOK
<1>3. events' \subseteq events \cup {[object |-> o, era |-> "new"]}
  BY DEF Write
<1>4. gap' \subseteq Objects
  BY <1>1 DEF Write, TypeOK
<1>5. writes' \in Versions
  BY <1>1, <1>2, BoundsAssumption DEF TypeOK, Versions
<1>6. Numbered'
  BY <1>1, <1>2, BoundsAssumption DEF Numbered, TypeOK, Versions
<1>7. version' \in [Objects -> Versions]
  BY <1>1, <1>2, <1>5, <1>6, BoundsAssumption DEF Numbered, TypeOK, Versions
<1>8. events' \subseteq Events
  BY <1>1, <1>3 DEF TypeOK, Eras, Events
<1>9. TypeOK'
  BY <1>1, <1>2, <1>4, <1>5, <1>7, <1>8 DEF TypeOK
<1>10. Dates'
  BY <1>1, <1>2, <1>3 DEF Dates
<1>11. GoneStays'
  BY <1>1, <1>2 DEF GoneStays
<1>12. QED
  BY <1>6, <1>9, <1>10, <1>11 DEF Inv

LEMMA DecayInv ==
    ASSUME Inv, NEW r \in Relations, Decay(r)
    PROVE  Inv'
<1>1. TypeOK /\ Numbered /\ Dates /\ GoneStays
  BY DEF Inv
<1>2. /\ UNCHANGED <<version, strict, updated, exported, revoked, events, stamper,
                     sweep, poll, asked, incremental, held, missed, faults>>
      /\ writes < MaxWrites /\ writes' = writes + 1
  BY DEF Decay, Change, flags, client
<1>3. faded' \subseteq Relations /\ gap' \subseteq Objects
  BY <1>1 DEF Decay, TypeOK, Scored, Objects
<1>4. writes' \in Versions
  BY <1>1, <1>2, BoundsAssumption DEF TypeOK, Versions
<1>5. TypeOK'
  BY <1>1, <1>2, <1>3, <1>4 DEF TypeOK
<1>6. Numbered'
  BY <1>1, <1>2, BoundsAssumption DEF Numbered, TypeOK, Versions
<1>7. Dates' /\ GoneStays'
  BY <1>1, <1>2 DEF Dates, GoneStays
<1>8. QED
  BY <1>5, <1>6, <1>7 DEF Inv

LEMMA MoveFloorInv ==
    ASSUME Inv, MoveFloor
    PROVE  Inv'
<1>1. TypeOK /\ Numbered /\ Dates /\ GoneStays
  BY DEF Inv
<1>2. /\ UNCHANGED <<version, faded, updated, exported, revoked, events, stamper,
                     sweep, poll, asked, incremental, held, missed, faults>>
      /\ writes < MaxWrites /\ writes' = writes + 1
  BY DEF MoveFloor, Change, flags, client
<1>3. strict' \in BOOLEAN /\ gap' \subseteq Objects
  BY <1>1, ObjectsAssumption DEF MoveFloor, TypeOK, Scored, Objects
<1>4. writes' \in Versions
  BY <1>1, <1>2, BoundsAssumption DEF TypeOK, Versions
<1>5. TypeOK'
  BY <1>1, <1>2, <1>3, <1>4 DEF TypeOK
<1>6. Numbered'
  BY <1>1, <1>2, BoundsAssumption DEF Numbered, TypeOK, Versions
<1>7. Dates' /\ GoneStays'
  BY <1>1, <1>2 DEF Dates, GoneStays
<1>8. QED
  BY <1>5, <1>6, <1>7 DEF Inv

-----------------------------------------------------------------------------
(* The watermark handler and the sweep.                                    *)

LEMMA ReceiveInv ==
    ASSUME Inv, ReceiveEvent
    PROVE  Inv'
<1>1. TypeOK /\ Numbered /\ Dates /\ GoneStays
  BY DEF Inv
<1>2. /\ UNCHANGED <<version, faded, strict, writes, updated, exported, revoked, sweep, poll,
                     asked, incremental, held, missed, gap>>
      /\ stamper' \in events /\ events' \subseteq events
      /\ faults' \in 0..MaxFaults
  BY <1>1, BoundsAssumption DEF ReceiveEvent, graph, flags, client, TypeOK
<1>3. TypeOK'
  BY <1>1, <1>2 DEF TypeOK
<1>4. Numbered' /\ Dates' /\ GoneStays'
  BY <1>1, <1>2 DEF Numbered, Dates, GoneStays
<1>5. QED
  BY <1>3, <1>4 DEF Inv

LEMMA StampInv ==
    ASSUME Inv, Stamp
    PROVE  Inv'
<1>1. TypeOK /\ Numbered /\ Dates /\ GoneStays
  BY DEF Inv
<1>2. /\ UNCHANGED <<version, faded, strict, writes, exported, revoked, events, sweep, poll,
                     asked, incremental, held, missed, faults, gap>>
      /\ stamper' = Nobody /\ stamper # Nobody
      /\ updated' = [updated EXCEPT ![stamper.object] = stamper.era]
  BY DEF Stamp, Stamped, graph, flags, client
<1>3. stamper.era \in Eras /\ stamper.object \in Objects
  BY <1>1, <1>2 DEF TypeOK, Events
<1>4. updated' \in [Objects -> {"never"} \cup Eras]
  BY <1>1, <1>2, <1>3 DEF TypeOK
<1>5. poll.at = "idle" => \A o \in Objects : updated'[o] # "due"
  BY <1>1, <1>2 DEF TypeOK, Dates
<1>6. TypeOK'
  BY <1>1, <1>2, <1>4, <1>5 DEF TypeOK
<1>7. Numbered' /\ Dates' /\ GoneStays'
  BY <1>1, <1>2 DEF Numbered, Dates, GoneStays
<1>8. QED
  BY <1>6, <1>7 DEF Inv

LEMMA SweepStartInv ==
    ASSUME Inv, SweepStart
    PROVE  Inv'
<1>1. TypeOK /\ Numbered /\ Dates /\ GoneStays
  BY DEF Inv
<1>2. /\ UNCHANGED <<version, faded, strict, writes, updated, exported, revoked, events, stamper,
                     poll, asked, incremental, held, missed, faults, gap>>
      /\ sweep' = [era |-> "new", strict |-> strict]
  BY DEF SweepStart, graph, flags, client
<1>3. TypeOK'
  BY <1>1, <1>2 DEF TypeOK, Eras, Sweeps
<1>4. Numbered' /\ Dates' /\ GoneStays'
  BY <1>1, <1>2 DEF Numbered, Dates, GoneStays
<1>5. QED
  BY <1>3, <1>4 DEF Inv

LEMMA SweepRevokeInv ==
    ASSUME Inv, SweepRevoke
    PROVE  Inv'
<1>1. TypeOK /\ Numbered /\ Dates /\ GoneStays
  BY DEF Inv
<1>2. /\ UNCHANGED <<version, faded, strict, writes, events, stamper, poll,
                     asked, incremental, held, missed, faults, gap>>
      /\ sweep # Nobody /\ sweep' = Nobody
      /\ revoked' = revoked \cup GatedOut
      /\ exported' = exported \ GatedOut
      /\ updated' = [o \in Objects |-> IF o \in GatedOut THEN sweep.era ELSE updated[o]]
  BY DEF SweepRevoke, RevokedNow, graph, client
<1>3. GatedOut \subseteq Nodes \cup Articles
  BY DEF GatedOut
<1>4. updated' \in [Objects -> {"never"} \cup Eras]
  BY <1>1, <1>2 DEF TypeOK, Sweeps
<1>5. poll.at = "idle" => \A o \in Objects : updated'[o] # "due"
  BY <1>1, <1>2 DEF TypeOK, Dates
<1>6. TypeOK'
  BY <1>1, <1>2, <1>3, <1>4, <1>5 DEF TypeOK
<1>7. Numbered' /\ GoneStays'
  BY <1>1, <1>2 DEF Numbered, GoneStays
<1>8. Dates'
  BY <1>1, <1>2 DEF Dates
<1>9. QED
  BY <1>6, <1>7, <1>8 DEF Inv

-----------------------------------------------------------------------------
(* The poll.  Time goes by where it starts, answers or fails.              *)

Redated ==
    /\ updated' \in [Objects -> {"never"} \cup Eras]
    /\ events' \subseteq Events
    /\ stamper' \in {Nobody} \cup Events
    /\ sweep' \in {Nobody} \cup Sweeps
    /\ \A e \in events' : e.object \notin Relations => e.era = "new"

LEMMA RedateType ==
    ASSUME TypeOK, Dates, NEW R \in [Eras -> Eras], Redate(R)
    PROVE  Redated
<1>1. \A x \in Eras : R[x] \in Eras
  OBVIOUS
<1>2. /\ updated' = [o \in Objects |-> IF updated[o] = "never" THEN "never"
                                                           ELSE R[updated[o]]]
      /\ sweep' = IF sweep = Nobody THEN Nobody
                  ELSE [sweep EXCEPT !.era = R[sweep.era]]
      /\ stamper' = IF stamper = Nobody THEN Nobody
                    ELSE [stamper EXCEPT !.era = R[stamper.era]]
  BY DEF Redate
<1>3. \A e \in events' : \E d \in events :
          /\ e = [d EXCEPT !.era = IF d.object \in Relations THEN R[d.era] ELSE d.era]
  BY DEF Redate
<1>4. \A e \in events' : \E d \in events :
          /\ e \in Events /\ e.object = d.object
          /\ e.era = IF d.object \in Relations THEN R[d.era] ELSE d.era
  BY <1>1, <1>3 DEF TypeOK, Events
<1>5. /\ events' \subseteq Events
      /\ \A e \in events' : e.object \notin Relations => e.era = "new"
  BY <1>4 DEF Dates
<1>6. /\ updated' \in [Objects -> {"never"} \cup Eras]
      /\ sweep' \in {Nobody} \cup Sweeps
  BY <1>1, <1>2 DEF TypeOK, Sweeps
<1>7. stamper' \in {Nobody} \cup Events
  BY <1>1, <1>2 DEF TypeOK, Events
<1>8. QED
  BY <1>5, <1>6, <1>7 DEF Redated

(* Once the dates have moved on, nothing is due any more.                  *)
LEMMA RedateLeavesNoneDue ==
    ASSUME TypeOK, Dates, NEW R \in [Eras -> Eras \ {"due"}], Redate(R)
    PROVE  /\ Redated
           /\ \A o \in Objects : updated'[o] # "due"
           /\ \A e \in events' : e.era # "due"
           /\ stamper' # Nobody => stamper'.era # "due"
           /\ sweep' # Nobody => sweep'.era # "due"
<1>1. \A x \in Eras : R[x] \in Eras /\ R[x] # "due"
  OBVIOUS
<1>2. /\ updated' = [o \in Objects |-> IF updated[o] = "never" THEN "never"
                                                           ELSE R[updated[o]]]
      /\ sweep' = IF sweep = Nobody THEN Nobody
                  ELSE [sweep EXCEPT !.era = R[sweep.era]]
      /\ stamper' = IF stamper = Nobody THEN Nobody
                    ELSE [stamper EXCEPT !.era = R[stamper.era]]
  BY DEF Redate
<1>3. \A e \in events' : \E d \in events :
          /\ e = [d EXCEPT !.era = IF d.object \in Relations THEN R[d.era] ELSE d.era]
  BY DEF Redate
<1>4. \A e \in events' : \E d \in events :
          /\ e \in Events /\ e.object = d.object
          /\ e.era = IF d.object \in Relations THEN R[d.era] ELSE d.era
  BY <1>1, <1>3 DEF TypeOK, Events
<1>5. Redated
  <2>1. R \in [Eras -> Eras]
    OBVIOUS
  <2>2. QED
    BY <2>1, RedateType
<1>6. \A e \in events' : e.era # "due"
  BY <1>1, <1>4 DEF Dates, TypeOK, Events
<1>7. /\ \A o \in Objects : updated'[o] # "due"
      /\ sweep' # Nobody => sweep'.era # "due"
  BY <1>1, <1>2 DEF TypeOK, Sweeps
<1>8. stamper' # Nobody => stamper'.era # "due"
  BY <1>1, <1>2 DEF TypeOK, Events
<1>9. QED
  BY <1>5, <1>6, <1>7, <1>8

LEMMA TimePasses ==
    /\ Started \in [Eras -> Eras]
    /\ Ended \in [Eras -> Eras \ {"due"}] /\ Failed \in [Eras -> Eras \ {"due"}]
BY DEF Started, Ended, Failed, Eras

LEMMA PollStartInv ==
    ASSUME Inv, PollStart
    PROVE  Inv'
<1>1. TypeOK /\ Numbered /\ Dates /\ GoneStays
  BY DEF Inv
<1>2. /\ UNCHANGED <<version, faded, strict, writes, exported, revoked, asked, incremental,
                     held, missed, faults>>
      /\ Redate(Started) /\ gap' = gap \cup InFlight
      /\ poll' = [at |-> "nodes", strict |-> strict, pages |-> 0, seen |-> {},
                  mark |-> {}, found |-> {}, left |-> {}]
  BY DEF PollStart, NoPoll, graph, flags, client
<1>3. Redated
  BY <1>1, <1>2, TimePasses, RedateType
<1>4. InFlight \subseteq Objects
  BY <1>1 DEF InFlight, TypeOK, Objects, Events
<1>5. poll' \in Polls /\ poll'.at # "idle"
  BY <1>1, <1>2 DEF TypeOK, Polls, Steps
<1>6. TypeOK'
  BY <1>1, <1>2, <1>3, <1>4, <1>5 DEF TypeOK, Redated
<1>7. Numbered' /\ GoneStays'
  BY <1>1, <1>2 DEF Numbered, GoneStays
<1>8. Dates'
  BY <1>2, <1>3 DEF Dates, Redated
<1>9. QED
  BY <1>6, <1>7, <1>8 DEF Inv

(* A page is made of rows, and what is served of it are rows that may be.  *)
LEMMA ServedRows ==
    ASSUME TypeOK, poll.at \in Steps, NEW rows \in SUBSET Rows(poll.at)
    PROVE  /\ FirstOf(rows) \subseteq rows /\ rows \subseteq Objects
           /\ Served(poll.at, FirstOf(rows)) \subseteq rows
           /\ poll.at = "revoked" => /\ rows \subseteq revoked
                                     /\ Served(poll.at, FirstOf(rows)) = {}
           /\ poll.at # "revoked" => rows \cap revoked = {}
<1>1. FirstOf(rows) \subseteq rows
  BY DEF FirstOf
<1>2. CASE poll.at = "nodes"
  BY <1>1, <1>2 DEF Rows, Served, PassesFloor, Objects
<1>3. CASE poll.at = "relations"
  BY <1>1, <1>3 DEF Rows, Served, PassesFloor, Objects
<1>4. CASE poll.at = "reports"
  BY <1>1, <1>4 DEF Rows, Served, Objects
<1>5. CASE poll.at = "revoked"
  BY <1>1, <1>5 DEF Rows, RevokedRows, Served, Objects, TypeOK
<1>6. QED
  BY <1>2, <1>3, <1>4, <1>5 DEF Steps

(* What is found of a page: versions of objects that are not revoked, or   *)
(* revocations, which replace what was found before.                       *)
LEMMA ReadPageInv ==
    ASSUME Inv, ReadPage
    PROVE  Inv'
<1> DEFINE rows == Rows(poll.at) \ poll.seen
           page == FirstOf(rows)
           mark == Served(poll.at, page)
           gone == IF poll.at = "revoked" THEN page ELSE {}
           over == rows = {} \/ poll.pages + 1 = MaxPages
           left == Wanted(poll.at, rows \ page) \X {poll.at}
<1>1. TypeOK /\ Numbered /\ Dates /\ GoneStays
  BY DEF Inv
<1>2. /\ UNCHANGED <<version, faded, strict, writes, updated, exported, revoked, events,
                     stamper, sweep, asked, incremental, held, missed, faults, gap>>
      /\ poll.at \in Steps
      /\ poll' = [at |-> IF over THEN NextStep(poll.at) ELSE poll.at,
                  strict |-> poll.strict,
                  pages |-> IF over THEN 0 ELSE poll.pages + 1,
                  seen |-> IF over THEN {} ELSE UpTo(page),
                  mark |-> mark,
                  found |-> {f \in poll.found : f[1] \notin gone}
                            \cup {<<o, version[o]>> : o \in mark}
                            \cup {<<o, Gone>> : o \in gone},
                  left |-> IF over THEN poll.left \cup left ELSE poll.left]
  BY DEF ReadPage, graph, flags, client
<1>3. /\ page \subseteq rows /\ rows \subseteq Objects /\ mark \subseteq rows
      /\ poll.at = "revoked" => rows \subseteq revoked /\ mark = {}
      /\ poll.at # "revoked" => rows \cap revoked = {}
  BY <1>1, <1>2, ServedRows
<1>4. /\ poll'.at \in Steps \cup {"answer"}
      /\ poll.at = "revoked" => poll'.at \in {"revoked", "answer"}
  BY <1>2 DEF NextStep, Steps
<1>5. \A f \in poll'.found :
          \/ f \in poll.found /\ f[1] \notin gone
          \/ f[1] \in mark /\ f[2] = version[f[1]] /\ f = <<f[1], f[2]>>
          \/ f[1] \in gone /\ f[2] = Gone /\ f = <<f[1], f[2]>>
  <2> HIDE DEF mark, gone, rows, page, over, left
  <2>1. poll'.found = {f \in poll.found : f[1] \notin gone}
                      \cup {<<o, version[o]>> : o \in mark}
                      \cup {<<o, Gone>> : o \in gone}
    BY <1>2
  <2>2. QED
    BY <2>1
<1>6. TypeOK'
  <2>1. poll'.found \subseteq Found
    <3> HIDE DEF rows, page
    <3>1. poll.found \subseteq Found /\ mark \subseteq Objects /\ gone \subseteq Objects
      BY <1>1, <1>3 DEF TypeOK, Polls
    <3>2. \A o \in Objects : <<o, version[o]>> \in Found /\ <<o, Gone>> \in Found
      BY <1>1 DEF Found, TypeOK
    <3> HIDE DEF mark, gone
    <3>3. QED
      BY <1>5, <3>1, <3>2
  <2>2. poll'.left \subseteq Objects \X Steps
    <3>1. Wanted(poll.at, rows \ page) \subseteq Objects
      BY <1>3 DEF Wanted
    <3>2. QED
      BY <1>1, <1>2, <3>1 DEF TypeOK, Polls
  <2>3. poll'.pages \in Nat /\ poll'.seen \subseteq Objects
    BY <1>1, <1>2 DEF TypeOK, Polls, UpTo
  <2>4. poll' \in Polls
    <3> HIDE DEF rows, page, mark, gone, over, left
    <3>1. poll'.mark \subseteq Objects /\ poll'.strict \in BOOLEAN
      BY <1>1, <1>2, <1>3 DEF TypeOK, Polls
    <3>2. QED
      BY <1>2, <1>4, <2>1, <2>2, <2>3, <3>1 DEF Polls
  <2>5. poll'.at # "idle"
    BY <1>4 DEF Steps
  <2>6. QED
    BY <1>1, <1>2, <2>4, <2>5 DEF TypeOK
<1>7. Numbered' /\ Dates'
  BY <1>1, <1>2, <1>4 DEF Numbered, Dates, Steps
<1>8. GoneStays'
  <2> HIDE DEF rows, page, mark, over, left
  <2>1. CASE poll.at = "revoked"
    <3>1. gone \subseteq revoked /\ mark = {}
      BY <1>3, <2>1
    <3>2. \A f \in poll'.found :
              \/ f \in poll.found /\ f[1] \notin gone
              \/ f[1] \in gone /\ f[2] = Gone
      BY <1>5, <3>1
    <3> HIDE DEF gone
    <3>3. QED
      BY <1>1, <1>2, <1>4, <2>1, <3>1, <3>2 DEF GoneStays
  <2>2. CASE poll.at # "revoked"
    <3>1. \A o \in mark : o \in Objects /\ o \notin revoked /\ version[o] # Gone
      BY <1>1, <1>3, <2>2, GoneIsNoVersion DEF TypeOK
    <3>2. \A f \in poll'.found : f \in poll.found \/ (f[1] \in mark /\ f[2] = version[f[1]])
      BY <1>5, <2>2
    <3>3. poll.at \notin {"revoked", "answer"}
      BY <1>2, <2>2 DEF Steps
    <3>4. \A f \in poll.found : f[2] # Gone
      BY <1>1, <3>3 DEF GoneStays
    <3>5. \A f \in poll'.found : f[2] # Gone /\ held[f[1]] # Gone
      BY <1>1, <3>1, <3>2, <3>4 DEF GoneStays
    <3>6. QED
      BY <1>1, <1>2, <3>5 DEF GoneStays
  <2>3. QED
    BY <2>1, <2>2
<1>9. QED
  BY <1>6, <1>7, <1>8 DEF Inv

LEMMA MarkInv ==
    ASSUME Inv, MarkExported
    PROVE  Inv'
<1>1. TypeOK /\ Numbered /\ Dates /\ GoneStays
  BY DEF Inv
<1>2. PICK o \in poll.mark : /\ exported' = exported \cup {o}
                             /\ poll' = [poll EXCEPT !.mark = @ \ {o}]
  BY DEF MarkExported
<1>3. UNCHANGED <<version, faded, strict, writes, updated, revoked, events, stamper, sweep,
                  asked, incremental, held, missed, faults, gap>>
  BY DEF MarkExported, graph, client
<1>4. /\ poll'.at = poll.at /\ poll'.found = poll.found
      /\ poll' \in Polls
  BY <1>1, <1>2 DEF TypeOK, Polls
<1>5. TypeOK'
  <2>1. exported' \subseteq Objects
    BY <1>1, <1>2 DEF TypeOK, Polls
  <2>2. QED
    BY <1>1, <1>3, <1>4, <2>1 DEF TypeOK
<1>6. Numbered' /\ Dates' /\ GoneStays'
  BY <1>1, <1>3, <1>4 DEF Numbered, Dates, GoneStays
<1>7. QED
  BY <1>5, <1>6 DEF Inv

(* The client takes a version, or learns what is true, or keeps its own.   *)
LEMMA Answered ==
    ASSUME TypeOK, Answer, NEW o \in Objects
    PROVE  \/ /\ held'[o] = held[o]
              /\ \A f \in poll.found : f[1] # o
           \/ \E f \in poll.found : f[1] = o /\ held'[o] = f[2] /\ f \in Found
<1>1. held'[o] = IF \E f \in poll.found : f[1] = o
                 THEN (CHOOSE f \in poll.found : f[1] = o)[2]
                 ELSE held[o]
  BY DEF Answer
<1>2. QED
  BY <1>1 DEF TypeOK, Polls

LEMMA AnswerInv ==
    ASSUME Inv, Answer
    PROVE  Inv'
<1>1. TypeOK /\ Numbered /\ Dates /\ GoneStays
  BY DEF Inv
<1>2. /\ UNCHANGED <<version, faded, strict, writes, exported, revoked, incremental, faults, gap>>
      /\ Redate(Ended) /\ asked' = TRUE
      /\ poll' = NoPoll /\ missed' \subseteq missed \cup poll.left
  BY DEF Answer, graph, flags
<1>3. /\ Redated
      /\ \A o \in Objects : updated'[o] # "due"
      /\ \A e \in events' : e.era # "due"
      /\ stamper' # Nobody => stamper'.era # "due"
      /\ sweep' # Nobody => sweep'.era # "due"
  BY <1>1, <1>2, TimePasses, RedateLeavesNoneDue
<1>4. \A o \in Objects : held'[o] \in Versions \cup {Unknown, Gone}
  BY <1>1, Answered DEF TypeOK, Found
<1>5. held' \in [Objects -> Versions \cup {Unknown, Gone}]
  BY <1>4 DEF Answer
<1>6. TypeOK'
  BY <1>1, <1>2, <1>3, <1>5 DEF TypeOK, Redated, NoPoll, Polls
<1>7. Numbered' /\ Dates'
  BY <1>1, <1>2, <1>3 DEF Numbered, Dates, Redated, NoPoll
<1>8. GoneStays'
  <2>1. \A o \in Objects : held'[o] = Gone => o \in revoked
    BY <1>1, Answered DEF GoneStays
  <2>2. QED
    BY <1>2, <2>1 DEF GoneStays, NoPoll
<1>9. QED
  BY <1>6, <1>7, <1>8 DEF Inv

LEMMA PollFailsInv ==
    ASSUME Inv, PollFails
    PROVE  Inv'
<1>1. TypeOK /\ Numbered /\ Dates /\ GoneStays
  BY DEF Inv
<1>2. /\ UNCHANGED <<version, faded, strict, writes, exported, revoked, asked, incremental,
                     held, missed, gap>>
      /\ Redate(Failed) /\ faults < MaxFaults /\ faults' = faults + 1
      /\ poll' = NoPoll
  BY DEF PollFails, graph, flags, client
<1>3. /\ Redated
      /\ \A o \in Objects : updated'[o] # "due"
      /\ \A e \in events' : e.era # "due"
      /\ stamper' # Nobody => stamper'.era # "due"
      /\ sweep' # Nobody => sweep'.era # "due"
  BY <1>1, <1>2, TimePasses, RedateLeavesNoneDue
<1>4. faults' \in 0..MaxFaults
  BY <1>1, <1>2, BoundsAssumption DEF TypeOK
<1>5. TypeOK'
  <2>1. poll' \in Polls
    BY <1>2 DEF NoPoll, Polls
  <2>2. /\ updated' \in [Objects -> {"never"} \cup Eras]
        /\ events' \subseteq Events
        /\ stamper' \in {Nobody} \cup Events
        /\ sweep' \in {Nobody} \cup Sweeps
    BY <1>3 DEF Redated
  <2>3. QED
    BY <1>1, <1>2, <1>3, <1>4, <2>1, <2>2 DEF TypeOK
<1>6. Numbered' /\ Dates' /\ GoneStays'
  BY <1>1, <1>2, <1>3 DEF Numbered, Dates, GoneStays, Redated, NoPoll
<1>7. QED
  BY <1>5, <1>6 DEF Inv

-----------------------------------------------------------------------------
LEMMA NextInv == Inv /\ [Next]_vars => Inv'
<1> SUFFICES ASSUME Inv, [Next]_vars PROVE Inv'
  OBVIOUS
<1>1. CASE UNCHANGED vars
  <2>1. UNCHANGED <<version, faded, strict, writes, updated, exported, revoked, events, stamper,
                    sweep, poll, asked, incremental, held, missed, faults, gap>>
    BY <1>1 DEF vars, graph, flags, client
  <2>2. QED
    BY <2>1 DEF Inv, TypeOK, Numbered, Dates, GoneStays
<1>2. QED
  BY <1>1, WriteInv, DecayInv, MoveFloorInv, ReceiveInv, StampInv, SweepStartInv,
     SweepRevokeInv, PollStartInv, ReadPageInv, MarkInv, AnswerInv, PollFailsInv DEF Next, Polling

(* The inductive invariant of types and dates holds.                       *)
THEOREM Invariance == Spec => []Inv
<1>1. QED
  BY InitInv, NextInv, PTL DEF Spec

(* Types, and that between two polls nothing is dated in between.          *)
THEOREM TypeCorrect == Spec => []TypeOK
<1>1. Inv => TypeOK
  BY DEF Inv
<1>2. QED
  BY Invariance, <1>1, PTL

(* A revocation is the last word: whatever the sweep, the writers and the  *)
(* failures of polls do between two pages, a client that was told an       *)
(* object is revoked is never served it again.                             *)
THEOREM ToldOnceIsForever == Spec => RevocationIsFinal
<1>1. ASSUME Inv, [Next]_vars, NEW o \in Objects, held[o] = Gone
      PROVE  held'[o] = Gone
  <2>1. CASE Answer
    <3>1. \A f \in poll.found : f[1] = o => f[2] = Gone
      BY <1>1 DEF Inv, GoneStays
    <3>2. QED
      BY <1>1, <2>1, <3>1, Answered DEF Inv
  <2>2. CASE ~Answer
    <3>1. UNCHANGED held
      BY <1>1, <2>2
         DEF Next, Write, Decay, MoveFloor, ReceiveEvent, Stamp, SweepStart, SweepRevoke, Polling,
             PollStart, ReadPage, MarkExported, PollFails, client, vars
    <3>2. QED
      BY <1>1, <3>1
  <2>3. QED
    BY <2>1, <2>2
<1>2. Inv /\ [Next]_vars => [\A o \in Objects : held[o] = Gone => held'[o] = Gone]_vars
  BY <1>1
<1>3. QED
  BY Invariance, <1>2, PTL DEF Spec, RevocationIsFinal

-----------------------------------------------------------------------------
(* What a client has of an object whose date was never left behind.  As    *)
(* long as a change of it is announced and not dated, or dated after the   *)
(* start of the poll, it is owed by a later poll.  Otherwise the client    *)
(* has the last version, or this poll finds it, unless a row of it lay     *)
(* beyond the pages of an answer.                                          *)

Clean == Scored \ gap

DatedNew ==
    /\ \A e \in events : e.object \in Clean => e.era = "new"
    /\ (stamper # Nobody /\ stamper.object \in Clean) => stamper.era = "new"

(* Lowering the floor leaves the dates of what it lets pass behind.        *)
FloorMoved == poll.strict /\ ~strict => Weak \subseteq gap

Announced(o) == \E e \in events : e.object = o
BeingDated(o) == stamper # Nobody /\ stamper.object = o
Pending(o) == Announced(o) \/ BeingDated(o)

LeftIn(rows, o) == <<o, "nodes">> \in rows \/ <<o, "relations">> \in rows

ToBeRead(o) ==
    \/ poll.at = "nodes" /\ (o \in Relations \/ o \notin poll.seen)
    \/ poll.at = "relations" /\ o \in Relations /\ o \notin poll.seen

Covered(o) ==
    /\ \A f \in poll.found : f[1] = o => f[2] = version[o]
    /\ updated[o] = "old" => held[o] = version[o] \/ LeftIn(missed, o)
    /\ updated[o] = "due" => \/ ToBeRead(o)
                             \/ <<o, version[o]>> \in poll.found
                             \/ LeftIn(poll.left, o)

Cared(o) == Pending(o) \/ updated[o] = "new" \/ Covered(o)
AllCovered == \A o \in Clean : Passes(o) => Cared(o)

Owed == DatedNew /\ FloorMoved /\ AllCovered

(* The promises hold at the start.                                         *)
LEMMA InitOwed == Init => Owed
BY DEF Init, Owed, DatedNew, FloorMoved, AllCovered, Cared, Covered, NoPoll, Clean, Scored,
       Objects

(* A write is announced, or leaves the date of its object behind.          *)
LEMMA WriteOwed ==
    ASSUME Inv, Owed, NEW o \in Objects, Write(o)
    PROVE  Owed'
<1>1. /\ UNCHANGED <<strict, updated, revoked, stamper, poll, held, missed>>
      /\ faded \ {o} \subseteq faded'
      /\ version' = [version EXCEPT ![o] = @ + 1]
      /\ \/ /\ events' = events \cup {[object |-> o, era |-> "new"]}
            /\ gap' = gap
         \/ /\ gap' = gap \cup {o}
            /\ events' = events
  BY DEF Write, flags, client
<1>2. /\ events \subseteq events' /\ gap \subseteq gap'
      /\ (\E e \in events' : e.object = o) \/ o \in gap'
      /\ \A e \in events' : e \in events \/ e.era = "new"
  <2>1. ASSUME events' = events \cup {[object |-> o, era |-> "new"]}
        PROVE  /\ events \subseteq events'
               /\ [object |-> o, era |-> "new"] \in events'
               /\ \A e \in events' : e \in events \/ e.era = "new"
    BY <2>1
  <2>2. [object |-> o, era |-> "new"].object = o
    OBVIOUS
  <2>3. QED
    BY <1>1, <2>1, <2>2
<1>3. DatedNew'
  BY <1>1, <1>2 DEF Owed, DatedNew, Clean
<1>4. FloorMoved'
  BY <1>1, <1>2 DEF Owed, FloorMoved
<1>5. ASSUME NEW p \in Clean', Passes(p)'
      PROVE  Cared(p)'
  <2>1. p \in Clean /\ p \in Objects
    BY <1>2 DEF Clean, Scored, Objects
  <2>2. CASE p = o
    BY <1>2, <1>5, <2>2 DEF Cared, Pending, Announced, Clean
  <2>3. CASE p # o
    <3>1. version'[p] = version[p]
      BY <1>1, <2>1, <2>3 DEF Inv, TypeOK
    <3>2. Cared(p)
      BY <1>1, <1>5, <2>1, <2>3 DEF Owed, AllCovered, Passes, PassesFloor, Below
    <3>3. Pending(p) => Pending(p)'
      BY <1>1, <1>2 DEF Pending, Announced, BeingDated
    <3>4. Covered(p) => Covered(p)'
      BY <1>1, <3>1 DEF Covered, ToBeRead
    <3>5. QED
      BY <1>1, <3>2, <3>3, <3>4 DEF Cared
  <2>4. QED
    BY <2>2, <2>3
<1>6. QED
  BY <1>3, <1>4, <1>5 DEF Owed, AllCovered

(* Confidence that rises leaves the date behind; where it falls, nothing   *)
(* is promised any more.                                                   *)
LEMMA DecayOwed ==
    ASSUME Inv, Owed, NEW r \in Relations, Decay(r)
    PROVE  Owed'
<1>1. /\ UNCHANGED <<version, strict, updated, revoked, events, stamper, poll, held, missed>>
      /\ faded' = IF r \in faded THEN faded \ {r} ELSE faded \cup {r}
      /\ gap' = IF r \in faded THEN gap \cup {r} ELSE gap
  BY DEF Decay, flags, client
<1>2. DatedNew' /\ FloorMoved'
  BY <1>1 DEF Owed, DatedNew, FloorMoved, Clean
<1>3. ASSUME NEW p \in Clean', Passes(p)'
      PROVE  Cared(p)'
  <2>1. p \in Clean /\ Passes(p)
    BY <1>1, <1>3 DEF Clean, Passes, PassesFloor, Below
  <2>2. Cared(p)
    BY <2>1 DEF Owed, AllCovered
  <2>3. QED
    BY <1>1, <2>2 DEF Cared, Pending, Announced, BeingDated, Covered, ToBeRead
<1>4. QED
  BY <1>2, <1>3 DEF Owed, AllCovered

(* So does a floor that moves, for all it lets pass.                       *)
LEMMA MoveFloorOwed ==
    ASSUME Inv, Owed, MoveFloor
    PROVE  Owed'
<1>1. /\ UNCHANGED <<version, faded, updated, revoked, events, stamper, poll, held, missed>>
      /\ strict' = ~strict
      /\ gap' = IF strict THEN gap \cup Weak ELSE gap
  BY DEF MoveFloor, flags, client
<1>2. DatedNew' /\ FloorMoved'
  BY <1>1 DEF Owed, DatedNew, FloorMoved, Clean
<1>3. ASSUME NEW p \in Clean', Passes(p)'
      PROVE  Cared(p)'
  <2>1. p \in Clean /\ Passes(p)
    BY <1>1, <1>3 DEF Clean, Passes, PassesFloor, Below
  <2>2. Cared(p)
    BY <2>1 DEF Owed, AllCovered
  <2>3. QED
    BY <1>1, <2>2 DEF Cared, Pending, Announced, BeingDated, Covered, ToBeRead
<1>4. QED
  BY <1>2, <1>3 DEF Owed, AllCovered

(* An event that is received is in hand, whether or not a copy stays.      *)
LEMMA ReceiveOwed ==
    ASSUME Inv, Owed, ReceiveEvent
    PROVE  Owed'
<1>1. UNCHANGED <<version, faded, strict, updated, revoked, poll, held, missed, gap>>
  BY DEF ReceiveEvent, graph, flags, client
<1>2. /\ stamper = Nobody /\ stamper' \in events
      /\ events' \subseteq events
      /\ \A e \in events : e \in events' \/ e = stamper'
  BY DEF ReceiveEvent
<1>3. stamper' # Nobody
  BY <1>2, NobodyAssumption DEF Inv, TypeOK
<1>4. DatedNew' /\ FloorMoved'
  BY <1>1, <1>2 DEF Owed, DatedNew, FloorMoved, Clean
<1>5. ASSUME NEW p, Pending(p)
      PROVE  Pending(p)'
  BY <1>2, <1>3, <1>5 DEF Pending, Announced, BeingDated
<1>6. \A p \in Clean : Covered(p) => Covered(p)'
  BY <1>1 DEF Covered, ToBeRead
<1>7. Clean' = Clean /\ \A p \in Clean : Passes(p)' => Passes(p)
  BY <1>1 DEF Clean, Passes, PassesFloor, Below
<1>8. QED
  BY <1>1, <1>4, <1>5, <1>6, <1>7 DEF Owed, AllCovered, Cared

(* What is dated is dated after the start of the poll that runs.           *)
LEMMA StampOwed ==
    ASSUME Inv, Owed, Stamp
    PROVE  Owed'
<1>1. /\ UNCHANGED <<version, faded, strict, revoked, events, poll, held, missed, gap>>
      /\ stamper # Nobody /\ stamper' = Nobody
      /\ updated' = [updated EXCEPT ![stamper.object] = stamper.era]
  BY DEF Stamp, Stamped, graph, flags, client
<1>2. DatedNew' /\ FloorMoved'
  BY <1>1 DEF Owed, DatedNew, FloorMoved, Clean
<1>3. ASSUME NEW p \in Clean', Passes(p)'
      PROVE  Cared(p)'
  <2>1. p \in Clean /\ Cared(p) /\ p \in Objects
    BY <1>1, <1>3 DEF Owed, AllCovered, Clean, Passes, PassesFloor, Below, Scored, Objects
  <2>2. CASE p = stamper.object
    <3>1. updated'[p] = "new"
      BY <1>1, <2>1, <2>2 DEF Owed, DatedNew, Inv, TypeOK
    <3>2. QED
      BY <3>1 DEF Cared
  <2>3. CASE p # stamper.object
    <3>1. updated'[p] = updated[p]
      BY <1>1, <2>1, <2>3 DEF Inv, TypeOK
    <3>2. (Pending(p) => Pending(p)') /\ (Covered(p) => Covered(p)')
      BY <1>1, <2>3, <3>1 DEF Pending, Announced, BeingDated, Covered, ToBeRead
    <3>3. QED
      BY <2>1, <3>1, <3>2 DEF Cared
  <2>4. QED
    BY <2>2, <2>3
<1>4. QED
  BY <1>2, <1>3 DEF Owed, AllCovered

(* Beginning a sweep changes nothing that is promised.                     *)
LEMMA SweepStartOwed ==
    ASSUME Inv, Owed, SweepStart
    PROVE  Owed'
<1>1. UNCHANGED <<version, faded, strict, updated, revoked, events, stamper, poll, held,
                  missed, gap>>
  BY DEF SweepStart, graph, flags, client
<1>2. QED
  BY <1>1 DEF Owed, DatedNew, FloorMoved, AllCovered, Cared, Pending, Announced, BeingDated,
              Covered, ToBeRead, Clean, Passes, PassesFloor, Below

(* The sweep dates only what it revokes, and nothing is promised of that.  *)
LEMMA SweepRevokeOwed ==
    ASSUME Inv, Owed, SweepRevoke
    PROVE  Owed'
<1>1. /\ UNCHANGED <<version, faded, strict, events, stamper, poll, held, missed, gap>>
      /\ revoked' = revoked \cup GatedOut
      /\ updated' = [o \in Objects |-> IF o \in GatedOut THEN sweep.era ELSE updated[o]]
  BY DEF SweepRevoke, RevokedNow, graph, client
<1>2. DatedNew' /\ FloorMoved'
  BY <1>1 DEF Owed, DatedNew, FloorMoved, Clean
<1>3. ASSUME NEW p \in Clean', Passes(p)'
      PROVE  Cared(p)'
  <2>1. p \in Clean /\ Cared(p) /\ p \in Objects
    BY <1>1, <1>3 DEF Owed, AllCovered, Clean, Passes, PassesFloor, Below, Scored, Objects
  <2>2. updated'[p] = updated[p]
    BY <1>1, <1>3, <2>1 DEF Passes, PassesFloor
  <2>3. QED
    BY <1>1, <2>1, <2>2 DEF Cared, Pending, Announced, BeingDated, Covered, ToBeRead
<1>4. QED
  BY <1>2, <1>3 DEF Owed, AllCovered

(* Where time passes, every object keeps its place: what was announced or  *)
(* being dated still is, and its date is the old one seen from later.      *)
LEMMA RedateKeeps ==
    ASSUME TypeOK, NEW R \in [Eras -> Eras], Redate(R)
    PROVE  /\ \A o : Pending(o) => Pending(o)'
           /\ \A o \in Objects : updated'[o] = IF updated[o] = "never" THEN "never"
                                                                  ELSE R[updated[o]]
           /\ \A e \in events' : \E d \in events :
                  e.object = d.object
                  /\ e.era = IF d.object \in Relations THEN R[d.era] ELSE d.era
           /\ stamper' # Nobody => /\ stamper # Nobody
                                   /\ stamper'.object = stamper.object
                                   /\ stamper'.era = R[stamper.era]
<1>1. /\ updated' = [o \in Objects |-> IF updated[o] = "never" THEN "never"
                                                           ELSE R[updated[o]]]
      /\ stamper' = IF stamper = Nobody THEN Nobody
                    ELSE [stamper EXCEPT !.era = R[stamper.era]]
  BY DEF Redate
<1>2. events \subseteq Events /\ (stamper # Nobody => stamper \in Events)
  BY DEF TypeOK
<1>3. ASSUME NEW d \in Events, NEW e,
             e = [d EXCEPT !.era = IF d.object \in Relations THEN R[d.era] ELSE d.era]
      PROVE  /\ e.object = d.object
             /\ e.era = IF d.object \in Relations THEN R[d.era] ELSE d.era
  BY <1>3 DEF Events
<1>4. /\ \A e \in events' : \E d \in events :
             e = [d EXCEPT !.era = IF d.object \in Relations THEN R[d.era] ELSE d.era]
      /\ \A d \in events : \E e \in events' :
             e = [d EXCEPT !.era = IF d.object \in Relations THEN R[d.era] ELSE d.era]
  BY DEF Redate
<1>5. stamper # Nobody => /\ stamper' \in Events
                          /\ stamper'.object = stamper.object
                          /\ stamper'.era = R[stamper.era]
  BY <1>1, <1>2 DEF Events
<1>6. stamper' # Nobody => stamper # Nobody
  BY <1>1
<1>7. ASSUME NEW e \in events'
      PROVE  \E d \in events :
                 e.object = d.object
                 /\ e.era = IF d.object \in Relations THEN R[d.era] ELSE d.era
  <2>1. PICK d \in events :
            e = [d EXCEPT !.era = IF d.object \in Relations THEN R[d.era] ELSE d.era]
    BY <1>4
  <2>2. QED
    BY <1>2, <1>3, <2>1
<1>8. ASSUME NEW d \in events
      PROVE  \E e \in events' : e.object = d.object
  <2>1. PICK e \in events' :
            e = [d EXCEPT !.era = IF d.object \in Relations THEN R[d.era] ELSE d.era]
    BY <1>4
  <2>2. QED
    BY <1>2, <1>3, <2>1
<1>9. ASSUME NEW o, Pending(o)
      PROVE  Pending(o)'
  BY <1>5, <1>8, <1>9, NobodyAssumption DEF Pending, Announced, BeingDated
<1>10. QED
  BY <1>1, <1>5, <1>6, <1>7, <1>9

(* A poll that starts finds all dates between its cursor and itself due,   *)
(* and has every page to read; what is dated but not visible yet is left   *)
(* behind.                                                                 *)
LEMMA PollStartOwed ==
    ASSUME Inv, Owed, PollStart
    PROVE  Owed'
<1>1. TypeOK /\ Dates
  BY DEF Inv
<1>2. /\ UNCHANGED <<version, faded, strict, revoked, held, missed>>
      /\ Redate(Started) /\ gap' = gap \cup InFlight /\ poll = NoPoll
      /\ poll'.at = "nodes" /\ poll'.strict = strict /\ poll'.seen = {} /\ poll'.found = {}
  BY DEF PollStart, NoPoll, graph, flags, client
<1>3. Started \in [Eras -> Eras]
  BY TimePasses
<1>4. /\ \A o : Pending(o) => Pending(o)'
      /\ \A o \in Objects : updated'[o] = IF updated[o] = "never" THEN "never"
                                                             ELSE Started[updated[o]]
      /\ \A e \in events' : \E d \in events :
             e.object = d.object
             /\ e.era = IF d.object \in Relations THEN Started[d.era] ELSE d.era
      /\ stamper' # Nobody => /\ stamper # Nobody
                              /\ stamper'.object = stamper.object
                              /\ stamper'.era = Started[stamper.era]
  BY <1>1, <1>2, <1>3, RedateKeeps
<1>5. ASSUME NEW p \in Clean'
      PROVE  /\ p \in Clean /\ p \in Objects
             /\ \A e \in events : e.object = p => p \notin Relations
             /\ stamper # Nobody => stamper.object # p
  BY <1>2 DEF Clean, Scored, Objects, InFlight
<1>6. DatedNew' /\ FloorMoved'
  BY <1>2, <1>4, <1>5 DEF Owed, DatedNew, FloorMoved
<1>7. ASSUME NEW p \in Clean', Passes(p)'
      PROVE  Cared(p)'
  <2>1. p \in Clean /\ Cared(p) /\ p \in Objects
    BY <1>2, <1>5, <1>7 DEF Owed, AllCovered, Passes, PassesFloor, Below
  <2>2. CASE Pending(p)
    BY <1>4, <2>2 DEF Cared
  <2>3. CASE ~Pending(p)
    <3>1. updated[p] \in {"never", "old", "new"}
      BY <1>1, <1>2, <2>1 DEF TypeOK, NoPoll, Eras
    <3>2. /\ updated[p] = "old" => updated'[p] = "old"
          /\ updated[p] = "new" => updated'[p] = "due"
          /\ updated[p] = "never" => updated'[p] = "never"
      BY <1>4, <2>1 DEF Started, Eras
    <3>3. updated'[p] = "old" => held[p] = version[p] \/ LeftIn(missed, p)
      BY <2>1, <2>3, <3>1, <3>2 DEF Cared, Covered
    <3>4. Covered(p)'
      BY <1>2, <3>3 DEF Covered, ToBeRead, LeftIn
    <3>5. QED
      BY <3>4 DEF Cared
  <2>4. QED
    BY <2>2, <2>3
<1>8. QED
  BY <1>6, <1>7 DEF Owed, AllCovered

(* What a page of rows does not hold is behind its cursor.                 *)
LEMMA BeyondTheCursor ==
    ASSUME NEW rows \in SUBSET Objects, NEW o \in rows, o \notin FirstOf(rows)
    PROVE  o \notin UpTo(FirstOf(rows))
<1>1. SUFFICES ASSUME NEW q \in FirstOf(rows), ElementId[o] <= ElementId[q]
               PROVE  FALSE
  BY DEF UpTo
<1> DEFINE below(x) == {y \in rows : ElementId[y] < ElementId[x]}
<1>2. q \in rows /\ Cardinality(below(q)) < Batch /\ ~(Cardinality(below(o)) < Batch)
  BY <1>1 DEF FirstOf
<1>3. \A x \in Objects : ElementId[x] \in Nat
  BY ElementIdAssumption
<1>4. below(o) \subseteq below(q)
  BY <1>1, <1>2, <1>3
<1>5. IsFiniteSet(below(q))
  BY FS_Subset, ObjectsAssumption
<1> HIDE DEF below
<1>6. /\ Cardinality(below(o)) <= Cardinality(below(q))
      /\ Cardinality(below(o)) \in Nat /\ Cardinality(below(q)) \in Nat
  BY <1>4, <1>5, FS_Subset, FS_CardinalityType
<1>7. QED
  BY <1>2, <1>6, PagesAssumption

(* A page serves rows with the version there is.  A row that is due is     *)
(* served, is behind the cursor of the next page, or is left; the page of  *)
(* revocations takes out of the answer only what is revoked.               *)
LEMMA ReadPageOwed ==
    ASSUME Inv, Owed, ReadPage
    PROVE  Owed'
<1> DEFINE rows == Rows(poll.at) \ poll.seen
           page == FirstOf(rows)
           mark == Served(poll.at, page)
           gone == IF poll.at = "revoked" THEN page ELSE {}
           over == rows = {} \/ poll.pages + 1 = MaxPages
           left == Wanted(poll.at, rows \ page) \X {poll.at}
<1>1. TypeOK
  BY DEF Inv
<1>2. /\ UNCHANGED <<version, faded, strict, updated, revoked, events, stamper, held,
                     missed, gap>>
      /\ poll.at \in Steps
      /\ poll'.at = IF over THEN NextStep(poll.at) ELSE poll.at
      /\ poll'.strict = poll.strict
      /\ poll'.seen = IF over THEN {} ELSE UpTo(page)
      /\ poll'.found = {f \in poll.found : f[1] \notin gone}
                       \cup {<<o, version[o]>> : o \in mark}
                       \cup {<<o, Gone>> : o \in gone}
      /\ poll'.left = IF over THEN poll.left \cup left ELSE poll.left
  BY DEF ReadPage, graph, flags, client
<1>3. /\ page \subseteq rows /\ rows \subseteq Objects /\ mark \subseteq rows
      /\ poll.at = "revoked" => rows \subseteq revoked
  BY <1>1, <1>2, ServedRows
<1>4. DatedNew' /\ FloorMoved'
  BY <1>2 DEF Owed, DatedNew, FloorMoved, Clean
<1>5. ASSUME NEW p \in Clean, Passes(p), Covered(p)
      PROVE  Covered(p)'
  <2>1. p \in Nodes \/ p \in Relations
    BY DEF Clean, Scored
  <2>2. p \notin gone
    BY <1>3, <1>5 DEF Passes, PassesFloor
  <2>3. /\ \A f \in poll'.found : f[1] = p => f \in poll.found \/ f[2] = version[p]
        /\ \A f \in poll.found : f[1] = p => f \in poll'.found
        /\ p \in mark => <<p, version[p]>> \in poll'.found
    <3> HIDE DEF gone, mark
    <3>1. QED
      BY <1>2, <2>2
  <2>4. LeftIn(poll.left, p) => LeftIn(poll'.left, p)
    BY <1>2 DEF LeftIn
  <2>5. ASSUME updated[p] = "due", p \in rows, poll.at \in {"nodes", "relations"}
        PROVE  \/ p \in mark
               \/ ~over /\ p \notin poll'.seen
               \/ over /\ LeftIn(poll'.left, p)
    <3>1. p \in page => p \in mark
      BY <2>5 DEF Served
    <3>2. CASE p \notin page /\ ~over
      BY <1>2, <1>3, <2>5, <3>2, BeyondTheCursor
    <3>3. CASE p \notin page /\ over
      <4>1. <<p, poll.at>> \in left
        BY <2>5, <3>3 DEF Wanted
      <4>2. <<p, poll.at>> \in poll'.left
        BY <1>2, <3>3, <4>1
      <4>3. QED
        BY <2>5, <3>3, <4>2 DEF LeftIn
    <3>4. QED
      BY <3>1, <3>2, <3>3
  <2>6. PassesFloor(p, poll.strict)
    BY <1>1, <1>5 DEF Passes, PassesFloor, Below, Owed, FloorMoved, Clean, TypeOK, Polls
  <2>7. updated[p] = "due" => After(p)
    BY DEF After
  <2>8. ASSUME updated[p] = "due", ToBeRead(p)
        PROVE  \/ ToBeRead(p)' \/ p \in mark \/ LeftIn(poll'.left, p)
    <3>1. CASE poll.at = "nodes" /\ p \in Relations
      BY <1>2, <3>1 DEF ToBeRead, NextStep
    <3>2. CASE poll.at = "nodes" /\ p \notin Relations
      <4>1. p \in rows
        BY <2>1, <2>6, <2>7, <2>8, <3>2 DEF ToBeRead, Rows
      <4>2. QED
        BY <1>2, <2>5, <2>8, <3>2, <4>1 DEF ToBeRead
    <3>3. CASE poll.at = "relations"
      <4>1. p \in rows /\ p \in Relations
        BY <2>6, <2>7, <2>8, <3>3 DEF ToBeRead, Rows
      <4>2. QED
        BY <1>2, <2>5, <2>8, <3>3, <4>1 DEF ToBeRead
    <3>4. QED
      BY <2>8, <3>1, <3>2, <3>3 DEF ToBeRead
  <2> HIDE DEF rows, page, mark, gone, over, left
  <2>9. updated[p] = "due" => \/ ToBeRead(p)'
                              \/ <<p, version[p]>> \in poll'.found
                              \/ LeftIn(poll'.left, p)
    <3>1. SUFFICES ASSUME updated[p] = "due"
                   PROVE  \/ ToBeRead(p)'
                          \/ <<p, version[p]>> \in poll'.found
                          \/ LeftIn(poll'.left, p)
      OBVIOUS
    <3>2. CASE ToBeRead(p)
      BY <2>3, <2>8, <3>1, <3>2
    <3>3. CASE <<p, version[p]>> \in poll.found
      BY <2>3, <3>3
    <3>4. CASE LeftIn(poll.left, p)
      BY <2>4, <3>4
    <3>5. QED
      BY <1>5, <3>1, <3>2, <3>3, <3>4 DEF Covered
  <2>10. QED
    BY <1>2, <1>5, <2>3, <2>9 DEF Covered
<1>6. \A p : (Pending(p)' <=> Pending(p)) /\ (Passes(p)' <=> Passes(p))
  BY <1>2 DEF Pending, Announced, BeingDated, Passes, PassesFloor, Below
<1>7. Clean' = Clean
  BY <1>2 DEF Clean
<1>8. QED
  BY <1>2, <1>4, <1>5, <1>6, <1>7 DEF Owed, AllCovered, Cared

(* Recording what was exported changes nothing that is promised.           *)
LEMMA MarkOwed ==
    ASSUME Inv, Owed, MarkExported
    PROVE  Owed'
<1>1. /\ UNCHANGED <<version, faded, strict, updated, revoked, events, stamper, held, missed,
                     gap>>
      /\ poll'.at = poll.at /\ poll'.strict = poll.strict /\ poll'.seen = poll.seen
      /\ poll'.found = poll.found /\ poll'.left = poll.left
  BY DEF Inv, TypeOK, Polls, MarkExported, graph, client
<1>2. QED
  BY <1>1 DEF Owed, DatedNew, FloorMoved, AllCovered, Cared, Pending, Announced, BeingDated,
              Covered, ToBeRead, Clean, Passes, PassesFloor, Below

(* The answer holds the version of everything that was due, or its row     *)
(* was left.                                                               *)
LEMMA AnswerOwed ==
    ASSUME Inv, Owed, Answer
    PROVE  Owed'
<1>1. TypeOK
  BY DEF Inv
<1>2. /\ UNCHANGED <<version, faded, strict, revoked, gap>>
      /\ Redate(Ended) /\ poll.at = "answer"
      /\ poll'.at = "idle" /\ poll'.found = {} /\ ~poll'.strict
      /\ missed' = {m \in missed : \A f \in poll.found : f[1] # m[1]} \cup poll.left
  BY DEF Answer, NoPoll, graph, flags
<1>3. Ended \in [Eras -> Eras]
  BY DEF Ended, Eras
<1>4. /\ \A o : Pending(o) => Pending(o)'
      /\ \A o \in Objects : updated'[o] = IF updated[o] = "never" THEN "never"
                                                             ELSE Ended[updated[o]]
      /\ \A e \in events' : \E d \in events :
             e.object = d.object
             /\ e.era = IF d.object \in Relations THEN Ended[d.era] ELSE d.era
      /\ stamper' # Nobody => /\ stamper # Nobody
                              /\ stamper'.object = stamper.object
                              /\ stamper'.era = Ended[stamper.era]
  BY <1>1, <1>2, <1>3, RedateKeeps
<1>5. Ended["new"] = "new" /\ Ended["old"] = "old" /\ Ended["due"] = "old"
  BY DEF Ended, Eras
<1>6. DatedNew' /\ FloorMoved'
  BY <1>2, <1>4, <1>5 DEF Owed, DatedNew, FloorMoved, Clean
<1>7. ASSUME NEW p \in Clean', Passes(p)'
      PROVE  Cared(p)'
  <2>1. p \in Clean /\ Cared(p) /\ p \in Objects
    BY <1>2, <1>7 DEF Owed, AllCovered, Passes, PassesFloor, Below, Clean, Scored, Objects
  <2>2. CASE Pending(p) \/ updated[p] = "new"
    BY <1>4, <1>5, <2>1, <2>2 DEF Cared
  <2>3. CASE Covered(p)
    <3>1. updated[p] \in {"never", "new", "old", "due"}
      BY <1>1, <2>1 DEF TypeOK, Eras
    <3>2. updated'[p] = "old" => updated[p] \in {"old", "due"}
      BY <1>4, <1>5, <2>1, <3>1
    <3>3. updated[p] \in {"old", "due"} => \/ held'[p] = version[p]
                                             \/ LeftIn(missed', p)
      <4>1. \A f \in poll.found : f[1] = p => f[2] = version[p]
        BY <2>3 DEF Covered
      <4>2. CASE \E f \in poll.found : f[1] = p
        BY <1>1, <2>1, <4>1, <4>2, Answered
      <4>3. CASE \A f \in poll.found : f[1] # p
        <5>1. held'[p] = held[p]
          BY <1>1, <2>1, <4>3, Answered
        <5>2. LeftIn(missed, p) \/ LeftIn(poll.left, p) => LeftIn(missed', p)
          BY <1>2, <4>3 DEF LeftIn
        <5>3. updated[p] = "due" => LeftIn(poll.left, p)
          BY <1>2, <2>3, <4>3 DEF Covered, ToBeRead
        <5>4. QED
          BY <2>3, <5>1, <5>2, <5>3 DEF Covered
      <4>4. QED
        BY <4>2, <4>3
    <3>4. Covered(p)'
      <4>1. updated'[p] # "due"
        BY <1>4, <1>5, <2>1, <3>1
      <4>2. QED
        BY <1>2, <3>2, <3>3, <4>1 DEF Covered
    <3>5. QED
      BY <3>4 DEF Cared
  <2>4. QED
    BY <2>1, <2>2, <2>3 DEF Cared
<1>8. QED
  BY <1>6, <1>7 DEF Owed, AllCovered

(* A poll that fails leaves what was due to the next one.                  *)
LEMMA PollFailsOwed ==
    ASSUME Inv, Owed, PollFails
    PROVE  Owed'
<1>1. TypeOK
  BY DEF Inv
<1>2. /\ UNCHANGED <<version, faded, strict, revoked, held, missed, gap>>
      /\ Redate(Failed)
      /\ poll'.at = "idle" /\ poll'.found = {} /\ ~poll'.strict
  BY DEF PollFails, NoPoll, graph, flags, client
<1>3. Failed \in [Eras -> Eras]
  BY DEF Failed, Eras
<1>4. /\ \A o : Pending(o) => Pending(o)'
      /\ \A o \in Objects : updated'[o] = IF updated[o] = "never" THEN "never"
                                                             ELSE Failed[updated[o]]
      /\ \A e \in events' : \E d \in events :
             e.object = d.object
             /\ e.era = IF d.object \in Relations THEN Failed[d.era] ELSE d.era
      /\ stamper' # Nobody => /\ stamper # Nobody
                              /\ stamper'.object = stamper.object
                              /\ stamper'.era = Failed[stamper.era]
  BY <1>1, <1>2, <1>3, RedateKeeps
<1>5. Failed["new"] = "new" /\ Failed["old"] = "old" /\ Failed["due"] = "new"
  BY DEF Failed, Eras
<1>6. DatedNew' /\ FloorMoved'
  BY <1>2, <1>4, <1>5 DEF Owed, DatedNew, FloorMoved, Clean
<1>7. ASSUME NEW p \in Clean', Passes(p)'
      PROVE  Cared(p)'
  <2>1. p \in Clean /\ Cared(p) /\ p \in Objects
    BY <1>2, <1>7 DEF Owed, AllCovered, Passes, PassesFloor, Below, Clean, Scored, Objects
  <2>2. CASE Pending(p) \/ updated[p] \in {"new", "due"}
    BY <1>4, <1>5, <2>1, <2>2 DEF Cared
  <2>3. CASE Covered(p) /\ updated[p] \notin {"new", "due"}
    <3>1. updated[p] \in {"never", "old"} /\ updated'[p] = updated[p]
      BY <1>1, <1>4, <1>5, <2>1, <2>3 DEF TypeOK, Eras
    <3>2. QED
      BY <1>2, <2>3, <3>1 DEF Cared, Covered
  <2>4. QED
    BY <2>1, <2>2, <2>3 DEF Cared
<1>8. QED
  BY <1>6, <1>7 DEF Owed, AllCovered

(* Every step keeps the promises.                                          *)
LEMMA NextOwed == Inv /\ Owed /\ [Next]_vars => Owed'
<1> SUFFICES ASSUME Inv, Owed, [Next]_vars PROVE Owed'
  OBVIOUS
<1>1. CASE UNCHANGED vars
  <2>1. UNCHANGED <<version, faded, strict, updated, revoked, events, stamper, poll, held,
                  missed, gap>>
    BY <1>1 DEF vars, graph, flags, client
  <2>2. QED
    BY <2>1 DEF Owed, DatedNew, FloorMoved, AllCovered, Cared, Pending, Announced, BeingDated,
                Covered, ToBeRead, Clean, Passes, PassesFloor, Below
<1>2. QED
  BY <1>1, WriteOwed, DecayOwed, MoveFloorOwed, ReceiveOwed, StampOwed, SweepStartOwed, SweepRevokeOwed,
     PollStartOwed, ReadPageOwed, MarkOwed, AnswerOwed, PollFailsOwed DEF Next, Polling

(* Once everything announced is dated and the client has polled since, it  *)
(* has the last version of every object that passes the gate, of any       *)
(* number of objects and any size and number of pages, after any           *)
(* interleaving of writers, watermark, sweep and polls that answer or      *)
(* fail: what it asks with never skips a change, and what an answer left   *)
(* beyond its last page is all it does not have.                           *)
THEOREM ClientsAreUpToDate == Spec => []UpToDate
<1>1. TypeOK /\ Owed => UpToDate
  <2>1. SUFFICES ASSUME TypeOK, Owed, Settled, NEW o \in Scored, Passes(o), o \notin gap,
                        updated[o] # "never",
                        <<o, "nodes">> \notin missed, <<o, "relations">> \notin missed
                 PROVE  held[o] = version[o]
    BY DEF UpToDate
  <2>2. updated[o] = "old"
    BY <2>1 DEF Settled, TypeOK, NoPoll, Scored, Objects, Eras
  <2>3. ~Pending(o) /\ updated[o] # "new"
    BY <2>1, <2>2 DEF Settled, Pending, Announced, BeingDated
  <2>4. Covered(o)
    BY <2>1, <2>3 DEF Owed, AllCovered, Clean, Cared
  <2>5. QED
    BY <2>1, <2>2, <2>4 DEF Covered, LeftIn
<1>2. Spec => []Owed
  BY Invariance, InitOwed, NextOwed, PTL DEF Spec
<1>3. QED
  BY TypeCorrect, <1>1, <1>2, PTL
=============================================================================
