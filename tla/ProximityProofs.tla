-------------------------- MODULE ProximityProofs --------------------------
(***************************************************************************)
(* Theorems of the proximity alarms, for every set of points, every        *)
(* placement, every pair of radii and every window.                        *)
(***************************************************************************)
EXTENDS ProximityAlarms, TLAPS

(***************************************************************************)
(* Lemmas about retention and the tracker.                                 *)
(***************************************************************************)

\* A list names points and places only.
LEMMA ListShape ==
    ASSUME NEW pois \in Lists
    PROVE  DOMAIN pois \subseteq Points /\ \A p \in DOMAIN pois : pois[p] \in Places
BY DEF Lists

\* Walking the active alarms keeps them active and keeps them entries.
LEMMA ReconfirmType ==
    ASSUME NEW t, IsTracker(t), NEW pois \in Lists, NEW fetchedAt \in Nat
    PROVE  /\ IsTracker(Reconfirm(t, pois, fetchedAt))
           /\ DOMAIN Reconfirm(t, pois, fetchedAt) = DOMAIN t
<1>1. ASSUME NEW p \in DOMAIN t
      PROVE  Reconfirmed(t[p], p, pois, fetchedAt) \in Entries
  <2>1. t[p] \in Entries
    BY DEF IsTracker
  <2>2. p \in DOMAIN pois => pois[p] \in Places
    BY ListShape
  <2>3. CASE p \in DOMAIN pois
    BY <2>1, <2>2, <2>3 DEF Reconfirmed, Entries
  <2>4. CASE p \notin DOMAIN pois
    BY <2>1, <2>4 DEF Reconfirmed, Entries
  <2>5. QED
    BY <2>3, <2>4
<1>2. QED
  BY <1>1 DEF Reconfirm, IsTracker

\* Completing a list adds active alarms to it and moves none of its points.
LEMMA CompletedShape ==
    ASSUME NEW t, IsTracker(t), NEW pois \in Lists, NEW fetchedAt \in Nat
    PROVE  LET scanned == Completed(t, pois, fetchedAt)
           IN  /\ scanned \in Lists
               /\ DOMAIN pois \subseteq DOMAIN scanned
               /\ DOMAIN scanned \subseteq DOMAIN pois \cup DOMAIN t
               /\ \A p \in DOMAIN pois : scanned[p] = pois[p]
               /\ \A p \in DOMAIN scanned \ DOMAIN pois :
                     scanned[p] = t[p].at /\ ~Expired(t[p], fetchedAt)
<1> DEFINE scanned == Completed(t, pois, fetchedAt)
<1>1. DOMAIN scanned = DOMAIN pois \cup Held(t, pois, fetchedAt)
  BY DEF Completed
<1>2. Held(t, pois, fetchedAt) \subseteq DOMAIN t \ DOMAIN pois
  BY DEF Held
<1>3. ASSUME NEW p \in DOMAIN scanned \ DOMAIN pois
      PROVE  scanned[p] = t[p].at /\ ~Expired(t[p], fetchedAt) /\ t[p] \in Entries
  BY <1>1, <1>3 DEF Completed, Held, IsTracker
<1>4. ASSUME NEW p \in DOMAIN pois
      PROVE  scanned[p] = pois[p]
  BY <1>1 DEF Completed
<1>5. DOMAIN scanned \subseteq Points
  BY <1>1, <1>2, ListShape DEF IsTracker
<1>6. \A p \in DOMAIN scanned : scanned[p] \in Places
  BY <1>3, <1>4, ListShape DEF Entries
<1>7. scanned \in [DOMAIN scanned -> Places]
  BY <1>6 DEF Completed
<1>8. scanned \in Lists
  BY <1>5, <1>7 DEF Lists
<1>9. QED
  BY <1>1, <1>2, <1>3, <1>4, <1>8

-----------------------------------------------------------------------------
(***************************************************************************)
(* The type invariant.                                                     *)
(***************************************************************************)

\* One evaluation keeps the types of everything it writes.
LEMMA EvaluateType ==
    ASSUME TypeOK, NEW position \in Positions, NEW pois \in Lists,
           NEW fetchedAt \in Nat, Evaluate(position, pois, fetchedAt)
    PROVE  /\ IsTracker(tracker')
           /\ wire' \in [Points -> Notices]
           /\ stopped' \in BOOLEAN
           /\ departed' \in [Points -> [vessel: Int, place: Places]]
<1> DEFINE confirmed == Reconfirm(tracker, pois, fetchedAt)
           scanned   == Completed(tracker, pois, fetchedAt)
           inAlarm   == InAlarm(DOMAIN tracker, scanned, position)
<1>1. IsTracker(tracker) /\ now \in Nat /\ wire \in [Points -> Notices]
  BY DEF TypeOK
<1>2. IsTracker(confirmed) /\ DOMAIN confirmed = DOMAIN tracker
  BY <1>1, ReconfirmType
<1>3. /\ scanned \in Lists
      /\ DOMAIN scanned \subseteq Points
      /\ \A p \in DOMAIN scanned : scanned[p] \in Places
  BY <1>1, CompletedShape, ListShape
<1>4. inAlarm \subseteq DOMAIN scanned
  BY DEF InAlarm
<1>5. \A p \in DOMAIN tracker : confirmed[p] \in Entries
  BY <1>2 DEF IsTracker
<1>6. IsTracker(tracker')
  <2>1. tracker' = NextTracker(confirmed, scanned, inAlarm, fetchedAt, now)
    BY DEF Evaluate
  <2>2. ASSUME NEW p \in inAlarm
        PROVE  tracker'[p] \in Entries
    BY <1>1, <1>2, <1>3, <1>4, <1>5, <2>1 DEF NextTracker, Raised, Entries
  <2>3. QED
    BY <1>3, <1>4, <2>1, <2>2 DEF NextTracker, IsTracker
<1>7. wire' \in [Points -> Notices]
  <2>1. wire' = NextWire(wire, confirmed, inAlarm, now)
    BY DEF Evaluate
  <2>2. AlarmNotice(now) \in Notices
    BY <1>1 DEF AlarmNotice, Notices
  <2>3. \A p \in DOMAIN tracker : ClearNotice(confirmed[p]) \in Notices
    BY <1>5 DEF ClearNotice, Notices, Entries
  <2>4. QED
    BY <1>1, <1>2, <2>1, <2>2, <2>3 DEF NextWire
<1>8. departed' \in [Points -> [vessel: Int, place: Places]]
  <2>1. position \in Int
    BY PositionsAssumption
  <2>2. \A p \in DOMAIN tracker : confirmed[p].at \in Places
    BY <1>5 DEF Entries
  <2>3. QED
    BY <2>1, <2>2 DEF Evaluate, TypeOK
<1>9. QED
  BY <1>6, <1>7, <1>8 DEF Evaluate, TypeOK

\* Stopping keeps the types too.
LEMMA StopType ==
    ASSUME TypeOK, Stop
    PROVE  TypeOK'
<1>1. IsTracker(NoAlarms)
  BY DEF NoAlarms, IsTracker
<1>2. wire' \in [Points -> Notices]
  BY DEF TypeOK, Stop, ClearedWire, NextWire, ClearNotice, IsTracker, Entries, Notices
<1>3. QED
  BY <1>1, <1>2 DEF TypeOK, Stop, callerVars, histories

\* The initial state has its type.
LEMMA TypeInit ==
    ASSUME Init
    PROVE  TypeOK
<1>1. IsTracker(NoAlarms)
  BY DEF NoAlarms, IsTracker
<1>2. NoList \in [pois: Lists, fetchedAt: Nat]
  <2>1. NoList.pois \in [{} -> Places]
    BY DEF NoList
  <2>2. NoList.pois \in Lists
    BY <2>1 DEF Lists
  <2>3. QED
    BY <2>2 DEF NoList
<1>3. Silent \in Notices
  BY DEF Silent, Notices
<1>4. Never \in [at: Places, landedAt: Nat]
  BY DEF Never, Places
<1>5. NotYet \in [vessel: Int, place: Places]
  BY DEF NotYet, Places
<1>6. QED
  BY <1>1, <1>2, <1>3, <1>4, <1>5, TimeAssumption DEF Init, TypeOK

\* Every step keeps it.
LEMMA TypeStep ==
    ASSUME TypeOK, [Next]_vars
    PROVE  TypeOK'
<1>1. ASSUME NEW position \in Positions, NEW pois \in Lists, ListLands(position, pois)
      PROVE  TypeOK'
  <2>1. now \in Nat /\ Evaluate(position, pois, now)
    BY <1>1 DEF ListLands, TypeOK
  <2>2. reported' \in [Points -> [at: Places, landedAt: Nat]]
    BY <1>1, <2>1, ListShape DEF ListLands, TypeOK
  <2>3. list' \in [pois: Lists, fetchedAt: Nat]
    BY <1>1, <2>1 DEF ListLands
  <2>4. QED
    BY <1>1, <2>1, <2>2, <2>3, EvaluateType DEF ListLands, TypeOK
<1>2. ASSUME NEW position \in Positions, Replay(position)
      PROVE  TypeOK'
  <2>1. /\ list.pois \in Lists
        /\ list.fetchedAt \in Nat
        /\ Evaluate(position, list.pois, list.fetchedAt)
    BY <1>2 DEF Replay, TypeOK
  <2>2. QED
    BY <1>2, <2>1, EvaluateType DEF Replay, TypeOK
<1>3. CASE Stop
  BY <1>3, StopType
<1>4. CASE Tick
  BY <1>4 DEF Tick, TypeOK, alarmVars, histories
<1>5. CASE UNCHANGED vars
  BY <1>5 DEF TypeOK, vars, alarmVars, callerVars, histories
<1>6. QED
  BY <1>1, <1>2, <1>3, <1>4, <1>5 DEF Next

\* The state always has its type, whatever lists land and whenever.
THEOREM TypeCorrect == Spec => []TypeOK
<1>1. Init => TypeOK
  BY TypeInit
<1>2. TypeOK /\ [Next]_vars => TypeOK'
  BY TypeStep
<1>3. QED
  BY <1>1, <1>2, PTL DEF Spec

-----------------------------------------------------------------------------
(***************************************************************************)
(* The inductive invariant.                                                *)
(***************************************************************************)

\* What an evaluation leaves active: alarms the list reports, carrying its
\* report, and alarms it omits, untouched and within their window.  All of
\* them lie within the exit radius.
LEMMA EvaluateTracker ==
    ASSUME TypeOK, NEW position \in Positions, NEW pois \in Lists,
           NEW fetchedAt \in Nat, Evaluate(position, pois, fetchedAt)
    PROVE  \A p \in DOMAIN tracker' :
              /\ \/ /\ p \in DOMAIN pois
                    /\ tracker'[p].at = pois[p]
                    /\ tracker'[p].lastListedAt = fetchedAt
                 \/ /\ p \in DOMAIN tracker \ DOMAIN pois
                    /\ tracker'[p] = tracker[p]
                    /\ ~Expired(tracker[p], fetchedAt)
              /\ Within(position, tracker'[p].at, ExitRadius)
<1> DEFINE confirmed == Reconfirm(tracker, pois, fetchedAt)
           scanned   == Completed(tracker, pois, fetchedAt)
           inAlarm   == InAlarm(DOMAIN tracker, scanned, position)
<1> TAKE p \in DOMAIN tracker'
<1>1. IsTracker(tracker) /\ IsTracker(confirmed) /\ DOMAIN confirmed = DOMAIN tracker
  BY ReconfirmType DEF TypeOK
<1>2. p \in inAlarm /\ p \in DOMAIN scanned
  BY DEF Evaluate, NextTracker, InAlarm
<1>3. tracker'[p] = IF p \in DOMAIN tracker THEN confirmed[p]
                      ELSE Raised(scanned[p], fetchedAt, now)
  BY <1>1, <1>2 DEF Evaluate, NextTracker
<1>4. /\ p \in DOMAIN pois => scanned[p] = pois[p]
      /\ p \notin DOMAIN pois => /\ p \in DOMAIN tracker
                                /\ scanned[p] = tracker[p].at
                                /\ ~Expired(tracker[p], fetchedAt)
  BY SMTT(20), <1>1, <1>2, CompletedShape
<1>5. Within(position, scanned[p], ExitRadius)
  <2>1. scanned[p] \in Places
    BY <1>1, <1>2, CompletedShape, ListShape
  <2>2. position \in Int /\ (scanned[p] # Unplaced => scanned[p] \in Int)
    BY <2>1, PositionsAssumption DEF Places
  <2>3. Within(position, scanned[p], HysteresisThreshold(p \in DOMAIN tracker))
    BY <1>2 DEF InAlarm
  <2>4. QED
    BY <2>2, <2>3, RadiiAssumption DEF Within, Distance, HysteresisThreshold
<1>6. CASE p \in DOMAIN pois
  <2>1. tracker'[p].at = pois[p] /\ tracker'[p].lastListedAt = fetchedAt
    <3>1. CASE p \in DOMAIN tracker
      <4>1. tracker[p] \in Entries
        BY <1>1, <3>1 DEF IsTracker
      <4>2. QED
        BY <1>3, <1>6, <3>1, <4>1 DEF Reconfirm, Reconfirmed, Entries
    <3>2. CASE p \notin DOMAIN tracker
      BY <1>3, <1>4, <1>6, <3>2 DEF Raised
    <3>3. QED
      BY <3>1, <3>2
  <2>2. QED
    BY <1>4, <1>5, <1>6, <2>1
<1>7. CASE p \notin DOMAIN pois
  <2>1. tracker'[p] = tracker[p]
    BY <1>3, <1>4, <1>7 DEF Reconfirm, Reconfirmed
  <2>2. QED
    BY <1>4, <1>5, <1>7, <2>1
<1>8. QED
  BY <1>6, <1>7

\* An evaluation raises and clears on the wire exactly what it adds to and
\* drops from the tracker.
LEMMA EvaluateWire ==
    ASSUME TypeOK, WireMatchesTracker, NEW position \in Positions,
           NEW pois \in Lists, NEW fetchedAt \in Nat,
           Evaluate(position, pois, fetchedAt)
    PROVE  WireMatchesTracker'
<1> DEFINE confirmed == Reconfirm(tracker, pois, fetchedAt)
           scanned   == Completed(tracker, pois, fetchedAt)
           inAlarm   == InAlarm(DOMAIN tracker, scanned, position)
<1>1. DOMAIN confirmed = DOMAIN tracker
  BY DEF Reconfirm
<1>2. /\ DOMAIN tracker' = inAlarm
      /\ wire' = NextWire(wire, confirmed, inAlarm, now)
      /\ \A p \in inAlarm :
            tracker'[p] = IF p \in DOMAIN tracker THEN confirmed[p]
                            ELSE Raised(scanned[p], fetchedAt, now)
  BY <1>1 DEF Evaluate, NextTracker
<1>3. \A p \in DOMAIN tracker : confirmed[p].raisedAt = tracker[p].raisedAt
  <2> SUFFICES ASSUME NEW p \in DOMAIN tracker
               PROVE  confirmed[p].raisedAt = tracker[p].raisedAt
    OBVIOUS
  <2>1. tracker[p] \in Entries
    BY DEF TypeOK, IsTracker
  <2>2. QED
    BY <2>1 DEF Reconfirm, Reconfirmed, Entries
<1> SUFFICES ASSUME NEW p \in Points
             PROVE  /\ (wire'[p].state = "alarm") <=> (p \in DOMAIN tracker')
                    /\ p \in DOMAIN tracker' => wire'[p].createdAt = tracker'[p].raisedAt
  BY DEF WireMatchesTracker
<1>4. CASE p \in inAlarm \ DOMAIN tracker
  BY <1>1, <1>2, <1>4 DEF NextWire, AlarmNotice, Raised
<1>5. CASE p \in DOMAIN tracker \ inAlarm
  BY <1>1, <1>2, <1>5 DEF NextWire, ClearNotice
<1>6. CASE p \in inAlarm /\ p \in DOMAIN tracker
  BY <1>1, <1>2, <1>3, <1>6 DEF NextWire, WireMatchesTracker
<1>7. CASE p \notin inAlarm /\ p \notin DOMAIN tracker
  BY <1>1, <1>2, <1>7 DEF NextWire, WireMatchesTracker
<1>8. QED
  BY <1>4, <1>5, <1>6, <1>7

\* Inv is inductive.
LEMMA InvStep ==
    ASSUME Inv, [Next]_vars
    PROVE  Inv'
<1> USE DEF Inv
<1>1. TypeOK'
  BY TypeStep
<1>2. ASSUME NEW position \in Positions, NEW pois \in Lists, ListLands(position, pois)
      PROVE  WireMatchesTracker' /\ HeldFromLastReport' /\ ListIsReported'
  <2>1. now \in Nat /\ Evaluate(position, pois, now)
    BY <1>2 DEF ListLands, TypeOK
  <2>2. DOMAIN pois \subseteq Points
    BY ListShape
  <2>3. ListIsReported'
    BY <1>2, <2>2 DEF ListLands, ListIsReported
  <2>4. ASSUME NEW p \in DOMAIN tracker'
        PROVE  /\ tracker'[p].at = reported'[p].at
               /\ tracker'[p].lastListedAt = reported'[p].landedAt
               /\ list'.fetchedAt - reported'[p].landedAt <= Window
    <3>1. p \in Points
      BY <1>1, <2>4 DEF TypeOK, IsTracker
    <3>2. CASE p \in DOMAIN pois
      BY <1>2, <2>1, <2>4, <3>1, <3>2, EvaluateTracker, WindowAssumption DEF ListLands
    <3>3. CASE p \notin DOMAIN pois
      <4>1. /\ p \in DOMAIN tracker
            /\ tracker'[p] = tracker[p]
            /\ ~Expired(tracker[p], now)
        BY <2>1, <2>4, <3>3, EvaluateTracker
      <4>2. tracker[p].lastListedAt \in Nat
        BY <4>1 DEF TypeOK, IsTracker, Entries
      <4>3. QED
        BY <1>2, <2>1, <3>1, <3>3, <4>1, <4>2, WindowAssumption
        DEF ListLands, HeldFromLastReport, Expired
    <3>4. QED
      BY <3>2, <3>3
  <2>5. QED
    BY <2>1, <2>3, <2>4, EvaluateWire DEF HeldFromLastReport
<1>3. ASSUME NEW position \in Positions, Replay(position)
      PROVE  WireMatchesTracker' /\ HeldFromLastReport' /\ ListIsReported'
  <2>1. /\ list.pois \in Lists
        /\ list.fetchedAt \in Nat
        /\ Evaluate(position, list.pois, list.fetchedAt)
        /\ UNCHANGED <<list, reported>>
    BY <1>3 DEF Replay, TypeOK
  <2>2. ASSUME NEW p \in DOMAIN tracker'
        PROVE  /\ tracker'[p].at = reported[p].at
               /\ tracker'[p].lastListedAt = reported[p].landedAt
               /\ list.fetchedAt - reported[p].landedAt <= Window
    <3>1. CASE p \in DOMAIN list.pois
      <4>1. reported[p] = [at |-> list.pois[p], landedAt |-> list.fetchedAt]
        BY <3>1 DEF ListIsReported
      <4>2. QED
        BY <2>1, <2>2, <3>1, <4>1, EvaluateTracker, WindowAssumption
    <3>2. CASE p \notin DOMAIN list.pois
      BY <2>1, <2>2, <3>2, EvaluateTracker DEF HeldFromLastReport
    <3>3. QED
      BY <3>1, <3>2
  <2>3. QED
    BY <2>1, <2>2, EvaluateWire DEF HeldFromLastReport, ListIsReported
<1>4. ASSUME Stop
      PROVE  WireMatchesTracker' /\ HeldFromLastReport' /\ ListIsReported'
  <2>1. DOMAIN tracker' = {}
    BY <1>4 DEF Stop, NoAlarms
  <2>2. \A p \in Points : wire'[p].state = "normal"
    BY <1>4 DEF Stop, ClearedWire, NextWire, ClearNotice, WireMatchesTracker,
       TypeOK, Notices
  <2>3. ListIsReported'
    BY <1>4 DEF Stop, callerVars, histories, ListIsReported
  <2>4. QED
    BY <2>1, <2>2, <2>3 DEF WireMatchesTracker, HeldFromLastReport
<1>5. ASSUME UNCHANGED <<tracker, wire, list, reported>>
      PROVE  WireMatchesTracker' /\ HeldFromLastReport' /\ ListIsReported'
  BY <1>5 DEF WireMatchesTracker, HeldFromLastReport, ListIsReported
<1>6. CASE Tick \/ UNCHANGED vars
  BY <1>1, <1>5, <1>6 DEF Tick, vars, alarmVars, callerVars, histories
<1>7. QED
  BY <1>1, <1>2, <1>3, <1>4, <1>6 DEF Next

\* Inv always holds.
LEMMA InvAlways == Spec => []Inv
<1>1. ASSUME Init
      PROVE  Inv
  <2>1. DOMAIN tracker = {} /\ DOMAIN list.pois = {}
    BY <1>1 DEF Init, NoAlarms, NoList
  <2>2. \A p \in Points : wire[p].state = "normal"
    BY <1>1 DEF Init, Silent
  <2>3. QED
    BY <1>1, <2>1, <2>2, TypeInit
    DEF Inv, WireMatchesTracker, HeldFromLastReport, ListIsReported
<1>2. Inv /\ [Next]_vars => Inv'
  BY InvStep
<1>3. QED
  BY <1>1, <1>2, PTL DEF Spec

-----------------------------------------------------------------------------
(***************************************************************************)
(* The properties.                                                         *)
(***************************************************************************)

\* The server and the tracker never disagree about which alarms are active.
THEOREM WireFollowsTracker == Spec => []WireMatchesTracker
<1>1. Inv => WireMatchesTracker
  BY DEF Inv
<1>2. QED
  BY <1>1, InvAlways, PTL

\* An alarm stands where its point was last reported, and the list it is evaluated on
\* landed within the window of that report.  The bound is on the times of lists: while
\* none lands the list in hand is replayed, and the alarm held, without a bound.
THEOREM HoldFollowsLists == Spec => []HeldFromLastReport
<1>1. Inv => HeldFromLastReport
  BY DEF Inv
<1>2. QED
  BY <1>1, InvAlways, PTL

\* Only a stop, the geometry of the last report, or Window without a report
\* clears an alarm: a list that omits the point never does.
THEOREM ClearsAreJustified == Spec => ClearJustified
<1>1. ASSUME Inv, [Next]_vars, NEW p \in Points,
             wire[p].state = "alarm", wire'[p].state = "normal"
      PROVE  \/ stopped'
             \/ ~Within(vessel', reported'[p].at, ExitRadius)
             \/ list'.fetchedAt - reported'[p].landedAt > Window
  <2> USE DEF Inv
  <2>1. Inv'
    BY <1>1, InvStep
  <2>2. p \in DOMAIN tracker /\ p \notin DOMAIN tracker'
    BY <1>1, <2>1 DEF WireMatchesTracker
  <2>3. ASSUME NEW position \in Positions, NEW pois \in Lists, NEW fetchedAt \in Nat,
               Evaluate(position, pois, fetchedAt),
               position = vessel', fetchedAt = list'.fetchedAt,
               p \in DOMAIN pois => pois[p] = reported'[p].at,
               p \notin DOMAIN pois => reported'[p] = reported[p]
        PROVE  \/ ~Within(vessel', reported'[p].at, ExitRadius)
               \/ list'.fetchedAt - reported'[p].landedAt > Window
    <3> DEFINE scanned == Completed(tracker, pois, fetchedAt)
    <3>1. p \notin InAlarm(DOMAIN tracker, scanned, position)
      BY <2>2, <2>3 DEF Evaluate, NextTracker
    <3>2. p \in DOMAIN scanned => ~Within(position, scanned[p], ExitRadius)
      BY <2>2, <3>1 DEF InAlarm, HysteresisThreshold
    <3>3. CASE p \in DOMAIN pois
      BY <2>3, <3>2, <3>3 DEF Completed
    <3>4. CASE p \notin DOMAIN pois /\ Expired(tracker[p], fetchedAt)
      BY <1>1, <2>2, <2>3, <3>4 DEF Expired, HeldFromLastReport
    <3>5. CASE p \notin DOMAIN pois /\ ~Expired(tracker[p], fetchedAt)
      <4>1. p \in DOMAIN scanned /\ scanned[p] = tracker[p].at
        BY <2>2, <3>5 DEF Completed, Held
      <4>2. tracker[p].at = reported[p].at
        BY <1>1, <2>2 DEF HeldFromLastReport
      <4>3. QED
        BY <2>3, <3>2, <3>5, <4>1, <4>2
    <3>6. QED
      BY <3>3, <3>4, <3>5
  <2>4. ASSUME NEW position \in Positions, NEW pois \in Lists, ListLands(position, pois)
        PROVE  \/ ~Within(vessel', reported'[p].at, ExitRadius)
               \/ list'.fetchedAt - reported'[p].landedAt > Window
    <3>1. now \in Nat /\ list'.fetchedAt = now /\ vessel' = position
      BY <1>1, <2>4 DEF ListLands, TypeOK
    <3>2. QED
      BY <2>3, <2>4, <3>1 DEF ListLands
  <2>5. ASSUME NEW position \in Positions, Replay(position)
        PROVE  \/ ~Within(vessel', reported'[p].at, ExitRadius)
               \/ list'.fetchedAt - reported'[p].landedAt > Window
    <3>1. list.pois \in Lists /\ list.fetchedAt \in Nat
      BY <1>1 DEF TypeOK
    <3>2. UNCHANGED <<list, reported>> /\ vessel' = position
      BY <2>5 DEF Replay
    <3>3. p \in DOMAIN list.pois => list.pois[p] = reported'[p].at
      <4>1. ASSUME p \in DOMAIN list.pois
            PROVE  reported[p] = [at |-> list.pois[p], landedAt |-> list.fetchedAt]
        BY <1>1, <4>1 DEF ListIsReported
      <4>2. QED
        BY <3>2, <4>1
    <3>4. QED
      BY <2>3, <2>5, <3>1, <3>2, <3>3 DEF Replay
  <2>6. CASE Stop
    BY <2>6 DEF Stop
  <2>7. CASE Tick \/ UNCHANGED vars
    BY <2>2, <2>7 DEF Tick, vars, alarmVars
  <2>8. QED
    BY <1>1, <2>4, <2>5, <2>6, <2>7 DEF Next
<1>2. Inv /\ [Next]_vars =>
        [\A p \in Points :
            wire[p].state = "alarm" /\ wire'[p].state = "normal" =>
               \/ stopped'
               \/ ~Within(vessel', reported'[p].at, ExitRadius)
               \/ list'.fetchedAt - reported'[p].landedAt > Window]_vars
  BY <1>1
<1>3. QED
  BY <1>2, InvAlways, PTL DEF Spec, ClearJustified

\* Whatever the list in hand puts within the raise radius of the vessel alarms, and
\* no alarm stands beyond the exit radius.
THEOREM AlarmsFollowGeometry == Spec => []AlarmsSound
<1>1. ASSUME Init
      PROVE  AlarmsFitGeometry
  BY <1>1 DEF Init, NoList, NoAlarms, AlarmsFitGeometry
<1>2. ASSUME Inv, NEW position \in Positions, NEW pois \in Lists, NEW fetchedAt \in Nat,
             Evaluate(position, pois, fetchedAt), vessel' = position, list'.pois = pois, Inv'
      PROVE  AlarmsFitGeometry'
  <2>1. ASSUME NEW p \in DOMAIN tracker'
        PROVE  Within(vessel', reported'[p].at, ExitRadius)
    <3>1. Within(position, tracker'[p].at, ExitRadius)
      BY <1>2, EvaluateTracker DEF Inv
    <3>2. tracker'[p].at = reported'[p].at
      BY <1>2 DEF Inv, HeldFromLastReport
    <3>3. QED
      BY <1>2, <3>1, <3>2
  <2>2. ASSUME NEW p \in DOMAIN pois, Within(position, pois[p], RaiseRadius)
        PROVE  p \in DOMAIN tracker'
    <3> DEFINE scanned == Completed(tracker, pois, fetchedAt)
    <3>1. p \in DOMAIN scanned /\ scanned[p] = pois[p]
      BY DEF Completed
    <3>2. position \in Int /\ pois[p] \in Int
      BY <2>2, ListShape, PositionsAssumption DEF Within, Places
    <3>3. Within(position, scanned[p], HysteresisThreshold(p \in DOMAIN tracker))
      BY <2>2, <3>1, <3>2, RadiiAssumption DEF Within, Distance, HysteresisThreshold
    <3>4. p \in InAlarm(DOMAIN tracker, scanned, position)
      BY <3>1, <3>3 DEF InAlarm
    <3>5. QED
      BY <1>2, <3>4 DEF Evaluate, NextTracker
  <2>3. QED
    BY <1>2, <2>1, <2>2 DEF AlarmsFitGeometry
<1>3. ASSUME Inv, AlarmsFitGeometry, [Next]_vars
      PROVE  AlarmsFitGeometry'
  <2>1. Inv'
    BY <1>3, InvStep
  <2>2. ASSUME NEW position \in Positions, NEW pois \in Lists, ListLands(position, pois)
        PROVE  AlarmsFitGeometry'
    <3>1. /\ now \in Nat /\ Evaluate(position, pois, now)
          /\ vessel' = position /\ list'.pois = pois
      BY <1>3, <2>2 DEF ListLands, Inv, TypeOK
    <3>2. QED
      BY <1>2, <1>3, <2>1, <3>1
  <2>3. ASSUME NEW position \in Positions, Replay(position)
        PROVE  AlarmsFitGeometry'
    <3>1. /\ list.pois \in Lists /\ list.fetchedAt \in Nat
          /\ Evaluate(position, list.pois, list.fetchedAt)
          /\ vessel' = position /\ list'.pois = list.pois
      BY <1>3, <2>3 DEF Replay, Inv, TypeOK
    <3>2. QED
      BY <1>2, <1>3, <2>1, <3>1
  <2>4. CASE Stop
    BY <2>4 DEF Stop, AlarmsFitGeometry
  <2>5. CASE Tick \/ UNCHANGED vars
    BY <1>3, <2>5 DEF Tick, vars, alarmVars, callerVars, histories, AlarmsFitGeometry
  <2>6. QED
    BY <1>3, <2>2, <2>3, <2>4, <2>5 DEF Next
<1>4. Inv /\ AlarmsFitGeometry => AlarmsSound
  BY DEF Inv, AlarmsSound
<1>5. QED
  BY <1>1, <1>3, <1>4, InvAlways, PTL DEF Spec

\* A clear says that its alarm was left behind only if that is not held unconfirmed.
LEMMA ClearSaysWhy ==
    ASSUME NEW entry \in Entries, ClearNotice(entry).why = "moved clear"
    PROVE  ~entry.unconfirmed
<1>1. CASE entry.unconfirmed = TRUE
  <2>1. ClearNotice(entry).why = "unreported"
    BY <1>1 DEF ClearNotice
  <2>2. QED
    BY <2>1
<1>2. CASE entry.unconfirmed = FALSE
  BY <1>2
<1>3. QED
  BY <1>1, <1>2 DEF Entries

\* An evaluation clears as left behind only what lies beyond the exit radius.
LEMMA ClearedBeyondStep ==
    ASSUME Inv, ClearedBeyond, ~stopped, NEW position \in Positions, NEW pois \in Lists,
           NEW fetchedAt \in Nat, Evaluate(position, pois, fetchedAt)
    PROVE  ClearedBeyond'
<1> DEFINE confirmed == Reconfirm(tracker, pois, fetchedAt)
           scanned   == Completed(tracker, pois, fetchedAt)
           inAlarm   == InAlarm(DOMAIN tracker, scanned, position)
<1>a. SUFFICES ASSUME NEW p \in Points,
                      wire'[p].state = "normal" /\ wire'[p].why = "moved clear"
               PROVE  ~Within(departed'[p].vessel, departed'[p].place, ExitRadius)
  BY DEF ClearedBeyond
<1>1. DOMAIN confirmed = DOMAIN tracker
  BY DEF Reconfirm
<1>2. CASE p \in DOMAIN tracker \ inAlarm
  <2>1. tracker[p] \in Entries
    BY <1>2 DEF Inv, TypeOK, IsTracker
  <2>2. wire'[p] = ClearNotice(confirmed[p])
    BY <1>1, <1>2 DEF Evaluate, NextWire
  <2>3. ~confirmed[p].unconfirmed
    <3>1. confirmed[p] \in Entries
      <4>1. IsTracker(tracker)
        BY DEF Inv, TypeOK
      <4>2. IsTracker(confirmed) /\ p \in DOMAIN confirmed
        BY <1>1, <1>2, <4>1, ReconfirmType
      <4>3. QED
        BY <4>2 DEF IsTracker
    <3>2. ClearNotice(confirmed[p]).why = "moved clear"
      BY <1>a, <2>2
    <3>3. QED
      BY <3>1, <3>2, ClearSaysWhy
  <2>4. departed'[p] = [vessel |-> position, place |-> confirmed[p].at]
    BY <1>2 DEF Evaluate
  <2>5. confirmed[p] = Reconfirmed(tracker[p], p, pois, fetchedAt)
    BY <1>2 DEF Reconfirm
  <2>6. p \in DOMAIN scanned /\ scanned[p] = confirmed[p].at
    <3>1. CASE p \in DOMAIN pois
      BY <2>1, <2>5, <3>1 DEF Completed, Reconfirmed, Entries
    <3>2. CASE p \notin DOMAIN pois
      <4>1. ~Expired(tracker[p], fetchedAt)
        BY <2>1, <2>3, <2>5, <3>2 DEF Reconfirmed, Entries
      <4>2. QED
        BY <1>2, <2>5, <3>2, <4>1 DEF Completed, Held, Reconfirmed
    <3>3. QED
      BY <3>1, <3>2
  <2>7. ~Within(position, scanned[p], ExitRadius)
    BY <1>2, <2>6 DEF InAlarm, HysteresisThreshold
  <2>8. departed'[p].vessel = position /\ departed'[p].place = scanned[p]
    BY <2>4, <2>6
  <2>9. QED
    BY <2>7, <2>8
<1>3. CASE p \in inAlarm \ DOMAIN tracker
  BY <1>a, <1>1, <1>3 DEF Evaluate, NextWire, AlarmNotice
<1>4. CASE p \in inAlarm /\ p \in DOMAIN tracker
  BY <1>a, <1>1, <1>4 DEF Evaluate, NextWire, ClearedBeyond
<1>5. CASE p \notin inAlarm /\ p \notin DOMAIN tracker
  BY <1>a, <1>1, <1>5 DEF Evaluate, NextWire, ClearedBeyond
<1>6. QED
  BY <1>2, <1>3, <1>4, <1>5

\* A point cleared as left behind stays so until the vessel has crossed the band
\* between the two radii.
THEOREM BandIsCrossed == Spec => NoChatter
<1>1. ASSUME Init
      PROVE  ClearedBeyond
  BY <1>1 DEF Init, Silent, ClearedBeyond
<1>2. ASSUME Inv, ClearedBeyond, [Next]_vars
      PROVE  ClearedBeyond'
  <2>1. ASSUME NEW position \in Positions, NEW pois \in Lists, ListLands(position, pois)
        PROVE  ClearedBeyond'
    <3>1. now \in Nat /\ Evaluate(position, pois, now) /\ ~stopped
      BY <1>2, <2>1 DEF ListLands, Inv, TypeOK
    <3>2. QED
      BY <1>2, <3>1, ClearedBeyondStep
  <2>2. ASSUME NEW position \in Positions, Replay(position)
        PROVE  ClearedBeyond'
    <3>1. /\ list.pois \in Lists /\ list.fetchedAt \in Nat /\ ~stopped
          /\ Evaluate(position, list.pois, list.fetchedAt)
      BY <1>2, <2>2 DEF Replay, Inv, TypeOK
    <3>2. QED
      BY <1>2, <3>1, ClearedBeyondStep
  <2>3. CASE Stop
    BY <2>3 DEF Stop, ClearedBeyond
  <2>4. CASE Tick \/ UNCHANGED vars
    BY <1>2, <2>4 DEF Tick, vars, alarmVars, callerVars, histories, ClearedBeyond
  <2>5. QED
    BY <1>2, <2>1, <2>2, <2>3, <2>4 DEF Next
<1>3. ASSUME Inv, ClearedBeyond, [Next]_vars, NEW p \in Points,
             wire[p].state = "normal", wire[p].why = "moved clear",
             wire'[p].state = "alarm", departed[p].place = reported'[p].at
      PROVE  Distance(departed[p].vessel, vessel') > ExitRadius - RaiseRadius
  <2>1. p \notin DOMAIN tracker
    BY <1>3 DEF Inv, WireMatchesTracker
  <2>2. ASSUME NEW position \in Positions, NEW pois \in Lists, NEW fetchedAt \in Nat,
               Evaluate(position, pois, fetchedAt), vessel' = position, ~stopped,
               p \in DOMAIN pois => pois[p] = reported'[p].at
        PROVE  Distance(departed[p].vessel, vessel') > ExitRadius - RaiseRadius
    <3> DEFINE confirmed == Reconfirm(tracker, pois, fetchedAt)
               scanned   == Completed(tracker, pois, fetchedAt)
    <3>1. p \in InAlarm(DOMAIN tracker, scanned, position)
      <4>1. DOMAIN confirmed = DOMAIN tracker
        BY DEF Reconfirm
      <4>2. QED
        BY <1>3, <2>1, <2>2, <4>1 DEF Evaluate, NextWire
    <3>2. p \in DOMAIN pois /\ scanned[p] = pois[p]
      BY <2>1, <3>1 DEF InAlarm, Completed, Held
    <3>3. Within(position, departed[p].place, RaiseRadius)
      BY <1>3, <2>1, <2>2, <3>1, <3>2 DEF InAlarm, HysteresisThreshold
    <3>4. ~Within(departed[p].vessel, departed[p].place, ExitRadius)
      BY <1>3, <2>2 DEF ClearedBeyond
    <3>5. departed[p].vessel \in Int /\ departed[p].place \in Places
      BY <1>3 DEF Inv, TypeOK
    <3>6. position \in Int /\ departed[p].place \in Int
      BY <3>3, <3>5, PositionsAssumption DEF Within, Places
    <3>7. QED
      BY <2>2, <3>3, <3>4, <3>5, <3>6, RadiiAssumption DEF Within, Distance
  <2>3. ASSUME NEW position \in Positions, NEW pois \in Lists, ListLands(position, pois)
        PROVE  Distance(departed[p].vessel, vessel') > ExitRadius - RaiseRadius
    <3>1. /\ now \in Nat /\ ~stopped /\ vessel' = position /\ Evaluate(position, pois, now)
          /\ p \in DOMAIN pois => pois[p] = reported'[p].at
      BY <1>3, <2>3 DEF ListLands, Inv, TypeOK
    <3>2. QED
      BY <2>2, <3>1
  <2>4. ASSUME NEW position \in Positions, Replay(position)
        PROVE  Distance(departed[p].vessel, vessel') > ExitRadius - RaiseRadius
    <3>1. /\ list.pois \in Lists /\ list.fetchedAt \in Nat /\ ~stopped
          /\ vessel' = position /\ Evaluate(position, list.pois, list.fetchedAt)
          /\ reported' = reported
      BY <1>3, <2>4 DEF Replay, Inv, TypeOK
    <3>2. p \in DOMAIN list.pois => list.pois[p] = reported'[p].at
      <4>1. ASSUME p \in DOMAIN list.pois
            PROVE  reported[p] = [at |-> list.pois[p], landedAt |-> list.fetchedAt]
        BY <1>3, <4>1 DEF Inv, ListIsReported
      <4>2. QED
        BY <3>1, <4>1
    <3>3. QED
      BY <2>2, <3>1, <3>2
  <2>5. CASE Stop
    BY <1>3, <2>1, <2>5 DEF Stop, ClearedWire, NextWire
  <2>6. CASE Tick \/ UNCHANGED vars
    BY <1>3, <2>6 DEF Tick, vars, alarmVars
  <2>7. QED
    BY <1>3, <2>3, <2>4, <2>5, <2>6 DEF Next
<1>4. Inv /\ ClearedBeyond /\ [Next]_vars =>
        [\A p \in Points :
            /\ wire[p].state = "normal"
            /\ wire[p].why = "moved clear"
            /\ wire'[p].state = "alarm"
            /\ departed[p].place = reported'[p].at
            => Distance(departed[p].vessel, vessel') > ExitRadius - RaiseRadius]_vars
  BY <1>3
<1>5. QED
  BY <1>1, <1>2, <1>4, InvAlways, PTL DEF Spec, NoChatter
=============================================================================
