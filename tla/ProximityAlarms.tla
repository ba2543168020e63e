--------------------------- MODULE ProximityAlarms ---------------------------
(***************************************************************************)
(* The proximity hazard alarms (src/outputs/proximity-alarm).  One         *)
(* evaluation is synchronous: it completes the list with the alarms it     *)
(* omitted, raises the hazards that came within the radius, and clears     *)
(* those that left.  The caller, the position monitor, is the environment  *)
(* here: lists land with any part of the upstream data missing, and the    *)
(* last one is replayed as the vessel moves.                               *)
(***************************************************************************)
EXTENDS AlarmRetention

CONSTANTS
    StartTime,  \* what the clock reads when the output starts
    MaxTime     \* bound: the clock stops here

ASSUME TimeAssumption == StartTime \in Nat /\ MaxTime \in Nat

VARIABLES
    tracker,    \* the active alarms
    wire,       \* the notification the server shows for each point
    stopped,    \* the output has been stopped
    now,        \* the clock
    list,       \* the last list that landed and when: what a replay replays
    vessel,     \* the fix the last evaluation ran at
    reported,   \* history: the last report of each point, by any list
    departed    \* history: where the vessel and the point were at the last clear

alarmVars == <<tracker, wire, stopped>>
callerVars == <<now, list, vessel>>
histories == <<reported, departed>>
vars == <<alarmVars, callerVars, histories>>

NoList == [pois |-> [p \in {} |-> Unplaced], fetchedAt |-> 0]

Never == [at |-> Unplaced, landedAt |-> 0]

NotYet == [vessel |-> 0, place |-> Unplaced]

Init ==
    /\ tracker = NoAlarms
    /\ wire = [p \in Points |-> Silent]
    /\ stopped = FALSE
    /\ now = StartTime
    /\ list = NoList
    /\ vessel \in Positions
    /\ reported = [p \in Points |-> Never]
    /\ departed = [p \in Points |-> NotYet]

-----------------------------------------------------------------------------
\* Fault: an alarm once active stays active while its point is scanned.
InAlarmLatched(active, scanned, position) ==
    {p \in DOMAIN scanned : p \in active \/ Within(position, scanned[p], RaiseRadius)}

\* The hazards that should alarm after this pass.
InAlarm(active, scanned, position) ==
    {p \in DOMAIN scanned :
        Within(position, scanned[p], HysteresisThreshold(p \in active))}

\* evaluate(vesselPosition, pois, listFetchedAt).
Evaluate(position, pois, fetchedAt) ==
    LET confirmed == Reconfirm(tracker, pois, fetchedAt)
        scanned   == Completed(tracker, pois, fetchedAt)
        inAlarm   == InAlarm(DOMAIN tracker, scanned, position)
    IN  /\ tracker' = NextTracker(confirmed, scanned, inAlarm, fetchedAt, now)
        /\ wire' = NextWire(wire, confirmed, inAlarm, now)
        /\ departed' = [p \in Points |->
              IF p \in DOMAIN tracker \ inAlarm
                THEN [vessel |-> position, place |-> confirmed[p].at]
                ELSE departed[p]]
        /\ UNCHANGED stopped

\* A list request lands: the new list is evaluated at the newest fix.
ListLands(position, pois) ==
    /\ ~stopped
    /\ list' = [pois |-> pois, fetchedAt |-> now]
    /\ vessel' = position
    /\ reported' = [p \in Points |-> IF p \in DOMAIN pois
                                       THEN [at |-> pois[p], landedAt |-> now]
                                       ELSE reported[p]]
    /\ Evaluate(position, pois, now)
    /\ UNCHANGED now

\* Fault: a replay passes for a fresh report.
ReplayAsFresh(position) ==
    /\ ~stopped
    /\ vessel' = position
    /\ Evaluate(position, list.pois, now)
    /\ UNCHANGED <<now, list, reported>>

\* A fix between two requests replays the list in hand.
Replay(position) ==
    /\ ~stopped
    /\ vessel' = position
    /\ Evaluate(position, list.pois, list.fetchedAt)
    /\ UNCHANGED <<now, list, reported>>

\* The output's stop(): every active alarm is cleared.
Stop ==
    /\ ~stopped
    /\ stopped' = TRUE
    /\ tracker' = NoAlarms
    /\ wire' = ClearedWire(wire, tracker)
    /\ UNCHANGED <<callerVars, histories>>

Tick ==
    /\ now < MaxTime
    /\ now' = now + 1
    /\ UNCHANGED <<alarmVars, list, vessel, histories>>

Next ==
    \/ \E position \in Positions, pois \in Lists : ListLands(position, pois)
    \/ \E position \in Positions : Replay(position)
    \/ Stop
    \/ Tick

Spec == Init /\ [][Next]_vars

-----------------------------------------------------------------------------
\* The types of the state.
TypeOK ==
    /\ IsTracker(tracker)
    /\ wire \in [Points -> Notices]
    /\ stopped \in BOOLEAN
    /\ now \in Nat
    /\ list \in [pois: Lists, fetchedAt: Nat]
    /\ vessel \in Positions
    /\ reported \in [Points -> [at: Places, landedAt: Nat]]
    /\ departed \in [Points -> [vessel: Int, place: Places]]

\* The server and the tracker never disagree: a point shows an alarm exactly
\* while it is active, and with the time its episode began (notification-tracker).
WireMatchesTracker ==
    \A p \in Points :
        /\ (wire[p].state = "alarm") <=> (p \in DOMAIN tracker)
        /\ p \in DOMAIN tracker => wire[p].createdAt = tracker[p].raisedAt

\* An alarm is held at the place a list last put it, and the list in hand landed no
\* later than Window after that one.  Replays of an older list, however many, neither
\* restart that clock nor advance it: a hold ends with a list that lands
\* (completeWithRetained, evaluateAll's listFetchedAt).
HeldFromLastReport ==
    \A p \in DOMAIN tracker :
        /\ tracker[p].at = reported[p].at
        /\ tracker[p].lastListedAt = reported[p].landedAt
        /\ list.fetchedAt - reported[p].landedAt <= Window

\* The list in hand is the last report of every point it names.
ListIsReported ==
    \A p \in DOMAIN list.pois :
        reported[p] = [at |-> list.pois[p], landedAt |-> list.fetchedAt]

\* The inductive invariant behind the theorems.
Inv == TypeOK /\ WireMatchesTracker /\ HeldFromLastReport /\ ListIsReported

\* After an evaluation the alarms fit the geometry: whatever the list puts
\* within the raise radius alarms, and no alarm stands beyond the exit radius.
AlarmsFitGeometry ==
    ~stopped =>
        /\ \A p \in DOMAIN list.pois :
              Within(vessel, list.pois[p], RaiseRadius) => p \in DOMAIN tracker
        /\ \A p \in DOMAIN tracker : Within(vessel, reported[p].at, ExitRadius)

\* What an evaluation leaves behind, as the runs check it: the server shows the
\* alarms there are, each is held from its point's last report, and they fit it.
AlarmsSound == TypeOK /\ WireMatchesTracker /\ HeldFromLastReport /\ AlarmsFitGeometry

\* A point whose alarm was cleared as left behind lay beyond the exit radius when
\* it was.
ClearedBeyond ==
    ~stopped => \A p \in Points :
        wire[p].state = "normal" /\ wire[p].why = "moved clear" =>
            ~Within(departed[p].vessel, departed[p].place, ExitRadius)

\* A list that omits a point never clears its alarm by omitting it: an alarm
\* clears because the output stopped, because the point's last report is out of
\* the exit radius or unusable, or because nothing reported it for Window.
ClearJustified ==
    [][\A p \in Points :
          wire[p].state = "alarm" /\ wire'[p].state = "normal" =>
             \/ stopped'
             \/ ~Within(vessel', reported'[p].at, ExitRadius)
             \/ list'.fetchedAt - reported'[p].landedAt > Window]_vars

\* No chatter on the boundary: between the clear of an alarm and its next raise
\* at the same place the vessel has crossed the whole hysteresis band.
\* (An alarm given up as unreported is still inside it, and may come back.)
NoChatter ==
    [][\A p \in Points :
          /\ wire[p].state = "normal"
          /\ wire[p].why = "moved clear"
          /\ wire'[p].state = "alarm"
          /\ departed[p].place = reported'[p].at
          => Distance(departed[p].vessel, vessel') > ExitRadius - RaiseRadius]_vars
=============================================================================
