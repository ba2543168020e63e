--------------------------- MODULE RouteHazardScan ---------------------------
(***************************************************************************)
(* The route-corridor output (src/outputs/route-hazard) between the two    *)
(* components it joins.  The course reader tells it of a change of the     *)
(* route, and it asks the position monitor for a scan; the monitor asks it *)
(* for a box, for which it takes the route of the tick, and hands it the   *)
(* answer, which it evaluates against that same route.                     *)
(*                                                                         *)
(* The corridor geometry is left to Ahead: the points that lie in the      *)
(* corridor of each route from where the vessel is.                        *)
(***************************************************************************)
EXTENDS AlarmRetention, CourseReader

CONSTANTS
    Ahead,          \* scanRouteCorridor: the points ahead on each route
    NoFix, NoAnswer, HasZone, MinMove, MinInterval, CoverageMove, EvaluationMove,
    CoveredChord, MinEvaluation, MaxEvaluation, CoverageReportInterval, MaxTime

ASSUME ScanAssumption ==
    /\ Ahead \in [Routes -> SUBSET Points]
    /\ NoFix \notin Positions /\ NoAnswer \notin Lists

VARIABLES
    stopped, tickInFlight, forcedTickPending, latestPosition, lastTickPosition,
    lastTickTime, lastList, lastEvaluationPosition, lastEvaluationTime,
    lastCoverageReportTime, requests, settling, now, evaluation, listAround,
    lastFixTime, lastRequest,
    tickRoute,      \* the route read in buildFetchBox, reused in evaluate
    tracker, wire,  \* the route alarms
    tickFailed      \* history: the last tick's request failed

NoPois == [p \in {} |-> Unplaced]

Monitor == INSTANCE PositionMonitor WITH
    Fixes <- Positions, Answers <- Lists, EmptyAnswer <- NoPois

monitorVars == <<stopped, tickInFlight, forcedTickPending, latestPosition,
                 lastTickPosition, lastTickTime, lastList, lastEvaluationPosition,
                 lastEvaluationTime, lastCoverageReportTime, requests, settling, now,
                 evaluation, listAround, lastFixTime, lastRequest>>
alarmVars == <<tickRoute, tracker, wire, tickFailed>>
scanVars == <<monitorVars, readerVars, alarmVars>>

ScanInit ==
    /\ Monitor!Init
    /\ ReaderInit
    /\ tickRoute = NoRoute
    /\ tracker = NoAlarms
    /\ wire = [p \in Points |-> Silent]
    /\ tickFailed = FALSE

-----------------------------------------------------------------------------
(* The output's side of a step of the monitor. *)

\* The corridor of a route; without one there is nothing ahead.
AheadOn(route) == IF route = NoRoute THEN {} ELSE Ahead[route]

RequestSent == Len(requests') > Len(requests)

\* Without a zone contributor the route is the only one to offer a box.
TickWithoutBox == ~HasZone /\ evaluation' # evaluation /\ listAround' = NoFix

\* Fault: the route is read when the output starts and never again.
BuildFetchBoxOnce ==
    tickRoute' = IF tickRoute = NoRoute /\ (RequestSent \/ TickWithoutBox)
                   THEN currentRoute' ELSE tickRoute

\* buildFetchBox: the tick takes the route, and offers a box if there is one.
BuildFetchBox ==
    /\ RequestSent => HasZone \/ currentRoute' # NoRoute
    /\ TickWithoutBox => currentRoute' = NoRoute
    /\ tickRoute' = IF RequestSent \/ TickWithoutBox THEN currentRoute' ELSE tickRoute

\* The points ahead among those the completed list places.
Flagged(scanned) ==
    {p \in DOMAIN scanned : scanned[p] # Unplaced /\ p \in AheadOn(tickRoute')}

\* completeList and evaluate, over the route of the tick.
Evaluate(pois, fetchedAt) ==
    LET confirmed == Reconfirm(tracker, pois, fetchedAt)
        scanned   == Completed(tracker, pois, fetchedAt)
    IN  /\ tracker' = NextTracker(confirmed, scanned, Flagged(scanned), fetchedAt, now)
        /\ wire' = NextWire(wire, confirmed, Flagged(scanned), now)

\* A look-ahead output is evaluated on the ticks, not on the replays.
React ==
    /\ BuildFetchBox
    /\ IF evaluation' # evaluation /\ evaluation'.targets = "all"
         THEN /\ Evaluate(evaluation'.list.pois, evaluation'.list.fetchedAt)
              /\ tickFailed' = FALSE
         ELSE /\ UNCHANGED <<tracker, wire>>
              /\ tickFailed' = (tickFailed \/ (settling' /\ ~settling))

-----------------------------------------------------------------------------
(* The steps. *)

\* The monitor runs a handler, or the rest of one.
MonitorStep(handler) == handler /\ UNCHANGED readerVars /\ React

OnPosition == \E p \in Positions : MonitorStep(Monitor!OnPosition(p))
Settle     == MonitorStep(Monitor!Settle)
Finally    == MonitorStep(Monitor!Finally)
Advance    == MonitorStep(Monitor!Advance)

\* Fault: a change of the route waits for the next tick.
ReaderStepUntold(step) ==
    /\ Monitor!Idle
    /\ step
    /\ UNCHANGED monitorVars
    /\ React

\* The reader runs a handler; if the route has changed it asks for a scan.
ReaderStep(step) ==
    /\ Monitor!Idle
    /\ step
    /\ IF changed' # changed THEN Monitor!RequestScan ELSE UNCHANGED monitorVars
    /\ React

HearDelta       == ReaderStep(OnDelta)
ContinueRefresh == ReaderStep(Continue)

\* The server's own steps.
ServerStep ==
    /\ Activate \/ NextLeg \/ Cancel
    /\ UNCHANGED <<monitorVars, alarmVars>>

\* teardown: the monitor stops, then the output clears its alarms and its reader.
Stop ==
    /\ Monitor!Stop
    /\ StopReader
    /\ tracker' = NoAlarms
    /\ wire' = ClearedWire(wire, tracker)
    /\ UNCHANGED <<tickRoute, tickFailed>>

ScanNext ==
    \/ OnPosition \/ Settle \/ Finally \/ Advance
    \/ HearDelta \/ ContinueRefresh \/ ServerStep
    \/ Stop

ScanSpec == ScanInit /\ [][ScanNext]_scanVars

\* Requests settle, continuations run, deltas are delivered and calls answered.
FairScanSpec ==
    /\ ScanSpec
    /\ WF_scanVars(Settle) /\ WF_scanVars(Finally)
    /\ WF_scanVars(HearDelta) /\ WF_scanVars(ContinueRefresh)

-----------------------------------------------------------------------------
\* A tick never works on an outdated route for longer than its own request: when
\* the route of the tick is not the reader's, a request is out and the forced
\* tick that will take the new one is pending behind it.
OutdatedRouteIsRescanned ==
    ~stopped /\ latestPosition # NoFix /\ tickRoute # currentRoute =>
        tickInFlight /\ forcedTickPending

\* With no request out and the last one answered, the alarms are those of the
\* route being followed: every placed point of the list that lies ahead on it
\* warns, and nothing that does not.
AlarmsAreAhead ==
    ~stopped /\ ~tickInFlight /\ ~tickFailed /\ lastList.pois # NoAnswer =>
        /\ DOMAIN tracker \subseteq AheadOn(currentRoute)
        /\ \A p \in DOMAIN lastList.pois \cap AheadOn(currentRoute) :
              lastList.pois[p] # Unplaced => p \in DOMAIN tracker

\* The server shows the alarms that are tracked and no other, and none once the output
\* is torn down, whatever was out and comes in after.
AlarmsAreShown ==
    /\ \A p \in Points : wire[p].state = "alarm" <=> p \in DOMAIN tracker
    /\ stopped => DOMAIN tracker = {}

\* A route the alarms were not evaluated for is scanned, a scan leaves the alarms of
\* that route alone, and those are what the server shows.
AlarmsFollowRoute == OutdatedRouteIsRescanned /\ AlarmsAreAhead /\ AlarmsAreShown

\* A cancelled route takes its alarms with it while the vessel lies still.
CancelledRouteClears ==
    currentRoute = NoRoute /\ tracker # NoAlarms ~>
        tracker = NoAlarms \/ currentRoute # NoRoute
=============================================================================
