-------------------------- MODULE MonitoredProximity --------------------------
(***************************************************************************)
(* The proximity alarms driven by the position monitor, as the plugin      *)
(* wires them: whenever the monitor evaluates its contributors, the alarm  *)
(* output sees the fix, the list and the time the list landed, and the     *)
(* plugin's teardown stops the one and then the other.                     *)
(*                                                                         *)
(* ProximityAlarms assumed a caller.  Refines says the monitor is one.     *)
(***************************************************************************)
EXTENDS PositionMonitor, AlarmRetention

\* The vessel is somewhere, the sources answer with lists of points, and the output is
\* enabled, so that the monitor has a zone to watch.
ASSUME MonitoredAssumption ==
    Fixes # {} /\ Fixes \subseteq Positions /\ Answers \subseteq Lists /\ HasZone = TRUE

VARIABLES
    tracker, wire,      \* the proximity alarms
    reported, departed  \* their histories

alarmVars == <<tracker, wire, reported, departed>>
monitoredVars == <<vars, alarmVars>>

NoPois == [p \in {} |-> Unplaced]

\* The alarms' caller, read off the monitor: the list it would replay, and the
\* fix of its last evaluation.
SeenList == IF lastList.pois = NoAnswer THEN [pois |-> NoPois, fetchedAt |-> 0] ELSE lastList
SeenVessel == IF lastEvaluationPosition = NoFix
                THEN CHOOSE p \in Fixes : TRUE ELSE lastEvaluationPosition

Alarms == INSTANCE ProximityAlarms WITH
    StartTime <- Epoch, list <- SeenList, vessel <- SeenVessel

MonitoredInit ==
    /\ Init
    /\ tracker = NoAlarms
    /\ wire = [p \in Points |-> Silent]
    /\ reported = [p \in Points |-> Alarms!Never]
    /\ departed = [p \in Points |-> Alarms!NotYet]

-----------------------------------------------------------------------------
\* The last report of each point: what a list that lands says of those it names.
Reported(pois) ==
    [p \in Points |-> IF p \in DOMAIN pois
                        THEN [at |-> pois[p], landedAt |-> now] ELSE reported[p]]

\* Fault: the output takes the list for one that lands as it is evaluated.
ReactWithoutFetchTime ==
    \/ evaluation' = evaluation /\ UNCHANGED alarmVars
    \/ /\ evaluation' # evaluation
       /\ Alarms!Evaluate(evaluation'.at, evaluation'.list.pois, now)
       /\ reported' = IF evaluation'.targets = "all"
                        THEN Reported(evaluation'.list.pois) ELSE reported

\* positionScan.evaluate, whenever the monitor calls it.
React ==
    \/ evaluation' = evaluation /\ UNCHANGED alarmVars
    \/ /\ evaluation' # evaluation
       /\ Alarms!Evaluate(evaluation'.at, evaluation'.list.pois,
                          evaluation'.list.fetchedAt)
       /\ reported' = IF evaluation'.targets = "all"
                        THEN Reported(evaluation'.list.pois) ELSE reported

\* A handler of the monitor, and the output as it is called.
MonitorStep(handler) == handler /\ React

\* teardown: the monitor stops, then the output clears its alarms.
Teardown ==
    /\ Stop
    /\ tracker' = NoAlarms
    /\ wire' = ClearedWire(wire, tracker)
    /\ UNCHANGED <<reported, departed>>

MonitoredNext ==
    \/ \E p \in Fixes : MonitorStep(OnPosition(p))
    \/ MonitorStep(RequestScan)
    \/ MonitorStep(Settle)
    \/ MonitorStep(Finally)
    \/ MonitorStep(Advance)
    \/ Teardown

MonitoredSpec == MonitoredInit /\ [][MonitoredNext]_monitoredVars

-----------------------------------------------------------------------------
\* The monitor is the caller the alarms count on: it evaluates the newest list
\* with the time it landed, replays nothing else, and never after the stop.
Refines == Alarms!Spec

\* At every fix, whatever the list in hand places deeper inside the radius than
\* one sampling distance is alarming, and nothing that far outside the exit
\* radius is, unless the last evaluation was within the shortest interval.
FixesAreChecked ==
    ~stopped /\ lastList.pois # NoAnswer /\ lastFixTime = now
    /\ now - lastEvaluationTime >= MinEvaluation
    => /\ \A p \in DOMAIN lastList.pois :
             Within(latestPosition, lastList.pois[p], RaiseRadius - EvaluationMove + 1) =>
                p \in DOMAIN tracker
       /\ \A p \in DOMAIN tracker :
             Within(latestPosition, reported[p].at, ExitRadius + EvaluationMove - 1)
=============================================================================
