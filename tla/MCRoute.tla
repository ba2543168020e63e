------------------------------- MODULE MCRoute -------------------------------
(***************************************************************************)
(* The route, its cache, its alarms and its corridor: a run is one of      *)
(*   - the course reader alone, for a longer series of deltas;             *)
(*   - the reader with the monitor and the route alarms, two routes with a *)
(*     hazard on each and a vessel lying still;                            *)
(*   - one tick over the corridor of a route of up to four points.         *)
(* What a run does not move stays as it began.                             *)
(***************************************************************************)
EXTENDS RouteHazardScan, RouteCorridor

CONSTANTS r1, r2, h1, h2

MCPoints == {h1, h2}
MCRoutes == {r1, r2}
MCAhead == [r \in MCRoutes |-> IF r = r1 THEN {h1} ELSE {h2}]
MCPositions == {0}
MCTurns == {0, 4, 8} \X {0, 4}
MCSea == (-2..10) \X (-2..6)

VARIABLE part   \* which of the three this run is

LongReader == INSTANCE CourseReader WITH MaxChanges <- 3

outputVars == <<monitorVars, alarmVars>>
routeVars == <<part, readerVars, outputVars, corridorVars>>

RouteInit ==
    /\ part \in {"reader", "scan", "corridor"}
    /\ part = "corridor" => course = NoRoute
    /\ part # "corridor" => legPoints = [n \in 1..2 |-> <<0, 0>>]
    /\ ScanInit /\ CorridorInit

RouteNext ==
    /\ \/ part = "reader"   /\ LongReader!ReaderNext /\ UNCHANGED <<outputVars, corridorVars>>
       \/ part = "scan"     /\ ScanNext              /\ UNCHANGED corridorVars
       \/ part = "corridor" /\ CorridorNext /\ UNCHANGED <<readerVars, outputVars>>
    /\ UNCHANGED part

RouteSpec ==
    /\ RouteInit /\ [][RouteNext]_routeVars
    /\ WF_routeVars(part = "reader" /\ OnDelta /\ UNCHANGED <<part, outputVars, corridorVars>>)
    /\ WF_routeVars(part = "reader" /\ Continue /\ UNCHANGED <<part, outputVars, corridorVars>>)

-----------------------------------------------------------------------------
\* The cached route comes to be the course, once the course is left alone.
ReaderConverges == part = "reader" => Converges
=============================================================================
