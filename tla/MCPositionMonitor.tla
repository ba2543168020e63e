-------------------------- MODULE MCPositionMonitor --------------------------
(***************************************************************************)
(* The monitor with the proximity alarms behind it.  A vessel comes and    *)
(* goes between a hazard at 0, a place less than a sampling distance away, *)
(* and one clear of it that leaves the covered water and jumps over a      *)
(* chord; the hazard is listed or it is not.                               *)
(***************************************************************************)
EXTENDS MonitoredProximity

CONSTANT h1

MCPoints == {h1}
MCPositions == {0, 1, 4}
MCAnswers == {[p \in MCPoints |-> 0], NoPois}
=============================================================================
