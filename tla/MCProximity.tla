----------------------------- MODULE MCProximity -----------------------------
(***************************************************************************)
(* The proximity alarms, and how finely they are sampled: a run is one of  *)
(*   - the alarms alone, on the water within and just outside the two      *)
(*     radii of a hazard at 0;                                             *)
(*   - the sampling of zones of 3, 6, 20 and 800 m: too tight to cover,    *)
(*     with the distance floor above half the chord, sampled at half the   *)
(*     chord, and capped.                                                  *)
(* What a run does not move stays as it began.                             *)
(***************************************************************************)
EXTENDS ProximityAlarms, ScanCadence

CONSTANT h1

MCPoints == {h1}
MCPositions == {0, 5, 6, 7}

\* Fixes within a second, evenly and unevenly; a vessel lying still, at what the floor
\* leaves of 6 m, lost to the floor there, at half and at all of what 20 m covers; and
\* drifts inside and outside the margins of every box.
MCRadii == {300, 600, 2000, 80000}
MCFixGaps == {4, 9, 10}
MCSpeeds == {0, 22, 49, 120, 240}
MCDrifts == {0, 119999, 120000, 160000, 198000, 199999}

VARIABLE part    \* which of the two this run is

proximityVars == <<part, vars, cadenceVars>>

ProximityInit ==
    /\ part \in {"alarms", "cadence"}
    /\ part # "alarms" => vessel = 7
    /\ part # "cadence" => radii = {300} /\ topSpeed = 0
    /\ Init /\ CadenceInit

ProximityNext ==
    /\ \/ part = "alarms"  /\ Next        /\ UNCHANGED cadenceVars
       \/ part = "cadence" /\ CadenceNext /\ UNCHANGED vars
    /\ UNCHANGED part

ProximitySpec == ProximityInit /\ [][ProximityNext]_proximityVars
=============================================================================
