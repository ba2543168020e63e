-------------------------- MODULE MCRouteHazardScan --------------------------
(***************************************************************************)
(* A vessel lying still, and two routes with a hazard on each.             *)
(***************************************************************************)
EXTENDS RouteHazardScan

CONSTANTS h1, h2, r1, r2

MCPoints == {h1, h2}
MCRoutes == {r1, r2}
MCAhead == [r \in MCRoutes |-> IF r = r1 THEN {h1} ELSE {h2}]
MCPositions == {0}
=============================================================================
