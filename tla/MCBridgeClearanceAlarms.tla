----------------------- MODULE MCBridgeClearanceAlarms -----------------------
(***************************************************************************)
(* One bridge that lies still, seen from under it, from the hysteresis     *)
(* band and from beyond; clearances below and above the one air draft.     *)
(***************************************************************************)
EXTENDS BridgeClearanceAlarms

CONSTANT b1

MCPoints == {b1}
MCPositions == {0, 6, 7}
MCClearances == {2, 4}
MCDrafts == {3}

\* Bound: every list puts the bridge at one place.
LyingStill == \A p \in DOMAIN list.pois : list.pois[p].place = 0

StillSpec == Init /\ [][Next /\ LyingStill']_vars /\ Fairness
=============================================================================
