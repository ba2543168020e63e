--------------------------- MODULE MCBboxDebounce ---------------------------
(***************************************************************************)
(* Three tiles in a cache of two, a view of the first of which may be near *)
(* to the second: one eviction and one neighbour in reach.                 *)
(***************************************************************************)
EXTENDS BboxDebounce

CONSTANTS t1, t2, t3, r1, r2

MCNeighbours == [t \in Tiles |-> IF t = t1 THEN {t2} ELSE {}]
=============================================================================
