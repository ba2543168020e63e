---------------------------- MODULE RouteCorridor ----------------------------
(***************************************************************************)
(* The geometry of one route-hazard tick: the box that is asked for        *)
(* (route-hazard-output.ts, routeCorridorBbox), and the scan of what lies  *)
(* in the corridor of the route (route-corridor.ts, scanRouteCorridor) one *)
(* leg after the other.  The sea is flat and the legs run along its axes,  *)
(* so that projections are whole numbers; there is a point of interest of  *)
(* every kind at every place, named by the two.                            *)
(***************************************************************************)
EXTENDS Integers, Sequences

CONSTANTS
    Turns,          \* the places where routes turn, start and end
    Sea,            \* the places of points of interest
    Kinds,          \* their types
    CorridorKinds,  \* CORRIDOR_POI_TYPES
    MaxPoints,      \* bound: the points of a route
    HalfWidth,      \* corridorHalfWidthMeters
    LookAhead,      \* ROUTE_LOOK_AHEAD_METERS
    NoBox

ASSUME CorridorAssumption ==
    /\ Turns \subseteq Int \X Int /\ Sea \subseteq Int \X Int /\ CorridorKinds \subseteq Kinds
    /\ MaxPoints \in Nat /\ HalfWidth \in Nat \ {0} /\ LookAhead \in Nat \ {0}
    /\ NoBox \notin [west: Int, east: Int, south: Int, north: Int]

VARIABLES
    legPoints,  \* routeLegPoints: the vessel and the waypoints
    next,       \* the point or leg the loop is at
    travelled,  \* the length of the legs behind it
    phase,      \* "box", "scan" or "done"
    box,        \* what the tick asks for
    flagged,    \* the points of interest in the corridor -> their nearest projection
    asked       \* history: how far along these legs the box was asked for, -1 when the
                \* vessel has left the leg it was on

corridorVars == <<legPoints, next, travelled, phase, box, flagged, asked>>

Poi == Sea \X Kinds

Magnitude(x) == IF x < 0 THEN -x ELSE x
Lower(a, b) == IF a < b THEN a ELSE b
Higher(a, b) == IF a > b THEN a ELSE b
Sign(x) == IF x < 0 THEN -1 ELSE IF x > 0 THEN 1 ELSE 0

Along(a, b) == a[1] = b[1] \/ a[2] = b[2]
LegLength(a, b) == Magnitude(a[1] - b[1]) + Magnitude(a[2] - b[2])
Heading(a, b) == <<Sign(b[1] - a[1]), Sign(b[2] - a[2])>>

\* The monitor's fix is the first point, and a route has a waypoint ahead.
CorridorInit ==
    /\ legPoints \in UNION {[1..n -> Turns] : n \in 2..MaxPoints}
    /\ \A i \in 1..(Len(legPoints) - 1) : Along(legPoints[i], legPoints[i + 1])
    /\ next = 1 /\ travelled = 0 /\ phase = "box" /\ box = NoBox /\ flagged = <<>>
    /\ asked = LookAhead

-----------------------------------------------------------------------------
Around(p) == [west |-> p[1] - HalfWidth, east |-> p[1] + HalfWidth,
              south |-> p[2] - HalfWidth, north |-> p[2] + HalfWidth]

Hull(b, p) ==
    IF b = NoBox THEN Around(p)
    ELSE [west |-> Lower(b.west, Around(p).west), east |-> Higher(b.east, Around(p).east),
          south |-> Lower(b.south, Around(p).south), north |-> Higher(b.north, Around(p).north)]

\* Fault: the leg that passes the look-ahead is left out.
LegLeftOut(from, to) == from

\* routeCorridorBbox: the point where the look-ahead ends on a leg that passes it.
ClippedPoint(from, to) ==
    LET remaining == LookAhead - travelled IN
    <<from[1] + remaining * Heading(from, to)[1], from[2] + remaining * Heading(from, to)[2]>>

LegTo(i) == IF i = 1 THEN 0 ELSE LegLength(legPoints[i - 1], legPoints[i])

\* One more point of the route in the box, unless the look-ahead ends before it.
BoxPoint ==
    /\ phase = "box" /\ next <= Len(legPoints)
    /\ LET clipped == LegTo(next) > LookAhead - travelled
           point == IF clipped THEN ClippedPoint(legPoints[next - 1], legPoints[next])
                    ELSE legPoints[next]
           last == clipped \/ travelled + LegTo(next) >= LookAhead
       IN /\ box' = Hull(box, point)
          /\ travelled' = IF clipped THEN travelled ELSE travelled + LegTo(next)
          /\ next' = IF last THEN Len(legPoints) + 1 ELSE next + 1
    /\ UNCHANGED <<legPoints, phase, flagged, asked>>

Between(fix, from, to) ==
    /\ fix[1] \in Lower(from[1], to[1])..Higher(from[1], to[1])
    /\ fix[2] \in Lower(from[2], to[2])..Higher(from[2], to[2])

\* The list that was asked for with the box is there, and scanned from the latest fix.
BeginScan(fix) ==
    /\ phase = "box" /\ next > Len(legPoints)
    /\ Along(fix, legPoints[2])
    /\ legPoints' = [legPoints EXCEPT ![1] = fix]
    /\ asked' = IF Between(fix, legPoints[1], legPoints[2])
                  THEN LookAhead - LegLength(legPoints[1], fix) ELSE -1
    /\ phase' = "scan" /\ next' = 1 /\ travelled' = 0
    /\ UNCHANGED <<box, flagged>>

\* projectPointOntoLeg: how far along the leg, and how far off it to the right.
Projection(from, to, p) ==
    LET h == Heading(from, to) IN
    [along |-> (p[1] - from[1]) * h[1] + (p[2] - from[2]) * h[2],
     cross |-> (p[1] - from[1]) * h[2] - (p[2] - from[2]) * h[1]]

InCorridor(projection, length) ==
    Magnitude(projection.cross) <= HalfWidth /\ projection.along \in 0..length

\* Fault: the first projection of a point is kept.
FirstWins(old, new) == FALSE

\* A projection from nearer by is the better one, an earlier one if as near.
Better(old, new) ==
    \/ Magnitude(new.cross) < Magnitude(old.cross)
    \/ Magnitude(new.cross) = Magnitude(old.cross) /\ new.along < old.along

\* One leg of scanRouteCorridor.  A leg without a length is passed over.
ScanLeg ==
    /\ phase = "scan" /\ next < Len(legPoints)
    /\ LET from == legPoints[next]
           to == legPoints[next + 1]
           length == LegLength(from, to)
           onRoute(p) == [Projection(from, to, p[1]) EXCEPT !.along = @ + travelled]
           hit == IF length = 0 THEN {}
                  ELSE {p \in Poi : p[2] \in CorridorKinds
                                      /\ InCorridor(Projection(from, to, p[1]), length)}
           taken == {p \in hit : p \in DOMAIN flagged => Better(flagged[p], onRoute(p))}
       IN /\ flagged' = [p \in DOMAIN flagged \cup taken |->
                            IF p \in taken THEN onRoute(p) ELSE flagged[p]]
          /\ travelled' = travelled + length
    /\ next' = next + 1
    /\ UNCHANGED <<legPoints, phase, box, asked>>

\* Fault: the look-ahead bounds the box alone.
WithinAnyReach(along) == TRUE

WithinLookAhead(along) == along <= LookAhead

\* The flagged points are handed on, but those whose projection is past the look-ahead.
EndScan ==
    /\ phase = "scan" /\ next = Len(legPoints)
    /\ phase' = "done"
    /\ LET ahead == {p \in DOMAIN flagged : WithinLookAhead(flagged[p].along)}
       IN flagged' = [p \in ahead |-> flagged[p]]
    /\ UNCHANGED <<legPoints, next, travelled, box, asked>>

CorridorNext == BoxPoint \/ (\E fix \in Turns : BeginScan(fix)) \/ ScanLeg \/ EndScan

CorridorSpec == CorridorInit /\ [][CorridorNext]_corridorVars

-----------------------------------------------------------------------------
Legs == 1..(Len(legPoints) - 1)
LengthUpTo[i \in 0..Len(legPoints)] == IF i = 0 THEN 0 ELSE LengthUpTo[i - 1] + LegTo(i)
OnLeg(i, p) == [Projection(legPoints[i], legPoints[i + 1], p) EXCEPT !.along = @ + LengthUpTo[i]]

\* The legs whose corridor a place lies in.
LegsBeside(p) == {i \in Legs : /\ LegTo(i + 1) > 0
                               /\ InCorridor(Projection(legPoints[i], legPoints[i + 1], p), LegTo(i + 1))}

InBox(p) == p[1] \in box.west..box.east /\ p[2] \in box.south..box.north

\* A projection is no worse than another.
NotWorse(one, other) ==
    \/ Magnitude(one.cross) < Magnitude(other.cross)
    \/ Magnitude(one.cross) = Magnitude(other.cross) /\ one.along <= other.along

\* Of the legs beside a place, the one that passes it nearest, the earliest of those
\* that pass it as near.
IsNearest(i, p) == \A j \in LegsBeside(p) : NotWorse(OnLeg(i, p), OnLeg(j, p))

\* What is handed on is what lies in the corridor of some leg and is passed nearest
\* within the look-ahead, each point once and by the leg that passes it nearest.
ScanIsExact ==
    phase = "done" =>
        /\ DOMAIN flagged =
             {p \in Sea \X CorridorKinds :
                \E i \in LegsBeside(p[1]) : IsNearest(i, p[1]) /\ OnLeg(i, p[1]).along <= LookAhead}
        /\ \A p \in DOMAIN flagged : \E i \in LegsBeside(p[1]) :
              IsNearest(i, p[1]) /\ flagged[p] = OnLeg(i, p[1])

\* Scan and request see the same legs: when the request is made, whatever the corridor
\* holds up to the end of the look-ahead is asked for, and when the vessel has gone on
\* along its leg in the meantime, as much less of it as it went.
BoxHoldsCorridor ==
    phase # "box" \/ next > Len(legPoints) =>
        \A p \in Sea : (\E i \in LegsBeside(p) : OnLeg(i, p).along <= asked) => InBox(p)

\* A hazard in the corridor of the legs ahead is fetched, and flagged unless a leg beyond
\* the look-ahead passes it nearer; and no other is flagged.
CorridorSound == ScanIsExact /\ BoxHoldsCorridor

\* A hazard is flagged within the half-width either side of the route: what lies no
\* further from a place of a leg is flagged, also where the route turns.  (Not so on
\* the outer side of a turn.)
NearRouteIsFlagged ==
    phase = "done" =>
        \A p \in Sea \X CorridorKinds : \A i \in 2..(Len(legPoints) - 1) :
            /\ ~Along(legPoints[i - 1], legPoints[i + 1])
            /\ LET dx == p[1][1] - legPoints[i][1]
                   dy == p[1][2] - legPoints[i][2]
               IN dx * dx + dy * dy <= HalfWidth * HalfWidth
            => p \in DOMAIN flagged

\* "A point past the cap is picked up on a later tick", so that one before it is picked up
\* now.  (Not so of a point that a leg past the cap passes nearer.)
AheadIsFlagged ==
    phase = "done" =>
        \A p \in Sea \X CorridorKinds :
            (\E i \in LegsBeside(p[1]) : OnLeg(i, p[1]).along <= LookAhead) => p \in DOMAIN flagged

\* "The bbox always covers the vessel-to-wp0 segment the scan later projects onto."  (Not
\* so when the vessel left the segment while the list was on its way.)
FirstLegWasAsked ==
    phase = "done" =>
        \A p \in Sea : 1 \in LegsBeside(p) /\ OnLeg(1, p).along <= LookAhead => InBox(p)
=============================================================================
