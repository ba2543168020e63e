---------------------------- MODULE BoundingBoxes ----------------------------
(***************************************************************************)
(* The boxes that requests are made of, on a globe of a few degrees:       *)
(* position-utilities.ts and longitude.ts, the tiles of bbox-debounce.ts,  *)
(* the clamp of overpass-client.ts, the split of arcgis-query.ts, and the  *)
(* query of a chart, resource-query.ts.  A box whose west exceeds its east *)
(* crosses the antimeridian; -HalfTurn and HalfTurn are the same meridian. *)
(* Degrees of longitude and latitude are alike, but where a circle reaches *)
(* a pole: there its box is what becomes of two corners that are thrown    *)
(* past it.                                                                *)
(***************************************************************************)
EXTENDS Integers, FiniteSetsExt

CONSTANTS
    HalfTurn,       \* 180 degrees
    Pole,           \* 90 degrees
    Cell,           \* the size of a tile
    MaxSpan,        \* MAX_BBOX_SPAN_DEGREES
    MaxExplicit,    \* MAX_EXPLICIT_BBOX_SPAN_DEGREES
    Places,         \* where scans are made around
    Radii,
    MaxSearch,      \* MAX_SEARCH_DISTANCE_METERS
    MaxZones,       \* bound: the circles of one tick
    NoBox

\* No circle reaches from pole to pole, the globe is some tiles across, the half of a span
\* is a whole number, and the largest search is no wider than a box may be.
ASSUME BoxConstants ==
    /\ {HalfTurn, Pole, MaxSpan, MaxExplicit, MaxSearch} \subseteq Nat /\ Cell \in Nat \ {0}
    /\ HalfTurn % Cell = 0 /\ 2 * Cell <= HalfTurn /\ MaxSpan % 2 = 0
    /\ 2 * MaxSearch <= MaxExplicit
    /\ Places \subseteq (-HalfTurn..HalfTurn) \X (-Pole..Pole)
    /\ Pole <= HalfTurn /\ Radii \subseteq 0..Pole-1
    /\ NoBox \notin [north : Int, south : Int, west : Int, east : Int]

VARIABLES
    box,        \* the box of the tick so far
    around      \* history: the circles it was made for

boxVars == <<box, around>>

FullTurn == 2 * HalfTurn
Shifts == {-FullTurn, 0, FullTurn}

WrapLongitude(lon) ==
    LET wrapped == ((lon + HalfTurn) % FullTurn) - HalfTurn IN
    IF lon \in -HalfTurn..HalfTurn THEN lon
    ELSE IF wrapped = -HalfTurn /\ lon > 0 THEN HalfTurn ELSE wrapped

LongitudeSpan(west, east) == IF east >= west THEN east - west ELSE FullTurn - west + east

ContainsPoint(b, lon, lat) ==
    /\ lat \in b.south..b.north
    /\ IF b.west <= b.east THEN lon \in b.west..b.east ELSE lon >= b.west \/ lon <= b.east

Lower(a, b) == IF a < b THEN a ELSE b
Higher(a, b) == IF a > b THEN a ELSE b

\* The circle does not reach a pole.
ClearOfPoles(place, radius) ==
    radius = 0 \/ (place[2] + radius < Pole /\ -Pole < place[2] - radius)

\* How far the corners lie west and east of the centre.  The one that is thrown past a
\* pole comes down a quarter turn away or more, the other an eighth or less.
Reach(place, radius) ==
    IF ClearOfPoles(place, radius) THEN [west |-> radius, east |-> radius]
    ELSE IF place[2] > 0 THEN [west |-> HalfTurn \div 2, east |-> HalfTurn \div 4]
    ELSE [west |-> HalfTurn \div 4, east |-> HalfTurn \div 2]

\* positionToBbox, from its north-west and its south-east corner.  A corner past the pole
\* is still the radius from it, or more, so that it may lie short of the centre: no edge
\* is ever cut off at the pole.
PositionToBbox(place, radius) ==
    LET clear == ClearOfPoles(place, radius)
        reach == Reach(place, radius)
    IN [north |-> IF ~clear /\ place[2] > 0 THEN Pole - radius ELSE place[2] + radius,
        south |-> IF ~clear /\ place[2] <= 0 THEN radius - Pole ELSE place[2] - radius,
        west |-> WrapLongitude(place[1] - reach.west),
        east |-> WrapLongitude(place[1] + reach.east)]

\* Fault: the second box is taken where it stands.
Unshifted == {0}

\* unionBbox: where the second interval may be put beside the first.
HullShifts == Shifts

\* unionBbox: the narrowest interval of longitude that holds both, the second being
\* tried a turn before and a turn after.
HullOf(a, b) ==
    LET aEnd == a.west + LongitudeSpan(a.west, a.east)
        bEnd == b.west + LongitudeSpan(b.west, b.east)
        hulls == {<<Lower(a.west, b.west + s), Higher(aEnd, bEnd + s)>> : s \in HullShifts}
        narrowest == Min({h[2] - h[1] : h \in hulls})
        hull == CHOOSE h \in hulls : /\ h[2] - h[1] = narrowest
                                     /\ \A k \in hulls : k[2] - k[1] = narrowest => h[1] <= k[1]
        west == WrapLongitude(hull[1])
        east == WrapLongitude(hull[2])
    IN CASE narrowest >= FullTurn -> <<-HalfTurn, HalfTurn>>
         [] narrowest = 0 /\ west \in {-HalfTurn, HalfTurn} -> <<HalfTurn, -HalfTurn>>
         [] OTHER -> <<west, east>>

UnionBbox(a, b) ==
    [north |-> Higher(a.north, b.north), south |-> Lower(a.south, b.south),
     west |-> HullOf(a, b)[1], east |-> HullOf(a, b)[2]]

\* clampSpan: about its centre, when it is too wide.
ClampSpan(low, high) ==
    IF high - low <= MaxSpan THEN <<low, high>>
    ELSE <<(low + high) \div 2 - MaxSpan \div 2, (low + high) \div 2 + MaxSpan \div 2>>

\* Fault: a box that crosses the antimeridian is measured as it stands.
ClampAsItStands(west, east) == ClampSpan(west, east)

ClampLongitudeSpan(west, east) ==
    IF LongitudeSpan(west, east) <= MaxSpan THEN <<west, east>>
    ELSE IF west <= east THEN ClampSpan(west, east)
    ELSE LET clamped == ClampSpan(west, east + FullTurn)
         IN <<WrapLongitude(clamped[1]), WrapLongitude(clamped[2])>>

ClampBbox(b) ==
    LET lats == ClampSpan(b.south, b.north)
        lons == ClampLongitudeSpan(b.west, b.east)
    IN [south |-> lats[1], north |-> lats[2], west |-> lons[1], east |-> lons[2]]

\* splitArcgisEnvelope: one box on each side of the antimeridian.
SplitEnvelope(b) ==
    IF b.west <= b.east THEN {b} ELSE {[b EXCEPT !.east = HalfTurn], [b EXCEPT !.west = -HalfTurn]}

Floor(x) == Cell * (x \div Cell)
Ceiling(x) == -Floor(-x)

\* snapBbox: the viewport taken outward to the tile.
SnapBbox(b) ==
    [south |-> Floor(b.south), west |-> Floor(b.west),
     north |-> Ceiling(b.north), east |-> Ceiling(b.east)]

\* translateBbox: the tile beside it.
TranslateBbox(b, eastCells, northCells) ==
    [south |-> b.south + northCells * Cell, north |-> b.north + northCells * Cell,
     west |-> WrapLongitude(b.west + eastCells * Cell),
     east |-> WrapLongitude(b.east + eastCells * Cell)]

\* resolveBbox, for a chart that states its box: of sensible size and the right way up.
ResolveExplicitBbox(b) ==
    IF /\ b.south <= b.north /\ b.north - b.south <= MaxExplicit
       /\ LongitudeSpan(b.west, b.east) <= MaxExplicit
      THEN b ELSE NoBox

\* resolveBbox, for a chart that states a place and a distance.
ResolvePosition(place, distance) ==
    IF distance > 0 /\ distance <= MaxSearch THEN PositionToBbox(place, distance) ELSE NoBox

-----------------------------------------------------------------------------
BoxInit == box = NoBox /\ around = {}

\* One more zone of a contributor, or one more point of the route.
Widen(place, radius) ==
    /\ Cardinality(around) < MaxZones
    /\ box' = IF box = NoBox THEN PositionToBbox(place, radius)
              ELSE UnionBbox(box, PositionToBbox(place, radius))
    /\ around' = around \cup {<<place, radius>>}

\* The box is used; the next tick starts afresh.
Request == box # NoBox /\ box' = NoBox /\ around' = {}

BoxNext == Request \/ \E p \in Places, r \in Radii : Widen(p, r)

BoxSpec == BoxInit /\ [][BoxNext]_boxVars

-----------------------------------------------------------------------------
\* The antimeridian under either of its names.
SameMeridian(lon) == IF lon \in {-HalfTurn, HalfTurn} THEN {-HalfTurn, HalfTurn} ELSE {lon}
Covers(b, lon, lat) == \E l \in SameMeridian(lon) : ContainsPoint(b, l, lat)
Meridians(b) == {lon \in -HalfTurn..HalfTurn : Covers(b, lon, b.south)}
Width(b) == LongitudeSpan(b.west, b.east)

\* What is asked for lies within half the globe.
Sensible(b) == Width(b) <= HalfTurn

\* Every point of a circle's square lies in the box.
CoversCircle(b, place, radius) ==
    \A dx \in -radius..radius, lat \in -Pole..Pole :
        lat - place[2] \in -radius..radius => Covers(b, WrapLongitude(place[1] + dx), lat)

\* The box of a tick covers all it was made for, on whichever side of the antimeridian that
\* lies and in any order of its zones, but for the circles that reach a pole.
BoxCoversZones ==
    \A c \in around : ClearOfPoles(c[1], c[2]) => CoversCircle(box, c[1], c[2])

\* Every box encloses the circle it was made for, as the comment above positionToBbox has
\* it, those at a pole with the rest.
CirclesEnclosed == \A c \in around : CoversCircle(box, c[1], c[2])

\* Going east from its west edge, one meets the west edge of the other, then its east one.
Spans(b, other) ==
    \E s \in Shifts : /\ b.west <= other.west + s
                      /\ other.west + s + Width(other) <= b.west + Width(b)

\* The union of two boxes is no wider than any other interval of longitude that spans
\* both, so that a vessel beside the antimeridian does not ask for the world.
UnionIsNarrowest ==
    box # NoBox =>
        \A p \in Places, r \in Radii :
            LET other == PositionToBbox(p, r)
                union == UnionBbox(box, other)
            IN \A w, e \in -HalfTurn..HalfTurn :
                  LET b == [union EXCEPT !.west = w, !.east = e]
                  IN Spans(b, box) /\ Spans(b, other) => Width(union) <= Width(b)

\* What upstreams are asked for instead of the box: the clamped one lies within it, is
\* not too wide and keeps its middle; the parts of the split one are ordinary and
\* cover the same; the tile covers it and adjoins the tiles beside it.  A chart's place and
\* distance make no taller a box than a chart may state.
QueriesSound ==
    box # NoBox =>
        LET clamped == ClampBbox(box)
            tile == SnapBbox(box)
            parts == SplitEnvelope(box)
        IN /\ Meridians(clamped) \subseteq Meridians(box)
           /\ Width(clamped) = Lower(Width(box), MaxSpan)
           /\ clamped.south + clamped.north \in {box.south + box.north + d : d \in {-1, 0, 1}}
           /\ UNION {Meridians(b) : b \in parts} = Meridians(box)
           /\ \A b \in parts : b.west <= b.east
           /\ Sensible(box) =>
                 /\ Meridians(box) \subseteq Meridians(tile)
                 /\ tile.south <= box.south /\ box.north <= tile.north
                 /\ \A east \in {-1, 1} : Width(tile) > 0 =>
                       Meridians(TranslateBbox(tile, east, 0)) \cap Meridians(tile) # {}
           /\ ResolveExplicitBbox(box) # NoBox => Cardinality(Meridians(box)) <= MaxExplicit + 2
           /\ \A p \in Places, r \in Radii :
                 LET asked == ResolvePosition(p, r)
                 IN asked # NoBox => asked.north - asked.south <= MaxExplicit

\* The three together, as the run checks them: the boxes an output asks for, a list
\* query is turned into and a tile is keyed by hold what they were made to hold.
BoxesSound == BoxCoversZones /\ UnionIsNarrowest /\ QueriesSound
=============================================================================
