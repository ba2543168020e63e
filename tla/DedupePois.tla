----------------------------- MODULE DedupePois -----------------------------
(***************************************************************************)
(* The merge of points of interest that several sources report             *)
(* (inputs/dedupe-pois.ts), one step per point of its two loops: points of *)
(* the other sources against those of the base, then the points of each    *)
(* source among themselves.  A point is its place in the list of one poll, *)
(* and its neighbours are looked for in the nine cells of a grid about it. *)
(* The globe is small: a degree of latitude is EquatorScale metres, and so *)
(* is one of longitude at the equator, less of it towards the poles.       *)
(***************************************************************************)
EXTENDS Integers, Sequences, Functions, FiniteSetsExt

CONSTANTS
    Reports,        \* bound: what a source may report of one point
    MaxReports,     \* bound: the points of one poll
    Base,           \* BASE_SOURCE_ID
    DedupeSources,  \* the sources whose duplicates are merged
    Radius,         \* the radius of those sources that state one
    DefaultRadius,  \* DEFAULT_DEDUPE_RADIUS_METERS
    MaxRadius,      \* MAX_DEDUPE_RADIUS_METERS
    EquatorScale,   \* METERS_PER_DEGREE
    Scale,          \* the same along a parallel, by its latitude
    HalfTurn,       \* 180 degrees
    Pole,           \* 90 degrees
    Unknown         \* a clearance that is not reported

Abs(x) == IF x < 0 THEN -x ELSE x

ASSUME DedupeConstants ==
    /\ Base \notin DedupeSources /\ DOMAIN Radius \subseteq DedupeSources
    /\ DefaultRadius \in 1..MaxRadius /\ \A s \in DOMAIN Radius : Radius[s] \in 1..MaxRadius
    /\ {HalfTurn, Pole, EquatorScale, MaxRadius, MaxReports} \subseteq Nat
    /\ \A p \in Reports : /\ p.lat \in -Pole..Pole /\ p.lon \in -HalfTurn..HalfTurn
                         /\ (p.clearance = Unknown \/ p.clearance \in Int)
    /\ Unknown \notin Int
    /\ \A a \in 0..Pole : Scale[a] \in Nat /\ \A b \in a..Pole : Scale[b] <= Scale[a]

VARIABLES
    pois,       \* the list of the poll
    next,       \* where the loop is
    stage,      \* "base", "same" or "done"
    kept,       \* survivors: the points of other sources the first loop leaves, in order
    out,        \* the points of other sources that are handed on, in order
    clearance,  \* the clearance each point is handed on with
    credits,    \* the sources it is credited to
    into        \* history: the point each dropped one was merged into

dedupeVars == <<pois, next, stage, kept, out, clearance, credits, into>>

BasePois == {i \in DOMAIN pois : pois[i].source = Base}

DedupeInit ==
    /\ pois \in UNION {[1..n -> Reports] : n \in 0..MaxReports}
    /\ next = 1 /\ stage = "base" /\ kept = <<>> /\ out = <<>>
    /\ clearance = [i \in DOMAIN pois |-> pois[i].clearance]
    /\ credits = [i \in DOMAIN pois |-> {pois[i].source}]
    /\ into = <<>>

-----------------------------------------------------------------------------
\* radiusFor
RadiusFor(source) == IF source \in DOMAIN Radius THEN Radius[source] ELSE DefaultRadius

\* gridRadius: the largest of them all.
GridRadius == Max({DefaultRadius} \cup Range(Radius))

\* Fault: the grid is laid out for the point nearest the equator.
EquatorwardLatitude == Min({Abs(pois[i].lat) : i \in DOMAIN pois})

\* dedupeAgainstBase: the grid is laid out for the point nearest a pole.
ReferenceLatitude == Max({Abs(pois[i].lat) : i \in DOMAIN pois})

\* cellCoords: longitude is taken as it stands.
Cell(i) == <<(pois[i].lon * Scale[ReferenceLatitude]) \div GridRadius,
             (pois[i].lat * EquatorScale) \div GridRadius>>

\* distanceMeters, squared: the shorter way round.
SquaredDistance(i, j) ==
    LET turn == Abs(pois[i].lon - pois[j].lon)
        dlon == Min({turn, 2 * HalfTurn - turn})
        dlat == (pois[i].lat - pois[j].lat) * EquatorScale
    IN dlat * dlat + dlon * dlon * Scale[Abs(pois[i].lat)] * Scale[Abs(pois[j].lat)]

Coincide(i, j, radius) ==
    pois[i].type = pois[j].type /\ SquaredDistance(i, j) <= radius * radius

Beside(i, j) == \A axis \in 1..2 : Cell(i)[axis] - Cell(j)[axis] \in -1..1

\* scanNeighborhood: the western cells before the eastern, the southern before the
\* northern, and in each cell the points in the order of the poll, as it was filled.
MetBefore(j, k) ==
    \/ Cell(j)[1] < Cell(k)[1]
    \/ Cell(j)[1] = Cell(k)[1] /\ Cell(j)[2] < Cell(k)[2]
    \/ Cell(j) = Cell(k) /\ j < k

\* scanNeighborhood: the first match of the sweep, if there is one.
ScanNeighborhood(grid, i, radius) ==
    LET found == {j \in grid : Beside(i, j) /\ Coincide(i, j, radius)}
    IN {j \in found : \A k \in found \ {j} : MetBefore(j, k)}

\* Fault: the survivor keeps what it came with.
KeepClearance(current, candidate) == current

\* minClearance: the least of those that are known.
MinClearance(current, candidate) ==
    CASE candidate = Unknown -> current
      [] candidate # Unknown /\ current = Unknown -> candidate
      [] OTHER -> IF candidate < current THEN candidate ELSE current

\* The point is dropped, its clearance and its credit folded into the survivor.
Fold(i, survivor) ==
    /\ clearance' = [clearance EXCEPT ![survivor] = MinClearance(@, clearance[i])]
    /\ into' = [j \in DOMAIN into \cup {i} |-> IF j = i THEN survivor ELSE into[j]]

\* dedupeAgainstBase: the next point of the first loop.
AgainstBase ==
    /\ stage = "base" /\ next <= Len(pois) /\ next' = next + 1
    /\ LET match == IF pois[next].source \in DedupeSources
                      THEN ScanNeighborhood(BasePois, next, RadiusFor(pois[next].source)) ELSE {}
       IN IF match = {}
            THEN /\ kept' = IF pois[next].source = Base THEN kept ELSE Append(kept, next)
                 /\ UNCHANGED <<clearance, credits, into>>
            ELSE \E survivor \in match :
                    /\ Fold(next, survivor)
                    /\ credits' = [credits EXCEPT ![survivor] = @ \cup {pois[next].source}]
                    /\ UNCHANGED kept
    /\ UNCHANGED <<pois, stage, out>>

BeginSame ==
    /\ stage = "base" /\ next > Len(pois)
    /\ stage' = "same" /\ next' = 1
    /\ UNCHANGED <<pois, kept, out, clearance, credits, into>>

\* dedupeSameSource: the points the source has handed on so far.
SourceGrid(source) == {j \in Range(out) : pois[j].source = source}

\* dedupeSameSource: the next point of the second loop.
AgainstSame ==
    /\ stage = "same" /\ next <= Len(kept) /\ next' = next + 1
    /\ LET i == kept[next]
           source == pois[i].source
           match == IF source \in DedupeSources /\ Len(kept) > 1
                      THEN ScanNeighborhood(SourceGrid(source), i, RadiusFor(source)) ELSE {}
       IN IF match = {} THEN out' = Append(out, i) /\ UNCHANGED <<clearance, into>>
          ELSE \E survivor \in match : Fold(i, survivor) /\ UNCHANGED out
    /\ UNCHANGED <<pois, stage, kept, credits>>

\* The base points and the others are handed on.
EndDedupe ==
    /\ stage = "same" /\ next > Len(kept)
    /\ stage' = "done"
    /\ UNCHANGED <<pois, next, kept, out, clearance, credits, into>>

DedupeNext == AgainstBase \/ BeginSame \/ AgainstSame \/ EndDedupe

DedupeSpec == DedupeInit /\ [][DedupeNext]_dedupeVars

-----------------------------------------------------------------------------
Handed == BasePois \cup Range(out)

\* Two points that should have been one: a survivor of an enabled source beside a base
\* point, or beside another of its own source.
Missed(i, j) ==
    /\ i # j /\ pois[i].source \in DedupeSources /\ pois[j].source \in {Base, pois[i].source}
    /\ Coincide(i, j, RadiusFor(pois[i].source))

AcrossAntimeridian(i, j) == Abs(pois[i].lon - pois[j].lon) > HalfTurn

\* Nothing is lost by the merge: a dropped point lies, with one of its kind, within the
\* radius its source states; the survivor is handed on with the least clearance that it
\* and those merged into it report, and credited to just their sources; the points of
\* the base and of sources that are not merged all stay.  And nothing is left that the
\* nine cells could have missed, whatever the latitudes, on one side of the antimeridian.
DedupeSound ==
    stage = "done" =>
        /\ Handed \cup DOMAIN into = DOMAIN pois /\ Handed \cap DOMAIN into = {}
        /\ \A i \in DOMAIN into : /\ into[i] \in Handed /\ pois[i].source \in DedupeSources
                                  /\ Coincide(i, into[i], RadiusFor(pois[i].source))
        /\ \A i \in Handed :
              LET group == {i} \cup {j \in DOMAIN into : into[j] = i}
                  known == {pois[j].clearance : j \in group} \ {Unknown}
              IN /\ clearance[i] = IF known = {} THEN Unknown ELSE Min(known)
                 /\ credits[i] = {pois[j].source : j \in group}
        /\ \A i, j \in Handed : Missed(i, j) => AcrossAntimeridian(i, j)

\* The sweep is exhaustive: two points within the radius of each other are found.
\* (Not so across the antimeridian.)
SweepIsExhaustive == stage = "done" => \A i, j \in Handed : ~Missed(i, j)
=============================================================================
