----------------------------- MODULE ScanCadence -----------------------------
(***************************************************************************)
(* How finely the position monitor samples (scan-cadence.ts): the gates    *)
(* derived from the alarm radii the outputs declare, and a vessel sampled  *)
(* by them as its fixes come in.  An alarm zone that two evaluations       *)
(* straddle is a hazard passed unseen, so the distance between two         *)
(* evaluations has to stay within the chord of the tightest zone.          *)
(*                                                                         *)
(* Lengths are centimeters, times tenths of a second and speeds            *)
(* decimeters per second, so speed times time is a length.                 *)
(***************************************************************************)
EXTENDS Integers

CONSTANTS
    Radii,          \* alarmRadiusMeters an output may declare
    FixGaps,        \* the times between two fixes
    Speeds,         \* the speeds a vessel may make
    Drifts,         \* distances from where a list was fetched, to check the box at
    MaxEvaluation   \* MAX_EVALUATION_INTERVAL_MS

MinEvaluation == 10             \* MIN_EVALUATION_INTERVAL_MS
MinEvaluationMove == 500        \* MIN_EVALUATION_MOVE_METERS
MaxEvaluationMove == 10000      \* MAX_EVALUATION_MOVE_METERS
MinScanRadius == 200000         \* MIN_SCAN_RADIUS_METERS

\* Fixes come at least as often as the shortest evaluation interval.
ASSUME CadenceAssumption ==
    /\ Radii \subseteq Nat \ {0}
    /\ FixGaps \subseteq 1..MinEvaluation
    /\ Speeds \subseteq Nat /\ Drifts \subseteq Nat
    /\ MaxEvaluation \in Nat /\ MinEvaluation <= MaxEvaluation

VARIABLES
    radii,              \* what the enabled outputs declare
    topSpeed,           \* the vessel never exceeds it
    sinceEvaluation,    \* time since the last evaluation
    covered,            \* distance since the last evaluation
    gap,                \* what the newest fix found it to be, if it evaluated
    steady              \* history: a fix every full second at topSpeed since the
                        \* evaluation before

cadenceVars == <<radii, topSpeed, sinceEvaluation, covered, gap, steady>>

-----------------------------------------------------------------------------
(* The gates. *)

AtLeast(a, b) == IF a >= b THEN a ELSE b
AtMost(a, b) == IF a <= b THEN a ELSE b

LeastOf(S) == CHOOSE x \in S : \A y \in S : x <= y

\* Fault: the widest zone sets the cadence.
TightestRadiusTakenWidest == CHOOSE r \in radii : \A s \in radii : s <= r

TightestRadius == LeastOf(radii)

\* coveredChordMeters: the chord 0.8 of the radius abeam is 1.2 times the radius.
Chord(radius) == (6 * radius) \div 5

CoveredChord == Chord(TightestRadius)

\* Fault: the sampling distance is the chord, with nothing in hand.
EvaluationMoveFullChord ==
    AtMost(MaxEvaluationMove, AtLeast(MinEvaluationMove, CoveredChord))

EvaluationMove == AtMost(MaxEvaluationMove, AtLeast(MinEvaluationMove, CoveredChord \div 2))

\* vesselScanRadiusMeters: how wide an output has its box fetched.
ScanRadius(radius) == AtLeast(3 * radius, MinScanRadius)

\* Fault: the margin of the tightest zone stands for all.
CoverageMoveOfTightest == ScanRadius(TightestRadius) - TightestRadius

\* The least margin between an output's box and its zone.
CoverageMove == LeastOf({ScanRadius(r) - r : r \in radii})

\* maxCoveredSpeedMps: a chord per shortest interval, or none at all.
IsCoveredSpeed(speed) ==
    IF EvaluationMove < CoveredChord THEN speed * MinEvaluation <= CoveredChord ELSE speed = 0

-----------------------------------------------------------------------------
(* A vessel sampled by them. *)

CadenceInit ==
    /\ radii \in (SUBSET Radii) \ {{}}
    /\ topSpeed \in Speeds
    /\ sinceEvaluation = 0
    /\ covered = 0
    /\ gap = 0
    /\ steady = TRUE

\* shouldEvaluate, over the time and distance since the last evaluation.
ShouldEvaluate(elapsed, distance) ==
    /\ elapsed >= MinEvaluation
    /\ elapsed >= MaxEvaluation \/ distance >= EvaluationMove

\* The next fix, interval after the last one at speed.
Fix(interval, speed) ==
    LET elapsed == sinceEvaluation + interval
        distance == covered + speed * interval
    IN  /\ speed <= topSpeed
        /\ IF ShouldEvaluate(elapsed, distance)
             THEN /\ gap' = distance
                  /\ sinceEvaluation' = 0
                  /\ covered' = 0
             ELSE /\ gap' = 0
                  /\ sinceEvaluation' = elapsed
                  /\ covered' = distance
        /\ steady' = /\ steady \/ sinceEvaluation = 0
                     /\ interval = MinEvaluation /\ speed = topSpeed
        /\ UNCHANGED <<radii, topSpeed>>

CadenceNext == \E interval \in FixGaps, speed \in Speeds : Fix(interval, speed)

CadenceSpec == CadenceInit /\ [][CadenceNext]_cadenceVars

-----------------------------------------------------------------------------
\* No alarm zone fits between the last two evaluations.
NoZoneStraddled == \A r \in radii : gap <= Chord(r)

\* The factor of two that half the chord leaves "in hand for an uneven fix rate":
\* up to half the covered speed, and up to what the distance floor leaves of the chord,
\* no two evaluations straddle a zone, however unevenly the fixes come within the
\* second and however the speed changes.
UnevenFixesCovered ==
    /\ 2 * topSpeed * MinEvaluation <= CoveredChord
    /\ topSpeed * MinEvaluation + MinEvaluationMove <= CoveredChord
    => NoZoneStraddled

\* A second at this speed falls short of the distance floor, and two of them, or the
\* floor and one more, do not fit into the chord.
LostToFloor(speed) ==
    /\ speed * MinEvaluation < MinEvaluationMove
    /\ speed * MinEvaluation + MinEvaluationMove > CoveredChord

\* At a steady speed and a fix every second the covered speed is covered in full, but
\* for the speeds that are lost to the floor where the tightest zone is under twice as
\* wide as that.
SteadyFixesCovered ==
    IsCoveredSpeed(topSpeed) /\ steady /\ ~LostToFloor(topSpeed) => NoZoneStraddled

\* The covered speed is one "up to which this cadence promises the pass".  (Not so of the
\* speeds lost to the floor.)
PromisedPassIsKept == IsCoveredSpeed(topSpeed) /\ steady => NoZoneStraddled

\* Wherever the vessel is when no new list is forced, each output's box, fetched
\* around the last tick, still holds the whole of that output's alarm zone.
BoxHoldsZones ==
    \A r \in radii, drift \in Drifts : drift < CoverageMove => drift + r <= ScanRadius(r)

\* The gates keep every alarm zone in sight.
CadenceCovers == UnevenFixesCovered /\ SteadyFixesCovered /\ BoxHoldsZones
=============================================================================
