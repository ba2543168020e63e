--------------------------- MODULE AlarmRetention ---------------------------
(***************************************************************************)
(* The part every position-driven alarm shares: the circle geometry with   *)
(* its exit margin, the retention of alarms a list omitted, and the        *)
(* notification tracker that owns the active set and what the server       *)
(* shows.  Operators only: the alarm modules apply them to their tracker.  *)
(*                                                                         *)
(* A list is a partial function from points to the place each was reported *)
(* at.  A place is a point on a line, or Unplaced for a report no alarm    *)
(* can be computed from: a coordinate without a finite distance, or a      *)
(* point whose type has stopped being the one the output watches.          *)
(***************************************************************************)
EXTENDS Integers

CONSTANTS
    Points,         \* the points of interest the upstreams may report
    Positions,      \* where a vessel or a point can be: integers on a line
    Unplaced,       \* the report that no distance can be computed from
    RaiseRadius,    \* radiusMeters
    ExitRadius,     \* radiusMeters * EXIT_RADIUS_FACTOR
    Window          \* ALARM_RECONFIRM_WINDOW_MS, in ticks of the clock

ASSUME PositionsAssumption == Positions \subseteq Int
ASSUME UnplacedAssumption  == Unplaced \notin Positions
ASSUME RadiiAssumption     == RaiseRadius \in Nat /\ ExitRadius \in Nat
                              /\ RaiseRadius <= ExitRadius
ASSUME WindowAssumption    == Window \in Nat

Places == Positions \cup {Unplaced}

\* Every list a source may answer with.
Lists == UNION {[listed -> Places] : listed \in SUBSET Points}

\* What the tracker keeps of an active alarm.
Entries == [at: Places, lastListedAt: Nat, unconfirmed: BOOLEAN, raisedAt: Nat]

\* tracker is a set of active alarms: a partial function from points to entries.
IsTracker(tracker) == /\ DOMAIN tracker \subseteq Points
                      /\ tracker \in [DOMAIN tracker -> Entries]

(***************************************************************************)
(* What the server shows at the path of a point.  why separates the two    *)
(* wordings of a clear.                                                    *)
(***************************************************************************)
Notices == [state: {"normal", "alarm"}, createdAt: Nat,
            why: {"none", "near", "moved clear", "unreported"}]

Silent == [state |-> "normal", createdAt |-> 0, why |-> "none"]

-----------------------------------------------------------------------------
(* Geometry. *)

Distance(a, b) == IF a <= b THEN b - a ELSE a - b

\* Fault: no hysteresis band.
HysteresisThresholdNoBand(isActive) == RaiseRadius

\* An active alarm holds out to the exit radius, a new one needs the raise radius.
HysteresisThreshold(isActive) == IF isActive THEN ExitRadius ELSE RaiseRadius

Within(vessel, place, radius) == /\ place # Unplaced
                                 /\ Distance(vessel, place) <= radius

-----------------------------------------------------------------------------
(* Retention. *)

\* The window has run out on an entry the list landed at fetchedAt omits.
Expired(entry, fetchedAt) == fetchedAt - entry.lastListedAt > Window

\* An active alarm as a list leaves it: refreshed, given up, or untouched.
Reconfirmed(entry, p, pois, fetchedAt) ==
    CASE p \in DOMAIN pois ->
            [entry EXCEPT !.at = pois[p], !.lastListedAt = fetchedAt]
      [] p \notin DOMAIN pois /\ Expired(entry, fetchedAt) ->
            [entry EXCEPT !.unconfirmed = TRUE]
      [] OTHER -> entry

\* The tracker after completeWithRetained has walked it.
Reconfirm(tracker, pois, fetchedAt) ==
    [p \in DOMAIN tracker |-> Reconfirmed(tracker[p], p, pois, fetchedAt)]

\* The alarms a list omits and whose window still runs.
Held(tracker, pois, fetchedAt) ==
    {p \in DOMAIN tracker \ DOMAIN pois : ~Expired(tracker[p], fetchedAt)}

\* Fault: the list runs as it came, so what it omits is dropped.
CompletedNoRetention(tracker, pois, fetchedAt) == pois

\* The list the output's geometry runs over.
Completed(tracker, pois, fetchedAt) ==
    [p \in DOMAIN pois \cup Held(tracker, pois, fetchedAt) |->
        IF p \in DOMAIN pois THEN pois[p] ELSE tracker[p].at]

-----------------------------------------------------------------------------
(* The tracker.  Raising stamps the start of the episode; clearing sends   *)
(* it back, with the reason the entry holds.                               *)

\* Fault: an alarm raised without the time of the list behind it.
RaisedNoListTime(place, fetchedAt, clock) ==
    [at |-> place, unconfirmed |-> FALSE, raisedAt |-> clock]

Raised(place, fetchedAt, clock) ==
    [at |-> place, lastListedAt |-> fetchedAt, unconfirmed |-> FALSE,
     raisedAt |-> clock]

AlarmNotice(clock) == [state |-> "alarm", createdAt |-> clock, why |-> "near"]

ClearNotice(entry) ==
    [state |-> "normal", createdAt |-> entry.raisedAt,
     why |-> IF entry.unconfirmed THEN "unreported" ELSE "moved clear"]

\* The tracker once the points of inAlarm, placed by scanned, are the alarms.
NextTracker(tracker, scanned, inAlarm, fetchedAt, clock) ==
    [p \in inAlarm |-> IF p \in DOMAIN tracker
                         THEN tracker[p]
                         ELSE Raised(scanned[p], fetchedAt, clock)]

\* Fault: an entry dropped without its clear on the wire.
NextWireRaisesOnly(wire, tracker, inAlarm, clock) ==
    [p \in Points |-> IF p \in inAlarm \ DOMAIN tracker
                        THEN AlarmNotice(clock) ELSE wire[p]]

\* What the server shows once entries have been raised and the rest cleared.
NextWire(wire, tracker, inAlarm, clock) ==
    [p \in Points |->
        CASE p \in inAlarm \ DOMAIN tracker -> AlarmNotice(clock)
          [] p \in DOMAIN tracker \ inAlarm -> ClearNotice(tracker[p])
          [] OTHER -> wire[p]]

\* clearAll: nothing active, every active alarm cleared on the wire.
ClearedWire(wire, tracker) == NextWire(wire, tracker, {}, 0)

\* The empty tracker.
NoAlarms == [p \in {} |-> Raised(Unplaced, 0, 0)]
=============================================================================
