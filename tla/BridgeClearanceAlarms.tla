------------------------ MODULE BridgeClearanceAlarms ------------------------
(***************************************************************************)
(* The bridge air-draft alarms (bridge-clearance-alarms.ts) over the       *)
(* resolver of clearances they ask.  A pass is synchronous: what the       *)
(* resolver knows by then decides, what it finds out later shows at the    *)
(* next pass.  The air draft is read at each pass and may come and go.     *)
(*                                                                         *)
(* A bridge is reported by a source that puts its clearance, if it has     *)
(* one, on the list, or by the one that tells it in the detail only; the   *)
(* latter carries one on the list too while a duplicate of another source  *)
(* is merged into it.  The caller is the position monitor, as in           *)
(* ProximityAlarms; the route output asks the same resolver.               *)
(***************************************************************************)
EXTENDS AlarmRetention

CONSTANTS
    Clearances, Unknown, Ttl, RetryWindow, FetchTimeout,    \* the resolver's
    Drafts,     \* air drafts, the safety margin included
    NoDraft,    \* neither design.airHeight nor a configured fallback
    NoTime,     \* warmedListFetchedAt is undefined
    MaxTime     \* bound: the alarms' clock stops here

ASSUME ClearancesAssumption == Clearances \cup Drafts \subseteq Nat /\ NoDraft \notin Drafts
ASSUME TimeAssumption == NoTime \notin Nat /\ MaxTime \in Nat

VARIABLES
    tracker, wire, warmedListFetchedAt, stopped,
    list, vessel, airDraft, now,                \* what the caller and the boat bring
    detailed,   \* the bridges whose own source tells the clearance in a detail only
    cache, failed, inFlight, attempts, closed, lastStart, overtaken,
    reported,   \* history: the last report of each bridge and when it landed
    told        \* history: the clearance the last detail of each bridge told

Resolver == INSTANCE BridgeClearanceResolver WITH Bridges <- Points

ASSUME ResolverAssumption == Resolver!ConstantsFit

alarmVars == <<tracker, wire, warmedListFetchedAt, stopped>>
callerVars == <<list, vessel, airDraft, now, detailed, reported>>
resolverVars == <<cache, failed, inFlight, attempts, closed, lastStart, overtaken>>
vars == <<alarmVars, callerVars, resolverVars, told>>

Reports == [place: Places, clearance: Clearances \cup {Unknown}]

\* What the upstreams can report of a set of bridges: one that has a detail carries the
\* least clearance of the duplicates merged into it (mergePois), when there are any.
ReportsOf(listed) == [listed -> Reports]

Init ==
    /\ tracker = NoAlarms
    /\ wire = [p \in Points |-> Silent]
    /\ warmedListFetchedAt = NoTime
    /\ stopped = FALSE
    /\ list = [pois |-> [p \in {} |-> Unplaced], fetchedAt |-> 0]
    /\ vessel \in Positions
    /\ airDraft \in Drafts \cup {NoDraft}
    /\ now = 0
    /\ detailed \in SUBSET Points
    /\ reported = [p \in Points |->
                     [place |-> Unplaced, clearance |-> Unknown, landedAt |-> 0]]
    /\ Resolver!Init
    /\ told = [p \in Points |-> Unknown]

-----------------------------------------------------------------------------
(* A pass. *)

\* bridgeBlocksVessel: an unknown clearance, or air draft, blocks nothing.
Blocks(clearance) == clearance # Unknown /\ airDraft # NoDraft /\ clearance <= airDraft

\* Fault: a bridge whose detail is being fetched is not judged.
ClearanceOfSettled(p, report) ==
    IF report.clearance = Unknown /\ p \in detailed \ inFlight
      THEN Resolver!Clearance(p) ELSE report.clearance

\* resolver.clearanceMeters: the list's clearance, or the cached one of a detail.
ClearanceOf(p, report) ==
    IF report.clearance = Unknown /\ p \in detailed
      THEN Resolver!Clearance(p) ELSE report.clearance

InRange(p, position, report) ==
    Within(position, report.place, HysteresisThreshold(p \in DOMAIN tracker))

\* The bridges this pass has details fetched for: of the whole list on its first pass,
\* then of those that could alarm.
Asked(position, scanned, fetchedAt) ==
    {p \in DOMAIN scanned \cap detailed :
        /\ scanned[p].clearance = Unknown
        /\ fetchedAt # warmedListFetchedAt \/ InRange(p, position, scanned[p])}

\* Fault: an alarm once raised is not judged again while in range.
InAlarmLatched(position, scanned) ==
    {p \in DOMAIN scanned :
        /\ InRange(p, position, scanned[p])
        /\ p \in DOMAIN tracker \/ Blocks(ClearanceOf(p, scanned[p]))}

InAlarm(position, scanned) ==
    {p \in DOMAIN scanned :
        InRange(p, position, scanned[p]) /\ Blocks(ClearanceOf(p, scanned[p]))}

\* evaluate(vesselPosition, pois, listFetchedAt).
Evaluate(position, pois, fetchedAt) ==
    LET confirmed == Reconfirm(tracker, pois, fetchedAt)
        scanned   == Completed(tracker, pois, fetchedAt)
        inAlarm   == InAlarm(position, scanned)
    IN  \/ /\ airDraft = NoDraft
           /\ tracker' = NoAlarms
           /\ wire' = ClearedWire(wire, tracker)
           /\ UNCHANGED <<warmedListFetchedAt, resolverVars>>
        \/ /\ airDraft # NoDraft
           /\ tracker' = NextTracker(confirmed, scanned, inAlarm, fetchedAt, now)
           /\ wire' = NextWire(wire, confirmed, inAlarm, now)
           /\ warmedListFetchedAt' = IF DOMAIN scanned = {}
                                       THEN warmedListFetchedAt ELSE fetchedAt
           /\ Resolver!Lookup(Asked(position, scanned, fetchedAt))

\* A list request lands.
ListLands(position, pois) ==
    /\ ~stopped
    /\ list' = [pois |-> pois, fetchedAt |-> now]
    /\ vessel' = position
    /\ reported' = [p \in Points |->
          IF p \in DOMAIN pois
            THEN [place |-> pois[p].place, clearance |-> pois[p].clearance, landedAt |-> now]
            ELSE reported[p]]
    /\ Evaluate(position, pois, now)
    /\ UNCHANGED <<stopped, airDraft, now, detailed, told>>

\* A fix between two requests replays the list in hand.
Replay(position) ==
    /\ ~stopped
    /\ vessel' = position
    /\ Evaluate(position, list.pois, list.fetchedAt)
    /\ UNCHANGED <<stopped, list, airDraft, now, detailed, reported, told>>

-----------------------------------------------------------------------------
(* What happens between passes. *)

\* What a step of the resolver has it know is what the upstream has told.
Tells == told' = [p \in Points |-> IF cache'[p].cached THEN cache'[p].clearance ELSE told[p]]

\* A detail fetch resolves, fails, or is given up.
Settle == Resolver!Settle /\ Tells /\ UNCHANGED <<alarmVars, callerVars>>

\* The route output asks for a bridge on its way.
RouteAsks == /\ ~stopped
             /\ \E p \in detailed : Resolver!Lookup({p})
             /\ UNCHANGED <<alarmVars, callerVars, told>>

\* design.airHeight is set, changed or lost.
AirDraftChanges ==
    /\ airDraft' \in Drafts \cup {NoDraft}
    /\ UNCHANGED <<alarmVars, list, vessel, now, detailed, reported, resolverVars, told>>

\* teardown: the alarms are cleared, then the resolver is closed.
Stop ==
    /\ ~stopped
    /\ stopped' = TRUE
    /\ tracker' = NoAlarms
    /\ wire' = ClearedWire(wire, tracker)
    /\ Resolver!Close
    /\ UNCHANGED <<warmedListFetchedAt, callerVars, told>>

Tick ==
    /\ now' = IF now < MaxTime THEN now + 1 ELSE now
    /\ Resolver!Age
    /\ UNCHANGED <<alarmVars, list, vessel, airDraft, detailed, reported, told>>

Next ==
    \/ \E position \in Positions, listed \in SUBSET Points :
          \E pois \in ReportsOf(listed) : ListLands(position, pois)
    \/ \E position \in Positions : Replay(position)
    \/ Settle \/ RouteAsks \/ AirDraftChanges \/ Stop \/ Tick

\* Time passes and due timers fire; the upstream need never answer.
Fairness == /\ WF_vars(Tick)
            /\ \A p \in Points :
                  WF_vars(Settle /\ \E a \in attempts : a.bridge = p /\ Resolver!TimesOut(a))

Spec == Init /\ [][Next]_vars /\ Fairness

-----------------------------------------------------------------------------
\* What is known of a bridge's clearance: what its last report carried, or else what its
\* last detail told.
LastTold(p) ==
    IF reported[p].clearance = Unknown /\ p \in detailed THEN told[p] ELSE reported[p].clearance

\* The last report of a bridge carries no clearance, nor has a detail told one.
NoneTold(p) == LastTold(p) = Unknown

\* What clears a bridge's alarm, other than its clearance.
OutOfSight(p) ==
    \/ stopped'
    \/ airDraft = NoDraft
    \/ ~Within(vessel', reported'[p].place, ExitRadius)
    \/ list'.fetchedAt - reported'[p].landedAt > Window

\* A bridge's alarm clears because of what was told of it, never because it is
\* being asked about: a refresh of a stale clearance, a detail that fails, hangs or
\* is given up, and a list that omits the bridge, leave the alarm where it is.  The one
\* exception is a clearance that came with a merged duplicate: when a list comes without
\* the duplicate before any detail has told one, there is none left and the alarm clears.
ClearJustified ==
    [][\A p \in Points :
          wire[p].state = "alarm" /\ wire'[p].state = "normal" =>
             OutOfSight(p) \/ NoneTold(p)' \/ ~Blocks(LastTold(p)')]_vars

\* "Serve a known clearance ... so a tick never regresses to unknown once the value is
\* known": an alarm on a clearance does not clear for want of one.  (Not so of the
\* clearance that came with a merged duplicate.)
KnownClearanceIsServed ==
    [][\A p \in detailed :
          wire[p].state = "alarm" /\ wire'[p].state = "normal" =>
             OutOfSight(p) \/ ~NoneTold(p)']_vars

\* What the list puts within the raise radius alarms if the last clearance told is
\* too low, and nothing alarms whose is not.
AlarmsFit ==
    /\ \A p \in DOMAIN list.pois :
          Within(vessel, list.pois[p].place, RaiseRadius) /\ Blocks(LastTold(p))
          => wire[p].state = "alarm"
    /\ \A p \in Points : wire[p].state = "alarm" => Blocks(LastTold(p))

\* Every pass that has an air draft leaves the alarms fit, whatever the resolver has
\* out for the bridges it judges: only what happens between two passes may not.
LowBridgesAlarm ==
    [][airDraft = NoDraft \/ AlarmsFit'
       \/ Settle \/ RouteAsks \/ AirDraftChanges \/ Stop \/ Tick]_vars

\* An unresolvable bridge costs the upstream one attempt per window, at any rate of
\* passes and whoever asks.
RetriesSpaced == Resolver!RetriesSpaced

\* A detail that lost its race never overwrites what a later attempt brought.
NoLateOverwrite == Resolver!NoLateOverwrite

\* A hung detail fetch does not pin its bridge.
Released == Resolver!Released
=============================================================================
