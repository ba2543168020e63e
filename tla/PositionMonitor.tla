--------------------------- MODULE PositionMonitor ---------------------------
(***************************************************************************)
(* The position monitor (src/monitoring/position-monitor.ts).  It turns    *)
(* the stream of fixes into list requests, one at a time and throttled,    *)
(* and hands every answer, and replays of the last one, to the alarm       *)
(* outputs.  Each handler runs to completion; the one await, on the list   *)
(* request, lets any other handler in between.  The continuation of the    *)
(* await is cut in two, the evaluation and its finally block, and nothing  *)
(* else runs between them.                                                 *)
(*                                                                         *)
(* A fix is an integer on a line.  What the upstreams answer is left to    *)
(* Answers, the geometry to the derived distances of the scan cadence.     *)
(***************************************************************************)
EXTENDS Integers, Sequences

CONSTANTS
    Fixes,                  \* where a fix can put the vessel
    NoFix,                  \* no position yet
    Answers,                \* what the aggregate source may answer with
    EmptyAnswer,            \* the result of a tick that fetched nothing
    NoAnswer,               \* lastPois is undefined
    HasZone,                \* some contributor declares an alarm radius
    MinMove,                \* minMoveMeters
    MinInterval,            \* minIntervalMs
    CoverageMove,           \* cadence.coverageMoveMeters
    EvaluationMove,         \* cadence.evaluationMoveMeters
    CoveredChord,           \* cadence.coveredChordMeters
    MinEvaluation,          \* MIN_EVALUATION_INTERVAL_MS
    MaxEvaluation,          \* MAX_EVALUATION_INTERVAL_MS
    CoverageReportInterval, \* COVERAGE_REPORT_INTERVAL_MS
    MaxTime                 \* bound: the clock stops here

ASSUME FixesAreIntegers == Fixes \subseteq Int /\ NoFix \notin Int
ASSUME AnswersAssumption == EmptyAnswer \in Answers /\ NoAnswer \notin Answers
ASSUME ZoneAssumption == HasZone \in BOOLEAN
ASSUME DistancesAssumption ==
    /\ MinMove \in Nat /\ CoveredChord \in Nat
    /\ CoverageMove \in Nat \ {0} /\ EvaluationMove \in Nat \ {0}
ASSUME TimesAssumption ==
    /\ MinInterval \in Nat \ {0} /\ MinEvaluation \in Nat \ {0}
    /\ MaxEvaluation \in Nat /\ MinEvaluation <= MaxEvaluation
    /\ CoverageReportInterval \in Nat /\ MaxTime \in Nat

VARIABLES
    stopped, tickInFlight, forcedTickPending,
    latestPosition,             \* the newest fix
    lastTickPosition, lastTickTime,
    lastList,                   \* lastPois with lastPoisFetchedAt
    lastEvaluationPosition, lastEvaluationTime,
    lastCoverageReportTime,
    requests,                   \* list requests out, by the fix they were built around
    settling,                   \* an await has resumed and its finally is still to run
    now,
    evaluation,                 \* the last call of the contributors' evaluate
    listAround,                 \* history: the fix lastList's request was built around
    lastFixTime,                \* history: when the newest fix came in
    lastRequest                 \* history: where and when the last request was sent

tickVars == <<tickInFlight, forcedTickPending, lastTickPosition, lastTickTime,
              requests, lastRequest>>
evaluationVars == <<lastEvaluationPosition, lastEvaluationTime,
                    lastCoverageReportTime, evaluation>>
listVars == <<lastList, listAround>>
fixVars == <<latestPosition, lastFixTime>>
vars == <<stopped, tickVars, evaluationVars, listVars, fixVars, settling, now>>

NoList == [pois |-> NoAnswer, fetchedAt |-> 0]

\* The clock reads the time of day, so it starts far from the zeros of the state.
Epoch == CoverageReportInterval

Init ==
    /\ stopped = FALSE
    /\ tickInFlight = FALSE
    /\ forcedTickPending = FALSE
    /\ latestPosition = NoFix
    /\ lastTickPosition = NoFix
    /\ lastTickTime = 0
    /\ lastList = NoList
    /\ lastEvaluationPosition = NoFix
    /\ lastEvaluationTime = 0
    /\ lastCoverageReportTime = 0
    /\ requests = <<>>
    /\ settling = FALSE
    /\ now = Epoch
    /\ evaluation = [turn |-> 0, at |-> NoFix, list |-> NoList, targets |-> "all"]
    /\ listAround = NoFix
    /\ lastFixTime = 0
    /\ lastRequest = [at |-> NoFix, time |-> 0]

Moved(from, to) == IF from <= to THEN to - from ELSE from - to

\* p is at least distance away from a position there is.
FarFrom(from, p, distance) == from # NoFix /\ Moved(from, p) >= distance

-----------------------------------------------------------------------------
(* Evaluations. *)

\* A jump between two evaluations that a pass of the tightest zone fits in.
Straddles(p) == HasZone /\ FarFrom(lastEvaluationPosition, p, CoveredChord + 1)

\* evaluateContributors: all contributors, or those with a zone, see list at p.
Evaluate(p, list, targets) ==
    /\ lastCoverageReportTime' =
          IF Straddles(p) /\ now - lastCoverageReportTime >= CoverageReportInterval
            THEN now ELSE lastCoverageReportTime
    /\ lastEvaluationPosition' = p
    /\ lastEvaluationTime' = now
    /\ evaluation' = [turn |-> 1 - evaluation.turn, at |-> p, list |-> list,
                       targets |-> targets]

\* Fault: the list is kept without the time it landed.
EvaluateAllUndated(p, pois, around) ==
    /\ lastList' = [pois |-> pois]
    /\ listAround' = around
    /\ Evaluate(p, [pois |-> pois, fetchedAt |-> now], "all")

\* evaluateAll: the result of a tick, kept for the replays.
EvaluateAll(p, pois, around) ==
    /\ lastList' = [pois |-> pois, fetchedAt |-> now]
    /\ listAround' = around
    /\ Evaluate(p, lastList', "all")

\* shouldEvaluate: the sampling distance is covered, or the ceiling elapsed.
ShouldEvaluate(p) ==
    LET elapsed == now - lastEvaluationTime IN
    \/ lastEvaluationPosition = NoFix
    \/ /\ elapsed >= MinEvaluation
       /\ \/ elapsed >= MaxEvaluation
          \/ FarFrom(lastEvaluationPosition, p, EvaluationMove)

\* Fault: no replay while a request is out.
MaybeEvaluateBetweenRequests(p) ==
    /\ IF HasZone /\ ~tickInFlight /\ lastList # NoList /\ ShouldEvaluate(p)
         THEN Evaluate(p, lastList, "zone")
         ELSE UNCHANGED evaluationVars
    /\ UNCHANGED listVars

\* maybeEvaluate: replay the list in hand at p.
MaybeEvaluate(p) ==
    /\ IF HasZone /\ lastList # NoList /\ ShouldEvaluate(p)
         THEN Evaluate(p, lastList, "zone")
         ELSE UNCHANGED evaluationVars
    /\ UNCHANGED listVars

-----------------------------------------------------------------------------
(* Ticks. *)

\* Fault: no coverage gate.
ShouldTickThrottledOnly(p) ==
    \/ lastTickPosition = NoFix
    \/ now - lastTickTime >= MinInterval /\ FarFrom(lastTickPosition, p, MinMove)

\* shouldTick: the first fix, water no list covers, or both throttles met.
ShouldTick(p) ==
    \/ lastTickPosition = NoFix
    \/ HasZone /\ FarFrom(lastTickPosition, p, CoverageMove)
    \/ /\ now - lastTickTime >= MinInterval
       /\ FarFrom(lastTickPosition, p, MinMove)

\* Fault: the slot is not taken before the await.
RequestListUnlatched(p) ==
    /\ UNCHANGED tickInFlight
    /\ forcedTickPending' = FALSE
    /\ lastTickPosition' = p
    /\ lastTickTime' = now
    /\ requests' = Append(requests, p)
    /\ lastRequest' = [at |-> p, time |-> now]

\* Fault: the throttle is left to the answer to commit.
RequestListUncommitted(p) ==
    /\ tickInFlight' = TRUE
    /\ forcedTickPending' = FALSE
    /\ UNCHANGED <<lastTickPosition, lastTickTime>>
    /\ requests' = Append(requests, p)
    /\ lastRequest' = [at |-> p, time |-> now]

\* runTick up to its await: the throttle is committed, the request goes out.
RequestList(p) ==
    /\ tickInFlight' = TRUE
    /\ forcedTickPending' = FALSE
    /\ lastTickPosition' = p
    /\ lastTickTime' = now
    /\ requests' = Append(requests, p)
    /\ lastRequest' = [at |-> p, time |-> now]

\* runTick when no contributor wants a box: no await, an empty result, and a
\* finally that starts nothing, since the throttle has just been committed.  A
\* zone contributor always wants one; without any it is up to the route.
TickWithoutBox(p) ==
    /\ ~HasZone
    /\ tickInFlight' = FALSE
    /\ forcedTickPending' = FALSE
    /\ lastTickPosition' = p
    /\ lastTickTime' = now
    /\ EvaluateAll(p, EmptyAnswer, NoFix)
    /\ UNCHANGED <<requests, lastRequest>>

-----------------------------------------------------------------------------
(* The handlers. *)

\* No continuation is half way.
Idle == ~settling

\* onPosition: a tick if one is due, then a replay if one is due.
OnPosition(p) ==
    LET due == ~tickInFlight /\ (forcedTickPending \/ ShouldTick(p)) IN
    /\ Idle /\ ~stopped
    /\ latestPosition' = p
    /\ lastFixTime' = now
    /\ \/ ~due /\ MaybeEvaluate(p) /\ UNCHANGED tickVars
       \/ due /\ RequestList(p) /\ MaybeEvaluate(p)
       \/ due /\ TickWithoutBox(p)
    /\ UNCHANGED <<stopped, settling, now>>

\* requestScan: the route was activated, replaced or cancelled.
RequestScan ==
    LET served == ~tickInFlight /\ latestPosition # NoFix IN
    /\ Idle /\ ~stopped
    /\ \/ /\ ~served
          /\ forcedTickPending' = TRUE
          /\ UNCHANGED <<tickInFlight, lastTickPosition, lastTickTime, requests,
                         lastRequest, evaluationVars, listVars>>
       \/ served /\ RequestList(latestPosition) /\ UNCHANGED <<evaluationVars, listVars>>
       \/ served /\ TickWithoutBox(latestPosition)
    /\ UNCHANGED <<stopped, fixVars, settling, now>>

\* The await of request i resumes.  A failure, or an answer to a monitor that
\* has stopped, evaluates nothing.
Settles(i) ==
    /\ requests' = [j \in 1..Len(requests) - 1 |-> requests[IF j < i THEN j ELSE j + 1]]
    /\ settling' = TRUE
    /\ UNCHANGED <<stopped, tickInFlight, forcedTickPending, lastTickPosition,
                   lastTickTime, lastRequest, fixVars, now>>

\* Fault: evaluated at the fix the tick started from.
AnsweredAtTick(i, pois) ==
    /\ Idle
    /\ Settles(i)
    /\ IF stopped
         THEN UNCHANGED <<evaluationVars, listVars>>
         ELSE EvaluateAll(requests[i], pois, requests[i])

Answered(i, pois) ==
    /\ Idle
    /\ Settles(i)
    /\ IF stopped
         THEN UNCHANGED <<evaluationVars, listVars>>
         ELSE EvaluateAll(latestPosition, pois, requests[i])

Failed(i) ==
    /\ Idle
    /\ Settles(i)
    /\ UNCHANGED <<evaluationVars, listVars>>

\* The finally block: the slot is free, and a deferred fix or scan takes it.
Finally ==
    LET due == /\ ~stopped
               /\ forcedTickPending \/ ShouldTick(latestPosition)
    IN
    /\ settling
    /\ settling' = FALSE
    /\ \/ /\ ~due
          /\ tickInFlight' = FALSE
          /\ UNCHANGED <<forcedTickPending, lastTickPosition, lastTickTime, requests,
                         lastRequest, evaluationVars, listVars>>
       \/ due /\ RequestList(latestPosition) /\ UNCHANGED <<evaluationVars, listVars>>
       \/ due /\ TickWithoutBox(latestPosition)
    /\ UNCHANGED <<stopped, fixVars, now>>

\* Fault: a pending scan survives the stop.
StopKeepsScan ==
    /\ Idle /\ ~stopped
    /\ stopped' = TRUE
    /\ UNCHANGED <<tickVars, evaluationVars, listVars, fixVars, settling, now>>

\* stop().  A request still out will settle into a stopped monitor.
Stop ==
    /\ Idle /\ ~stopped
    /\ stopped' = TRUE
    /\ forcedTickPending' = FALSE
    /\ UNCHANGED <<tickInFlight, lastTickPosition, lastTickTime, requests, lastRequest,
                   evaluationVars, listVars, fixVars, settling, now>>

Advance ==
    /\ Idle
    /\ now < MaxTime
    /\ now' = now + 1
    /\ UNCHANGED <<stopped, tickVars, evaluationVars, listVars, fixVars, settling>>

Settle == \E i \in 1..Len(requests) : Failed(i) \/ \E pois \in Answers : Answered(i, pois)

Next ==
    \/ \E p \in Fixes : OnPosition(p)
    \/ RequestScan
    \/ Settle
    \/ Finally
    \/ Stop
    \/ Advance

Spec == Init /\ [][Next]_vars

\* Every list request is raced against a timeout, so it settles; and the
\* runtime runs the rest of a continuation it has resumed.
Fairness == WF_vars(Settle) /\ WF_vars(Finally)

FairSpec == Spec /\ Fairness

-----------------------------------------------------------------------------
\* The types of the state.
TypeOK ==
    /\ stopped \in BOOLEAN /\ tickInFlight \in BOOLEAN
    /\ forcedTickPending \in BOOLEAN /\ settling \in BOOLEAN
    /\ latestPosition \in Fixes \cup {NoFix}
    /\ lastTickPosition \in Fixes \cup {NoFix}
    /\ lastEvaluationPosition \in Fixes \cup {NoFix}
    /\ listAround \in Fixes \cup {NoFix}
    /\ lastTickTime \in Nat /\ lastEvaluationTime \in Nat
    /\ lastCoverageReportTime \in Nat /\ now \in Nat /\ lastFixTime \in Nat
    /\ lastList \in [pois: Answers \cup {NoAnswer}, fetchedAt: Nat]
    /\ requests \in Seq(Fixes)
    /\ lastRequest \in [at: Fixes \cup {NoFix}, time: Nat]
    /\ evaluation \in [turn: {0, 1}, at: Fixes \cup {NoFix},
                       list: [pois: Answers \cup {NoAnswer}, fetchedAt: Nat],
                       targets: {"all", "zone"}]

\* A burst of fixes and scan requests never stacks list requests, and the slot
\* is taken exactly while a request, or the finally of one, is outstanding.
OneRequestInFlight ==
    /\ Len(requests) = IF tickInFlight /\ ~settling THEN 1 ELSE 0
    /\ settling => tickInFlight
    /\ tickInFlight => latestPosition # NoFix

\* A scan asked for is never lost to a race: it is still pending only while a
\* request is out, whose finally takes it, or while no fix has come, and the
\* first fix takes it.  A stopped monitor owes nothing.
NoScanForgotten ==
    forcedTickPending => ~stopped /\ (tickInFlight \/ latestPosition = NoFix)

\* A fix in water the last tick's box does not cover never waits for the
\* throttle: it has a tick of its own as soon as no request is out.
TicksKeepUp ==
    /\ ~stopped /\ ~tickInFlight /\ latestPosition # NoFix
    => /\ lastTickPosition # NoFix
       /\ HasZone => Moved(lastTickPosition, latestPosition) < CoverageMove

\* The four together, as the run checks them.
MonitorSound == TypeOK /\ OneRequestInFlight /\ NoScanForgotten /\ TicksKeepUp

\* Nothing is evaluated once the monitor has stopped, not even by the answer to
\* a request that was out when it did.
NoEvaluationAfterStop == [][stopped => UNCHANGED <<evaluation, lastList>>]_vars

\* The contributors always see the newest fix with the newest list and the time
\* that list landed; and a list in hand is the answer to the last tick's
\* request, never to an earlier one.
EvaluatesNewest ==
    [][/\ evaluation' # evaluation =>
             evaluation'.at = latestPosition' /\ evaluation'.list = lastList'
       /\ lastList' # lastList =>
             /\ lastList'.fetchedAt = now
             /\ listAround' \in {lastRequest.at, NoFix}]_vars

\* A failing upstream does not turn the monitor into a retry loop: unless a scan
\* was asked for, two requests are an interval or a coverage move apart,
\* whether the first succeeded or not.
RequestsThrottled ==
    [][/\ Finally \/ \E p \in Fixes : OnPosition(p)
       /\ lastRequest' # lastRequest
       /\ lastRequest.at # NoFix
       /\ ~forcedTickPending
       => \/ now - lastRequest.time >= MinInterval
          \/ Moved(lastRequest.at, latestPosition') >= CoverageMove]_vars
=============================================================================
