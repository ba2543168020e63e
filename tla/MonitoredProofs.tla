---------------------------- MODULE MonitoredProofs ----------------------------
(***************************************************************************)
(* Theorems of PositionMonitor, for every line of positions, every answer  *)
(* of the upstreams and every choice of the distances and intervals; and   *)
(* of MonitoredProximity: that the monitor is the caller the proximity     *)
(* alarms were specified against, step by step, and what follows for the   *)
(* fixes between two evaluations once the alarms' own theorem is carried   *)
(* over.                                                                   *)
(***************************************************************************)
EXTENDS MonitoredProximity, TLAPS

\* The inductive invariant; MonitorSound is all of it.
Inv == TypeOK /\ OneRequestInFlight /\ NoScanForgotten /\ TicksKeepUp

\* The part of the type invariant an evaluation writes.
EvaluationTypes ==
    /\ lastList \in [pois: Answers \cup {NoAnswer}, fetchedAt: Nat]
    /\ listAround \in Fixes \cup {NoFix}
    /\ lastCoverageReportTime \in Nat /\ lastEvaluationTime \in Nat
    /\ lastEvaluationPosition \in Fixes \cup {NoFix}
    /\ evaluation \in [turn: {0, 1}, at: Fixes \cup {NoFix},
                       list: [pois: Answers \cup {NoAnswer}, fetchedAt: Nat],
                       targets: {"all", "zone"}]

\* NoFix is no position.
LEMMA NoFixApart == \A p \in Fixes : p # NoFix /\ p \in Int
BY FixesAreIntegers

\* A tick with a box, from a free slot, keeps the types and takes the slot.
LEMMA RequestListEffect ==
    ASSUME TypeOK, NEW p \in Fixes, RequestList(p), requests = <<>>
    PROVE  /\ tickInFlight' = TRUE /\ forcedTickPending' = FALSE
           /\ lastTickPosition' = p /\ lastTickTime' \in Nat
           /\ requests' \in Seq(Fixes) /\ Len(requests') = 1
           /\ lastRequest' \in [at: Fixes \cup {NoFix}, time: Nat]
BY DEF RequestList, TypeOK

\* An evaluation keeps the types of what it writes.
LEMMA EvaluateEffect ==
    ASSUME TypeOK, NEW p \in Fixes \cup {NoFix},
           NEW list \in [pois: Answers \cup {NoAnswer}, fetchedAt: Nat],
           NEW targets \in {"all", "zone"}, Evaluate(p, list, targets)
    PROVE  /\ lastCoverageReportTime' \in Nat /\ lastEvaluationTime' \in Nat
           /\ lastEvaluationPosition' \in Fixes \cup {NoFix}
           /\ evaluation' \in [turn: {0, 1}, at: Fixes \cup {NoFix},
                               list: [pois: Answers \cup {NoAnswer}, fetchedAt: Nat],
                               targets: {"all", "zone"}]
<1>1. lastCoverageReportTime' \in Nat
  BY DEF Evaluate, TypeOK
<1>2. evaluation.turn \in {0, 1}
  BY DEF TypeOK
<1>3. 1 - evaluation.turn \in {0, 1}
  BY <1>2
<1>4. QED
  BY <1>1, <1>3 DEF Evaluate, TypeOK

\* So does keeping a new list.
LEMMA EvaluateAllEffect ==
    ASSUME TypeOK, NEW p \in Fixes \cup {NoFix}, NEW pois \in Answers,
           NEW around \in Fixes \cup {NoFix}, EvaluateAll(p, pois, around)
    PROVE  EvaluationTypes'
<1>1. /\ lastList' \in [pois: Answers \cup {NoAnswer}, fetchedAt: Nat]
      /\ listAround' \in Fixes \cup {NoFix}
      /\ Evaluate(p, lastList', "all")
  BY DEF EvaluateAll, TypeOK
<1>2. QED
  BY <1>1, EvaluateEffect DEF EvaluationTypes

\* And a replay.
LEMMA MaybeEvaluateEffect ==
    ASSUME TypeOK, NEW p \in Fixes, MaybeEvaluate(p)
    PROVE  EvaluationTypes'
<1>1. UNCHANGED <<lastList, listAround>>
  BY DEF MaybeEvaluate, listVars
<1>2. CASE Evaluate(p, lastList, "zone")
  <2>1. lastList \in [pois: Answers \cup {NoAnswer}, fetchedAt: Nat]
    BY DEF TypeOK
  <2>2. QED
    BY <1>1, <1>2, <2>1, EvaluateEffect DEF TypeOK, EvaluationTypes
<1>3. CASE UNCHANGED evaluationVars
  BY <1>1, <1>3 DEF evaluationVars, TypeOK, EvaluationTypes
<1>4. QED
  BY <1>2, <1>3 DEF MaybeEvaluate

\* And leaving it all alone.
LEMMA NoEvaluationEffect ==
    ASSUME TypeOK, UNCHANGED <<evaluationVars, listVars>>
    PROVE  EvaluationTypes'
BY DEF TypeOK, EvaluationTypes, evaluationVars, listVars

\* With the slot free, nothing is out; with a request out, the slot is taken.
LEMMA SlotShape ==
    ASSUME TypeOK, OneRequestInFlight
    PROVE  /\ ~tickInFlight \/ settling => requests = <<>>
           /\ \A i \in 1..Len(requests) : tickInFlight /\ ~settling /\ Len(requests) = 1
BY DEF TypeOK, OneRequestInFlight

\* A fix that starts no tick is one the last tick's box covers.
LEMMA NoTickCovered ==
    ASSUME TypeOK, NEW p \in Fixes, ~ShouldTick(p)
    PROVE  /\ lastTickPosition # NoFix
           /\ HasZone => Moved(lastTickPosition, p) < CoverageMove
<1>1. lastTickPosition # NoFix /\ lastTickPosition \in Int /\ p \in Int
  BY NoFixApart DEF ShouldTick, TypeOK
<1>2. Moved(lastTickPosition, p) \in Int /\ CoverageMove \in Int
  BY <1>1, DistancesAssumption DEF Moved
<1>3. QED
  BY <1>1, <1>2 DEF ShouldTick, FarFrom

\* The vessel is on the position a tick has just started from.
LEMMA TickCovers ==
    ASSUME NEW p \in Fixes
    PROVE  Moved(p, p) < CoverageMove
BY NoFixApart, DistancesAssumption DEF Moved

-----------------------------------------------------------------------------
(***************************************************************************)
(* The step of the inductive invariant, one lemma per handler.             *)
(***************************************************************************)

\* A fix.
LEMMA OnPositionStep ==
    ASSUME Inv, NEW p \in Fixes, OnPosition(p)
    PROVE  Inv'
<1> USE DEF Inv
<1> DEFINE due == ~tickInFlight /\ (forcedTickPending \/ ShouldTick(p))
<1>1. /\ ~settling /\ ~stopped /\ latestPosition' = p /\ lastFixTime' = now
      /\ UNCHANGED <<stopped, settling, now>>
  BY DEF OnPosition, Idle
<1>2. p # NoFix
  BY NoFixApart
<1>3. CASE ~due /\ MaybeEvaluate(p) /\ UNCHANGED tickVars
  <2>1. TypeOK'
    BY <1>1, <1>3, MaybeEvaluateEffect DEF TypeOK, EvaluationTypes, tickVars
  <2>2. OneRequestInFlight'
    BY <1>1, <1>2, <1>3 DEF OneRequestInFlight, tickVars
  <2>3. NoScanForgotten'
    BY <1>1, <1>3 DEF NoScanForgotten, tickVars
  <2>4. TicksKeepUp'
    BY <1>1, <1>3, NoTickCovered DEF TicksKeepUp, tickVars
  <2>5. QED
    BY <2>1, <2>2, <2>3, <2>4
<1>4. CASE due /\ RequestList(p) /\ MaybeEvaluate(p)
  <2>1. requests = <<>>
    BY <1>4, SlotShape
  <2>2. TypeOK'
    BY <1>1, <1>4, <2>1, RequestListEffect, MaybeEvaluateEffect DEF TypeOK, EvaluationTypes
  <2>3. OneRequestInFlight'
    BY <1>1, <1>2, <1>4, <2>1, RequestListEffect DEF OneRequestInFlight
  <2>4. NoScanForgotten' /\ TicksKeepUp'
    BY <1>4, <2>1, RequestListEffect DEF NoScanForgotten, TicksKeepUp
  <2>5. QED
    BY <2>2, <2>3, <2>4
<1>5. CASE due /\ TickWithoutBox(p)
  <2>1. TypeOK'
    BY <1>1, <1>5, EvaluateAllEffect, AnswersAssumption
    DEF TypeOK, EvaluationTypes, TickWithoutBox
  <2>2. OneRequestInFlight' /\ NoScanForgotten' /\ TicksKeepUp'
    BY <1>1, <1>2, <1>5, SlotShape
    DEF OneRequestInFlight, NoScanForgotten, TicksKeepUp, TickWithoutBox
  <2>3. QED
    BY <2>1, <2>2
<1>6. QED
  BY <1>3, <1>4, <1>5 DEF OnPosition

\* A scan asked for.
LEMMA RequestScanStep ==
    ASSUME Inv, RequestScan
    PROVE  Inv'
<1> USE DEF Inv
<1> DEFINE served == ~tickInFlight /\ latestPosition # NoFix
<1>1. /\ ~settling /\ ~stopped
      /\ UNCHANGED <<stopped, fixVars, settling, now>>
  BY DEF RequestScan, Idle
<1>2. CASE /\ ~served
           /\ forcedTickPending' = TRUE
           /\ UNCHANGED <<tickInFlight, lastTickPosition, lastTickTime, requests,
                          lastRequest, evaluationVars, listVars>>
  <2>1. TypeOK'
    BY <1>1, <1>2, NoEvaluationEffect DEF TypeOK, EvaluationTypes, fixVars
  <2>2. QED
    BY <1>1, <1>2, <2>1
    DEF OneRequestInFlight, NoScanForgotten, TicksKeepUp, fixVars
<1>3. CASE served /\ RequestList(latestPosition) /\ UNCHANGED <<evaluationVars, listVars>>
  <2>1. requests = <<>> /\ latestPosition \in Fixes
    BY <1>3, SlotShape DEF TypeOK
  <2>2. TypeOK'
    BY <1>1, <1>3, <2>1, RequestListEffect, NoEvaluationEffect
    DEF TypeOK, EvaluationTypes, fixVars
  <2>3. QED
    BY <1>1, <1>3, <2>1, <2>2, RequestListEffect
    DEF OneRequestInFlight, NoScanForgotten, TicksKeepUp, fixVars
<1>4. CASE served /\ TickWithoutBox(latestPosition)
  <2>1. requests = <<>> /\ latestPosition \in Fixes
    BY <1>4, SlotShape DEF TypeOK
  <2>2. TypeOK'
    BY <1>1, <1>4, <2>1, EvaluateAllEffect, AnswersAssumption
    DEF TypeOK, EvaluationTypes, TickWithoutBox, fixVars
  <2>3. QED
    BY <1>1, <1>4, <2>1, <2>2, NoFixApart
    DEF OneRequestInFlight, NoScanForgotten, TicksKeepUp, TickWithoutBox, fixVars
<1>5. QED
  BY <1>2, <1>3, <1>4 DEF RequestScan

\* A request settles.
LEMMA SettleStep ==
    ASSUME Inv, Settle
    PROVE  Inv'
<1> USE DEF Inv
<1>1. PICK i \in 1..Len(requests) : Failed(i) \/ \E pois \in Answers : Answered(i, pois)
  BY DEF Settle
<1>2. Settles(i) /\ ~settling
  BY <1>1 DEF Failed, Answered, Idle
<1>3. Len(requests) = 1 /\ tickInFlight /\ requests[i] \in Fixes
  BY SlotShape DEF TypeOK
<1>4. requests' = <<>>
  BY <1>2, <1>3 DEF Settles
<1>5. EvaluationTypes'
  <2>1. CASE UNCHANGED <<evaluationVars, listVars>>
    BY <2>1 DEF evaluationVars, listVars, TypeOK, EvaluationTypes
  <2>2. ASSUME NEW pois \in Answers, EvaluateAll(latestPosition, pois, requests[i])
        PROVE  EvaluationTypes'
    <3>1. latestPosition \in Fixes \cup {NoFix}
      BY DEF TypeOK
    <3>2. QED
      BY <1>3, <2>2, <3>1, EvaluateAllEffect
  <2>3. QED
    BY <1>1, <2>1, <2>2 DEF Failed, Answered
<1>6. TypeOK'
  BY <1>2, <1>4, <1>5 DEF Settles, TypeOK, EvaluationTypes, fixVars
<1>7. QED
  BY <1>2, <1>3, <1>4, <1>6
  DEF Settles, OneRequestInFlight, NoScanForgotten, TicksKeepUp, fixVars

\* The finally block.
LEMMA FinallyStep ==
    ASSUME Inv, Finally
    PROVE  Inv'
<1> USE DEF Inv
<1> DEFINE due == ~stopped /\ (forcedTickPending \/ ShouldTick(latestPosition))
<1>1. /\ settling /\ settling' = FALSE
      /\ UNCHANGED <<stopped, fixVars, now>>
  BY DEF Finally
<1>2. requests = <<>> /\ latestPosition \in Fixes
  BY <1>1, SlotShape DEF OneRequestInFlight, TypeOK
<1>3. CASE /\ ~due
           /\ tickInFlight' = FALSE
           /\ UNCHANGED <<forcedTickPending, lastTickPosition, lastTickTime, requests,
                          lastRequest, evaluationVars, listVars>>
  <2>1. TypeOK'
    BY <1>1, <1>3, NoEvaluationEffect DEF TypeOK, EvaluationTypes, fixVars
  <2>2. TicksKeepUp'
    BY <1>1, <1>2, <1>3, NoTickCovered DEF TicksKeepUp, fixVars
  <2>3. QED
    BY <1>1, <1>2, <1>3, <2>1, <2>2
    DEF OneRequestInFlight, NoScanForgotten, fixVars
<1>4. CASE due /\ RequestList(latestPosition) /\ UNCHANGED <<evaluationVars, listVars>>
  <2>1. TypeOK'
    BY <1>1, <1>2, <1>4, RequestListEffect, NoEvaluationEffect
    DEF TypeOK, EvaluationTypes, fixVars
  <2>2. QED
    BY <1>1, <1>2, <1>4, <2>1, RequestListEffect, NoFixApart
    DEF OneRequestInFlight, NoScanForgotten, TicksKeepUp, fixVars
<1>5. CASE due /\ TickWithoutBox(latestPosition)
  <2>1. TypeOK'
    BY <1>1, <1>2, <1>5, EvaluateAllEffect, AnswersAssumption
    DEF TypeOK, EvaluationTypes, TickWithoutBox, fixVars
  <2>2. QED
    BY <1>1, <1>2, <1>5, <2>1, NoFixApart
    DEF OneRequestInFlight, NoScanForgotten, TicksKeepUp, TickWithoutBox, fixVars
<1>6. QED
  BY <1>3, <1>4, <1>5 DEF Finally

\* Every step.
LEMMA InvStep ==
    ASSUME Inv, [Next]_vars
    PROVE  Inv'
<1> USE DEF Inv
<1>1. CASE Stop
  <2>1. TypeOK'
    BY <1>1, NoEvaluationEffect DEF Stop, TypeOK, EvaluationTypes, fixVars
  <2>2. QED
    BY <1>1, <2>1 DEF Stop, OneRequestInFlight, NoScanForgotten, TicksKeepUp, fixVars
<1>2. CASE Advance
  <2>1. TypeOK'
    BY <1>2, NoEvaluationEffect DEF Advance, TypeOK, EvaluationTypes, tickVars, fixVars
  <2>2. QED
    BY <1>2, <2>1 DEF Advance, OneRequestInFlight, NoScanForgotten, TicksKeepUp,
       tickVars, fixVars
<1>3. CASE UNCHANGED vars
  <2>1. TypeOK'
    BY <1>3, NoEvaluationEffect DEF vars, TypeOK, EvaluationTypes, tickVars, fixVars
  <2>2. QED
    BY <1>3, <2>1 DEF vars, OneRequestInFlight, NoScanForgotten, TicksKeepUp,
       tickVars, fixVars
<1>4. QED
  BY <1>1, <1>2, <1>3, OnPositionStep, RequestScanStep, SettleStep, FinallyStep DEF Next

\* The inductive invariant always holds.
LEMMA InvAlways == Spec => []Inv
<1>1. ASSUME Init PROVE Inv
  <2>1. TypeOK
    <3>1. NoList \in [pois: Answers \cup {NoAnswer}, fetchedAt: Nat]
      BY DEF NoList
    <3>2. /\ lastRequest \in [at: Fixes \cup {NoFix}, time: Nat]
          /\ evaluation \in [turn: {0, 1}, at: Fixes \cup {NoFix},
                             list: [pois: Answers \cup {NoAnswer}, fetchedAt: Nat],
                             targets: {"all", "zone"}]
      BY <1>1, <3>1 DEF Init
    <3>3. requests \in Seq(Fixes) /\ now \in Nat
      BY <1>1, TimesAssumption DEF Init, Epoch
    <3>4. QED
      BY <1>1, <3>1, <3>2, <3>3 DEF Init, TypeOK
  <2>2. QED
    BY <1>1, <2>1 DEF Init, Inv, OneRequestInFlight, NoScanForgotten, TicksKeepUp
<1>2. Inv /\ [Next]_vars => Inv'
  BY InvStep
<1>3. QED
  BY <1>1, <1>2, PTL DEF Spec

-----------------------------------------------------------------------------
(***************************************************************************)
(* The properties.                                                         *)
(***************************************************************************)

\* The state always has its type.
THEOREM TypeCorrect == Spec => []TypeOK
<1>1. Inv => TypeOK
  BY DEF Inv
<1>2. QED
  BY <1>1, InvAlways, PTL

\* List requests never overlap, however fixes, scan requests and answers interleave.
THEOREM NoOverlap == Spec => []OneRequestInFlight
<1>1. Inv => OneRequestInFlight
  BY DEF Inv
<1>2. QED
  BY <1>1, InvAlways, PTL

\* A scan asked for is pending only while something is bound to take it up.
THEOREM ScansAreKept == Spec => []NoScanForgotten
<1>1. Inv => NoScanForgotten
  BY DEF Inv
<1>2. QED
  BY <1>1, InvAlways, PTL

\* With no request out, the vessel is in the water of the last tick's box.
THEOREM CoverageKept == Spec => []TicksKeepUp
<1>1. Inv => TicksKeepUp
  BY DEF Inv
<1>2. QED
  BY <1>1, InvAlways, PTL

\* A stopped monitor evaluates nothing, whatever was out when it stopped.
THEOREM StopIsFinal == Spec => NoEvaluationAfterStop
<1>1. ASSUME Inv, [Next]_vars, stopped
      PROVE  UNCHANGED <<evaluation, lastList>>
  <2> USE DEF Inv
  <2>1. CASE Settle
    BY <1>1, <2>1 DEF Settle, Failed, Answered, evaluationVars, listVars
  <2>2. CASE Finally
    BY <1>1, <2>2 DEF Finally, evaluationVars, listVars
  <2>3. CASE Advance \/ UNCHANGED vars
    BY <2>3 DEF Advance, vars, evaluationVars, listVars
  <2>4. QED
    BY <1>1, <2>1, <2>2, <2>3 DEF Next, OnPosition, RequestScan, Stop
<1>2. Inv /\ [Next]_vars => [stopped => UNCHANGED <<evaluation, lastList>>]_vars
  BY <1>1
<1>3. QED
  BY <1>2, InvAlways, PTL DEF Spec, NoEvaluationAfterStop

\* However fixes, scans asked for, answers, failures and a stop interleave: requests
\* do not overlap, no scan is lost, and no fix outside the last box waits.
THEOREM MonitorStaysSound == Spec => []MonitorSound
<1>1. Inv => MonitorSound
  BY DEF Inv, MonitorSound
<1>2. QED
  BY <1>1, InvAlways, PTL

-----------------------------------------------------------------------------
(***************************************************************************)
(* The action properties, and what the throttle knows of the requests.     *)
(***************************************************************************)

\* A request that is out is the last one made.  The throttle is committed no earlier
\* than it, and with a zone at its very position.
ThrottleKnows ==
    /\ \A i \in 1..Len(requests) : requests[i] = lastRequest.at
    /\ lastTickTime <= now
    /\ lastRequest.at # NoFix =>
          /\ lastTickPosition # NoFix
          /\ lastRequest.time <= lastTickTime
          /\ HasZone => lastRequest.at = lastTickPosition

\* A step leaves the throttle and the requests alone, settles a request, makes one
\* with the slot free, or ticks without a box.
LEMMA TickShape ==
    ASSUME Inv, [Next]_vars
    PROVE  \/ /\ UNCHANGED <<lastTickPosition, lastTickTime, lastRequest, requests>>
              /\ now' \in {now, now + 1}
           \/ /\ UNCHANGED <<lastTickPosition, lastTickTime, lastRequest, now>>
              /\ requests' = <<>>
           \/ /\ requests = <<>> /\ now' = now
              /\ \E p \in Fixes : RequestList(p) \/ TickWithoutBox(p)
<1> USE DEF Inv
<1>1. ASSUME NEW p \in Fixes, OnPosition(p)
      PROVE  \/ UNCHANGED <<lastTickPosition, lastTickTime, lastRequest, requests, now>>
             \/ requests = <<>> /\ now' = now /\ (RequestList(p) \/ TickWithoutBox(p))
  BY <1>1, SlotShape DEF OnPosition, tickVars
<1>2. CASE RequestScan
  <2>1. UNCHANGED now
    BY <1>2 DEF RequestScan
  <2>2. \/ UNCHANGED <<lastTickPosition, lastTickTime, lastRequest, requests>>
        \/ /\ requests = <<>> /\ latestPosition \in Fixes
           /\ RequestList(latestPosition) \/ TickWithoutBox(latestPosition)
    BY <1>2, SlotShape DEF RequestScan, TypeOK
  <2>3. QED
    BY <2>1, <2>2
<1>3. CASE Settle
  <2>1. PICK i \in 1..Len(requests) : Settles(i)
    BY <1>3 DEF Settle, Failed, Answered
  <2>2. Len(requests) = 1
    BY <2>1, SlotShape
  <2>3. QED
    BY <2>1, <2>2 DEF Settles
<1>4. CASE Finally
  <2>1. requests = <<>> /\ latestPosition \in Fixes /\ now' = now
    BY <1>4, SlotShape DEF Finally, OneRequestInFlight, TypeOK
  <2>2. \/ UNCHANGED <<lastTickPosition, lastTickTime, lastRequest, requests>>
        \/ RequestList(latestPosition) \/ TickWithoutBox(latestPosition)
    BY <1>4 DEF Finally
  <2>3. QED
    BY <2>1, <2>2
<1>5. CASE Stop \/ Advance \/ UNCHANGED vars
  BY <1>5 DEF Stop, Advance, vars, tickVars
<1>6. QED
  BY <1>1, <1>2, <1>3, <1>4, <1>5 DEF Next

\* ThrottleKnows is inductive.
LEMMA ThrottleStep ==
    ASSUME Inv, ThrottleKnows, [Next]_vars
    PROVE  ThrottleKnows'
<1>1. now \in Nat /\ lastTickTime \in Nat /\ lastRequest.time \in Nat
  BY DEF Inv, TypeOK
<1>2. CASE /\ UNCHANGED <<lastTickPosition, lastTickTime, lastRequest, requests>>
           /\ now' \in {now, now + 1}
  BY <1>1, <1>2 DEF ThrottleKnows
<1>3. CASE /\ UNCHANGED <<lastTickPosition, lastTickTime, lastRequest, now>>
           /\ requests' = <<>>
  BY <1>3 DEF ThrottleKnows
<1>4. ASSUME NEW p \in Fixes, RequestList(p), requests = <<>>, now' = now
      PROVE  ThrottleKnows'
  <2>1. requests' = <<p>> /\ lastRequest'.at = p /\ lastRequest'.time = now
    BY <1>4 DEF RequestList
  <2>2. lastTickPosition' = p /\ lastTickTime' = now
    BY <1>4 DEF RequestList
  <2>3. QED
    BY <1>1, <1>4, <2>1, <2>2, NoFixApart DEF ThrottleKnows
<1>5. ASSUME NEW p \in Fixes, TickWithoutBox(p), now' = now
      PROVE  ThrottleKnows'
  <2>1. /\ ~HasZone /\ UNCHANGED <<requests, lastRequest>>
        /\ lastTickPosition' = p /\ lastTickTime' = now
    BY <1>5 DEF TickWithoutBox
  <2>2. QED
    BY <1>1, <1>5, <2>1, NoFixApart DEF ThrottleKnows
<1>6. QED
  BY <1>2, <1>3, <1>4, <1>5, TickShape

\* It always holds.
LEMMA ThrottleAlways == Spec => []ThrottleKnows
<1>1. ASSUME Init
      PROVE  ThrottleKnows
  <2>1. requests = <<>> /\ lastTickTime = 0 /\ lastRequest.at = NoFix /\ now \in Nat
    BY <1>1, TimesAssumption DEF Init, Epoch
  <2>2. QED
    BY <2>1 DEF ThrottleKnows
<1>2. QED
  BY <1>1, ThrottleStep, InvAlways, PTL DEF Spec

\* A failing upstream makes the monitor no retry loop, for any interval and any
\* coverage distance.
THEOREM FailuresDoNotLoop == Spec => RequestsThrottled
<1>1. ASSUME Inv, ThrottleKnows, Finally \/ \E p \in Fixes : OnPosition(p),
             lastRequest' # lastRequest, lastRequest.at # NoFix, ~forcedTickPending
      PROVE  \/ now - lastRequest.time >= MinInterval
             \/ Moved(lastRequest.at, latestPosition') >= CoverageMove
  <2>1. ShouldTick(latestPosition')
    <3>1. CASE Finally
      BY <1>1, <3>1 DEF Finally, fixVars
    <3>2. ASSUME NEW p \in Fixes, OnPosition(p)
          PROVE  ShouldTick(latestPosition')
      BY <1>1, <3>2 DEF OnPosition, tickVars
    <3>3. QED
      BY <1>1, <3>1, <3>2
  <2>2. /\ lastTickPosition # NoFix
        /\ lastRequest.time <= lastTickTime
        /\ HasZone => lastRequest.at = lastTickPosition
    BY <1>1 DEF ThrottleKnows
  <2>3. CASE now - lastTickTime >= MinInterval
    <3>1. now \in Nat /\ lastTickTime \in Nat /\ lastRequest.time \in Nat
      BY <1>1 DEF Inv, TypeOK
    <3>2. QED
      BY <2>2, <2>3, <3>1, TimesAssumption
  <2>4. CASE HasZone /\ FarFrom(lastTickPosition, latestPosition', CoverageMove)
    BY <2>2, <2>4 DEF FarFrom
  <2>5. QED
    BY <2>1, <2>2, <2>3, <2>4 DEF ShouldTick
<1>2. Inv /\ ThrottleKnows /\ [Next]_vars =>
        [/\ Finally \/ \E p \in Fixes : OnPosition(p)
         /\ lastRequest' # lastRequest
         /\ lastRequest.at # NoFix
         /\ ~forcedTickPending
         => \/ now - lastRequest.time >= MinInterval
            \/ Moved(lastRequest.at, latestPosition') >= CoverageMove]_vars
  BY <1>1
<1>3. QED
  BY <1>2, InvAlways, ThrottleAlways, PTL DEF Spec, RequestsThrottled

\* What an evaluation shows the contributors, given that it keeps a new list or the
\* list in hand, at the newest fix.
LEMMA EvaluationShows ==
    ASSUME NEW p, NEW list, NEW targets, Evaluate(p, list, targets),
           p = latestPosition', list = lastList'
    PROVE  evaluation'.at = latestPosition' /\ evaluation'.list = lastList'
BY DEF Evaluate

\* The contributors see the newest fix with the newest list, and a list in hand is
\* the answer to the last request.
THEOREM NewestIsEvaluated == Spec => EvaluatesNewest
<1> DEFINE Shown == evaluation' # evaluation =>
                      evaluation'.at = latestPosition' /\ evaluation'.list = lastList'
           Kept == lastList' # lastList =>
                      /\ lastList'.fetchedAt = now
                      /\ listAround' \in {lastRequest.at, NoFix}
<1>1. ASSUME NEW p, TickWithoutBox(p), p = latestPosition'
      PROVE  Shown /\ Kept
  <2>1. EvaluateAll(p, EmptyAnswer, NoFix)
    BY <1>1 DEF TickWithoutBox
  <2>2. Shown
    BY <1>1, <2>1, EvaluationShows DEF EvaluateAll
  <2>3. QED
    BY <2>1, <2>2 DEF EvaluateAll
<1>2. ASSUME NEW p, MaybeEvaluate(p), p = latestPosition'
      PROVE  Shown /\ Kept
  <2>1. lastList' = lastList
    BY <1>2 DEF MaybeEvaluate, listVars
  <2>2. CASE Evaluate(p, lastList, "zone")
    BY <1>2, <2>1, <2>2, EvaluationShows
  <2>3. CASE UNCHANGED evaluationVars
    BY <2>1, <2>3 DEF evaluationVars
  <2>4. QED
    BY <1>2, <2>2, <2>3 DEF MaybeEvaluate
<1>3. ASSUME UNCHANGED <<evaluationVars, listVars>>
      PROVE  Shown /\ Kept
  BY <1>3 DEF evaluationVars, listVars
<1>4. ASSUME Inv, ThrottleKnows, [Next]_vars
      PROVE  Shown /\ Kept
  <2>1. ASSUME NEW p \in Fixes, OnPosition(p)
        PROVE  Shown /\ Kept
    BY <1>1, <1>2, <2>1 DEF OnPosition
  <2>2. CASE RequestScan
    BY <1>1, <1>3, <2>2 DEF RequestScan, fixVars
  <2>3. CASE Finally
    BY <1>1, <1>3, <2>3 DEF Finally, fixVars
  <2>4. ASSUME NEW i \in 1..Len(requests), NEW pois \in Answers, Answered(i, pois)
        PROVE  Shown /\ Kept
    <3>1. latestPosition' = latestPosition /\ requests[i] = lastRequest.at
      BY <1>4, <2>4 DEF Answered, Settles, fixVars, ThrottleKnows
    <3>2. CASE EvaluateAll(latestPosition, pois, requests[i])
      <4>1. Shown
        BY <3>1, <3>2, EvaluationShows DEF EvaluateAll
      <4>2. QED
        BY <3>1, <3>2, <4>1 DEF EvaluateAll
    <3>3. QED
      BY <1>3, <2>4, <3>2 DEF Answered
  <2>5. CASE \E i \in 1..Len(requests) : Failed(i)
    BY <1>3, <2>5 DEF Failed
  <2>6. CASE Stop \/ Advance \/ UNCHANGED vars
    BY <1>3, <2>6 DEF Stop, Advance, vars
  <2>7. QED
    BY <1>4, <2>1, <2>2, <2>3, <2>4, <2>5, <2>6 DEF Next, Settle
<1>5. Inv /\ ThrottleKnows /\ [Next]_vars => [Shown /\ Kept]_vars
  BY <1>4
<1>6. QED
  BY <1>5, InvAlways, ThrottleAlways, PTL DEF Spec, EvaluatesNewest

-----------------------------------------------------------------------------
(***************************************************************************)
(* The monitor with the alarms behind it implements the alarms.            *)
(***************************************************************************)

\* A list in hand was evaluated somewhere.
InHand == lastList = NoList \/ (lastList.pois \in Answers /\ lastEvaluationPosition \in Fixes)

\* A step evaluates nothing; or replays the list in hand at the newest fix; or lands a
\* new list there.
LEMMA EvaluationShape ==
    ASSUME Inv, [Next]_vars
    PROVE  \/ UNCHANGED <<evaluation, lastList, lastEvaluationPosition, lastEvaluationTime>>
           \/ /\ ~stopped /\ UNCHANGED <<stopped, now>> /\ latestPosition' \in Fixes
              /\ \/ /\ lastList # NoList /\ lastList' = lastList
                    /\ Evaluate(latestPosition', lastList, "zone")
                 \/ \E pois \in Answers :
                       /\ lastList' = [pois |-> pois, fetchedAt |-> now]
                       /\ Evaluate(latestPosition', lastList', "all")
<1> USE DEF Inv
<1> DEFINE Shape == \/ UNCHANGED <<evaluation, lastList, lastEvaluationPosition, lastEvaluationTime>>
                    \/ /\ ~stopped /\ UNCHANGED <<stopped, now>> /\ latestPosition' \in Fixes
                       /\ \/ /\ lastList # NoList /\ lastList' = lastList
                             /\ Evaluate(latestPosition', lastList, "zone")
                          \/ \E pois \in Answers :
                                /\ lastList' = [pois |-> pois, fetchedAt |-> now]
                                /\ Evaluate(latestPosition', lastList', "all")
<1>0. \A p : ~TickWithoutBox(p)
  BY MonitoredAssumption DEF TickWithoutBox
<1>1. UNCHANGED <<evaluationVars, listVars>> => Shape
  BY DEF evaluationVars, listVars
<1>2. ASSUME NEW p \in Fixes, OnPosition(p) PROVE Shape
  <2>1. ~stopped /\ UNCHANGED <<stopped, now>> /\ latestPosition' = p /\ MaybeEvaluate(p)
    BY <1>2, <1>0 DEF OnPosition
  <2>2. QED
    BY <2>1, <1>1 DEF MaybeEvaluate, listVars
<1>3. CASE RequestScan \/ Finally
  BY <1>3, <1>0, <1>1 DEF RequestScan, Finally
<1>4. ASSUME NEW i \in 1..Len(requests), NEW pois \in Answers, Answered(i, pois) PROVE Shape
  <2>1. Settles(i) /\ latestPosition' = latestPosition /\ UNCHANGED <<stopped, now>>
    BY <1>4 DEF Answered, Settles, fixVars
  <2>2. latestPosition \in Fixes
    BY SlotShape DEF OneRequestInFlight, TypeOK
  <2>3. CASE stopped
    BY <1>1, <1>4, <2>3 DEF Answered
  <2>4. CASE ~stopped
    BY <1>4, <2>1, <2>2, <2>4 DEF Answered, EvaluateAll
  <2>5. QED
    BY <2>3, <2>4
<1>5. CASE \E i \in 1..Len(requests) : Failed(i)
  BY <1>5, <1>1 DEF Failed
<1>6. CASE Stop \/ Advance \/ UNCHANGED vars
  BY <1>6, <1>1 DEF Stop, Advance, vars
<1>7. QED
  BY <1>2, <1>3, <1>4, <1>5, <1>6 DEF Next, Settle

LEMMA InHandStep ==
    ASSUME Inv, InHand, [Next]_vars
    PROVE  InHand'
<1>1. CASE UNCHANGED <<evaluation, lastList, lastEvaluationPosition, lastEvaluationTime>>
  BY <1>1 DEF InHand, NoList
<1>2. CASE /\ lastList # NoList /\ lastList' = lastList /\ latestPosition' \in Fixes
           /\ Evaluate(latestPosition', lastList, "zone")
  BY <1>2 DEF InHand, Evaluate, NoList
<1>3. ASSUME NEW pois \in Answers, lastList' = [pois |-> pois, fetchedAt |-> now],
             latestPosition' \in Fixes, Evaluate(latestPosition', lastList', "all")
      PROVE  InHand'
  BY <1>3 DEF InHand, Evaluate
<1>4. QED
  BY <1>1, <1>2, <1>3, EvaluationShape

\* The steps of the two together are steps of the monitor.
LEMMA MonitoredSteps ==
    /\ MonitoredInit => Init
    /\ [MonitoredNext]_monitoredVars => [Next]_vars
  BY DEF MonitoredInit, MonitoredNext, MonitoredSpec, MonitorStep, Teardown, Next,
     monitoredVars

LEMMA MonitoredAlways == MonitoredSpec => Spec /\ []Inv /\ []InHand
<1>1. Init => InHand
  BY DEF Init, InHand
<1>2. MonitoredSpec => Spec
  BY MonitoredSteps, PTL DEF MonitoredSpec, Spec
<1>3. Spec => []Inv /\ []InHand
  BY <1>1, InHandStep, InvAlways, PTL DEF Spec
<1>4. QED
  BY <1>2, <1>3, PTL

LEMMA Seen ==
    ASSUME InHand
    PROVE  /\ lastList # NoList => SeenList = lastList /\ SeenVessel = lastEvaluationPosition
           /\ SeenVessel \in Positions \/ lastEvaluationPosition \notin Fixes \cup {NoFix}
<1>1. \A p \in Fixes : p # NoFix
  BY FixesAreIntegers
<1>2. (CHOOSE p \in Fixes : TRUE) \in Positions
  BY MonitoredAssumption
<1>3. QED
  BY <1>1, <1>2, AnswersAssumption, MonitoredAssumption DEF InHand, SeenList, SeenVessel

\* An evaluation shows itself.
LEMMA EvaluationTurns ==
    ASSUME TypeOK, NEW p, NEW list, NEW targets, Evaluate(p, list, targets)
    PROVE  /\ evaluation' # evaluation /\ lastEvaluationPosition' = p
           /\ evaluation'.at = p /\ evaluation'.list = list /\ evaluation'.targets = targets
<1>1. evaluation.turn \in {0, 1}
  BY DEF TypeOK
<1>2. evaluation' = [turn |-> 1 - evaluation.turn, at |-> p, list |-> list, targets |-> targets]
      /\ lastEvaluationPosition' = p
  BY DEF Evaluate
<1>3. evaluation'.turn # evaluation.turn
  BY <1>1, <1>2
<1>4. QED
  BY <1>2, <1>3

\* The operators of the retention are the same for both.
LEMMA SameRetention ==
    /\ Alarms!NoAlarms = NoAlarms /\ Alarms!Silent = Silent /\ Alarms!Lists = Lists
    /\ Alarms!ClearedWire(wire, tracker) = ClearedWire(wire, tracker)
<1>1. Alarms!NoAlarms = NoAlarms /\ Alarms!Silent = Silent /\ Alarms!Lists = Lists
  BY DEF Alarms!NoAlarms, NoAlarms, Alarms!Raised, Raised, Alarms!Silent, Silent,
     Alarms!Lists, Lists, Alarms!Places, Places
<1>2. Alarms!ClearedWire(wire, tracker) = ClearedWire(wire, tracker)
  BY DEF Alarms!ClearedWire, ClearedWire, Alarms!NextWire, NextWire, Alarms!AlarmNotice,
     AlarmNotice, Alarms!ClearNotice, ClearNotice
<1>3. QED
  BY <1>1, <1>2

\* What evaluates nothing moves nothing the alarms see, except by the clock or the end.
LEMMA QuietStep ==
    ASSUME Inv, MonitoredNext \/ UNCHANGED monitoredVars,
           UNCHANGED <<evaluation, lastList, lastEvaluationPosition, lastEvaluationTime>>
    PROVE  Alarms!Next \/ UNCHANGED Alarms!vars
<1>1. UNCHANGED <<SeenList, SeenVessel>>
  BY DEF SeenList, SeenVessel
<1>2. CASE Teardown
  <2>1. /\ ~stopped /\ stopped' = TRUE /\ now' = now
        /\ tracker' = NoAlarms /\ wire' = ClearedWire(wire, tracker)
        /\ UNCHANGED <<reported, departed>>
    BY <1>2 DEF Teardown, Stop
  <2>2. Alarms!Stop
    BY <1>1, <2>1, SameRetention DEF Alarms!Stop, Alarms!callerVars, Alarms!histories, SeenList, SeenVessel
  <2>3. QED
    BY <2>2 DEF Alarms!Next
<1>3. CASE UNCHANGED monitoredVars
  BY <1>1, <1>3 DEF monitoredVars, vars, alarmVars, Alarms!vars, Alarms!alarmVars,
     Alarms!callerVars, Alarms!histories, SeenList, SeenVessel
<1>4. ASSUME React, UNCHANGED stopped
      PROVE  UNCHANGED <<tracker, wire, stopped, reported, departed>>
  BY <1>4 DEF React, alarmVars
<1>5. ASSUME React, Advance
      PROVE  Alarms!Tick
  <2>1. now < MaxTime /\ now' = now + 1 /\ UNCHANGED <<tracker, wire, stopped, reported, departed>>
    BY <1>4, <1>5 DEF Advance
  <2>2. QED
    BY <1>1, <2>1 DEF Alarms!Tick, Alarms!alarmVars, Alarms!histories, SeenList, SeenVessel
<1>6. ASSUME React, UNCHANGED <<stopped, now>>
      PROVE  UNCHANGED Alarms!vars
  BY <1>1, <1>4, <1>6 DEF Alarms!vars, Alarms!alarmVars, Alarms!callerVars,
     Alarms!histories, SeenList, SeenVessel
<1>7. ASSUME (\E p \in Fixes : OnPosition(p)) \/ RequestScan \/ Settle \/ Finally
      PROVE  UNCHANGED <<stopped, now>>
  BY <1>7 DEF OnPosition, RequestScan, Settle, Finally, Answered, Failed, Settles
<1>8. QED
  BY <1>2, <1>3, <1>5, <1>6, <1>7 DEF MonitoredNext, MonitorStep, Alarms!Next

\* A replay of the monitor is a replay of the alarms.
LEMMA ReplayStep ==
    ASSUME Inv, InHand, InHand', React, ~stopped, UNCHANGED <<stopped, now>>,
           latestPosition' \in Fixes, lastList # NoList, lastList' = lastList,
           Evaluate(latestPosition', lastList, "zone")
    PROVE  Alarms!Replay(latestPosition')
<1>1. /\ evaluation' # evaluation /\ lastEvaluationPosition' = latestPosition'
      /\ evaluation'.at = latestPosition' /\ evaluation'.list = lastList
      /\ evaluation'.targets = "zone"
  BY EvaluationTurns DEF Inv
<1>2. /\ Alarms!Evaluate(latestPosition', lastList.pois, lastList.fetchedAt)
      /\ reported' = reported
  BY <1>1 DEF React
<1>3. SeenList = lastList /\ SeenList' = SeenList /\ SeenVessel' = latestPosition'
  BY <1>1, Seen DEF SeenList, SeenVessel
<1>4. QED
  BY <1>2, <1>3 DEF Alarms!Replay, SeenList, SeenVessel

\* A list that lands is one for the alarms.
LEMMA LandStep ==
    ASSUME Inv, InHand, InHand', React, ~stopped, UNCHANGED <<stopped, now>>,
           latestPosition' \in Fixes, NEW pois \in Answers,
           lastList' = [pois |-> pois, fetchedAt |-> now],
           Evaluate(latestPosition', lastList', "all")
    PROVE  Alarms!ListLands(latestPosition', pois)
<1>1. /\ evaluation' # evaluation /\ lastEvaluationPosition' = latestPosition'
      /\ evaluation'.at = latestPosition' /\ evaluation'.list = lastList'
      /\ evaluation'.targets = "all"
  BY EvaluationTurns DEF Inv
<1>2. /\ Alarms!Evaluate(latestPosition', pois, now)
      /\ reported' = Reported(pois)
  BY <1>1 DEF React
<1>3. pois # NoAnswer /\ latestPosition' # NoFix
  BY AnswersAssumption, FixesAreIntegers
<1>4. SeenList' = [pois |-> pois, fetchedAt |-> now] /\ SeenVessel' = latestPosition'
  BY <1>1, <1>3 DEF SeenList, SeenVessel
<1>5. QED
  BY <1>2, <1>4 DEF Alarms!ListLands, SeenList, SeenVessel, Reported

LEMMA RefinementStep ==
    ASSUME Inv, InHand, [MonitoredNext]_monitoredVars
    PROVE  [Alarms!Next]_(Alarms!vars)
<1>1. [Next]_vars
  BY MonitoredSteps
<1>2. InHand'
  BY <1>1, InHandStep
<1>3. CASE UNCHANGED <<evaluation, lastList, lastEvaluationPosition, lastEvaluationTime>>
  BY <1>3, QuietStep
<1>4. ASSUME ~stopped, UNCHANGED <<stopped, now>>, latestPosition' \in Fixes,
             evaluation' # evaluation,
             \/ /\ lastList # NoList /\ lastList' = lastList
                /\ Evaluate(latestPosition', lastList, "zone")
             \/ \E pois \in Answers :
                   /\ lastList' = [pois |-> pois, fetchedAt |-> now]
                   /\ Evaluate(latestPosition', lastList', "all")
      PROVE  Alarms!Next
  <2>1. React
    BY <1>4 DEF MonitoredNext, MonitorStep, Teardown, Stop, monitoredVars, vars,
       evaluationVars
  <2>2. latestPosition' \in Positions
    BY <1>4, MonitoredAssumption
  <2>3. CASE lastList # NoList /\ lastList' = lastList /\ Evaluate(latestPosition', lastList, "zone")
    BY <1>2, <1>4, <2>1, <2>2, <2>3, ReplayStep DEF Alarms!Next
  <2>4. ASSUME NEW pois \in Answers, lastList' = [pois |-> pois, fetchedAt |-> now],
               Evaluate(latestPosition', lastList', "all")
        PROVE  Alarms!Next
    <3>1. pois \in Alarms!Lists
      BY MonitoredAssumption, SameRetention
    <3>2. Alarms!ListLands(latestPosition', pois)
      BY <1>2, <1>4, <2>1, <2>4, LandStep
    <3>3. QED
      BY <2>2, <3>1, <3>2 DEF Alarms!Next
  <2>5. QED
    BY <1>4, <2>3, <2>4
<1>5. ASSUME NEW list, NEW targets, Evaluate(latestPosition', list, targets)
      PROVE  evaluation' # evaluation
  BY <1>5, EvaluationTurns DEF Inv
<1>6. QED
  BY <1>1, <1>3, <1>4, <1>5, EvaluationShape

\* With the alarms behind it the monitor is still the monitor: what is proved of it holds
\* of the two together, and of the state both share (position-monitor.ts: handle).
THEOREM MonitorStaysItself ==
    MonitoredSpec => Spec /\ []MonitorSound /\ RequestsThrottled /\ EvaluatesNewest
BY MonitoredAlways, MonitorStaysSound, FailuresDoNotLoop, NewestIsEvaluated, PTL

\* The monitor is the caller the alarms were specified against: every step of the two is
\* a step of the alarms alone, or none of theirs (position-monitor.ts: evaluateAll,
\* maybeEvaluate; proximity-alarm-output.ts), for any distances, intervals and answers.
THEOREM MonitorRefinesCaller == MonitoredSpec => Refines
<1>1. ASSUME MonitoredInit
      PROVE  Alarms!Init
  <2>1. /\ lastList = NoList /\ lastEvaluationPosition = NoFix /\ now = Epoch
        /\ stopped = FALSE
    BY <1>1 DEF MonitoredInit, Init
  <2>2. SeenList = [pois |-> NoPois, fetchedAt |-> 0] /\ SeenVessel \in Positions
    BY <2>1, MonitoredAssumption DEF SeenList, SeenVessel, NoList
  <2>3. QED
    BY <1>1, <2>1, <2>2, SameRetention DEF MonitoredInit, Alarms!Init, Alarms!NoList, NoPois, SeenList,
       SeenVessel
<1>2. QED
  BY <1>1, RefinementStep, MonitoredAlways, PTL DEF MonitoredSpec, Refines, Alarms!Spec

-----------------------------------------------------------------------------
(***************************************************************************)
(* What the theorem of the alarms says of the fixes between evaluations.   *)
(***************************************************************************)

AP == INSTANCE ProximityProofs WITH
    StartTime <- Epoch, list <- SeenList, vessel <- SeenVessel

\* The specification of the alarms is the one their theorem is about.
LEMMA SameAlarms == Alarms!Spec => AP!Spec
<1>1. Alarms!Init => AP!Init
  BY DEF Alarms!Init, AP!Init, Alarms!NoAlarms, AP!NoAlarms, Alarms!Raised, AP!Raised,
     Alarms!Silent, AP!Silent, Alarms!NoList, AP!NoList, Alarms!Never, AP!Never,
     Alarms!NotYet, AP!NotYet
<1>2. [Alarms!Next]_(Alarms!vars) => [AP!Next]_(AP!vars)
  BY DEF Alarms!Next, AP!Next, Alarms!ListLands, AP!ListLands, Alarms!Replay,
     AP!Replay, Alarms!Stop, AP!Stop, Alarms!Tick, AP!Tick, Alarms!Evaluate,
     AP!Evaluate, Alarms!InAlarm, AP!InAlarm, Alarms!HysteresisThreshold,
     AP!HysteresisThreshold, Alarms!Within, AP!Within, Alarms!Distance, AP!Distance,
     Alarms!Reconfirm, AP!Reconfirm, Alarms!Reconfirmed, AP!Reconfirmed,
     Alarms!Expired, AP!Expired, Alarms!Completed, AP!Completed, Alarms!Held, AP!Held,
     Alarms!NextTracker, AP!NextTracker, Alarms!NextWire, AP!NextWire, Alarms!Raised,
     AP!Raised, Alarms!AlarmNotice, AP!AlarmNotice, Alarms!ClearNotice, AP!ClearNotice,
     Alarms!ClearedWire, AP!ClearedWire, Alarms!NoAlarms, AP!NoAlarms, Alarms!Lists,
     AP!Lists, Alarms!Places, AP!Places, Alarms!vars, AP!vars, Alarms!alarmVars,
     AP!alarmVars, Alarms!callerVars, AP!callerVars, Alarms!histories, AP!histories
<1>3. QED
  BY <1>1, <1>2, PTL DEF Alarms!Spec, AP!Spec

LEMMA AlarmsHold == MonitoredSpec => []AP!AlarmsSound
<1>1. AP!Spec => []AP!AlarmsSound
  BY AP!AlarmsFollowGeometry, PositionsAssumption, UnplacedAssumption, RadiiAssumption,
     WindowAssumption, TimesAssumption DEF Epoch
<1>2. QED
  BY <1>1, SameAlarms, MonitorRefinesCaller, PTL DEF Refines

\* A fix no evaluation followed is less than a sampling distance from the last one, or
\* came within the shortest interval of it.
Sampled ==
    /\ lastFixTime <= now
    /\ lastFixTime = now /\ lastList # NoList /\ ~stopped =>
          \/ now - lastEvaluationTime < MinEvaluation
          \/ latestPosition \in Fixes /\ Moved(lastEvaluationPosition, latestPosition) < EvaluationMove

LEMMA SampledStep ==
    ASSUME Inv, InHand, Sampled, [Next]_vars
    PROVE  Sampled'
<1> USE DEF Inv
<1>0. /\ now \in Nat /\ lastEvaluationTime \in Nat /\ lastFixTime \in Nat
      /\ MinEvaluation \in Nat \ {0} /\ EvaluationMove \in Nat \ {0}
  BY TimesAssumption, DistancesAssumption DEF TypeOK
<1>1. ASSUME NEW p, NEW list, NEW targets, Evaluate(p, list, targets), now' = now,
             lastFixTime' <= now
      PROVE  Sampled'
  BY <1>0, <1>1 DEF Evaluate, Sampled
<1>2. ASSUME UNCHANGED <<lastFixTime, now, lastEvaluationTime, lastEvaluationPosition,
                         latestPosition>>,
             lastList' = lastList, stopped' = stopped \/ stopped'
      PROVE  Sampled'
  BY <1>2 DEF Sampled, NoList, Moved
<1>3. ASSUME NEW p \in Fixes, OnPosition(p) PROVE Sampled'
  <2>1. /\ latestPosition' = p /\ lastFixTime' = now /\ UNCHANGED <<stopped, now>>
        /\ MaybeEvaluate(p)
    BY <1>3, MonitoredAssumption DEF OnPosition, TickWithoutBox
  <2>2. CASE Evaluate(p, lastList, "zone")
    BY <1>0, <1>1, <2>1, <2>2
  <2>3. CASE ~ShouldEvaluate(p) /\ UNCHANGED evaluationVars /\ lastList' = lastList
             /\ lastList # NoList
    <3>1. lastEvaluationPosition \in Fixes /\ p \in Int /\ lastEvaluationPosition \in Int
      BY <2>3, FixesAreIntegers DEF InHand
    <3>2. Moved(lastEvaluationPosition, p) \in Int
      BY <3>1 DEF Moved
    <3>3. \/ now - lastEvaluationTime < MinEvaluation
          \/ Moved(lastEvaluationPosition, p) < EvaluationMove
      BY <1>0, <2>3, <3>1, <3>2 DEF ShouldEvaluate, FarFrom
    <3>4. lastEvaluationTime' = lastEvaluationTime
          /\ lastEvaluationPosition' = lastEvaluationPosition
      BY <2>3 DEF evaluationVars
    <3>5. QED
      BY <1>0, <2>1, <3>3, <3>4 DEF Sampled, Moved
  <2>4. CASE lastList' = lastList /\ lastList = NoList
    BY <1>0, <2>1, <2>4 DEF Sampled, NoList
  <2>5. QED
    BY <2>1, <2>2, <2>3, <2>4, MonitoredAssumption DEF MaybeEvaluate, listVars
<1>4. CASE RequestScan \/ Finally
  <2>1. UNCHANGED <<lastFixTime, now, lastEvaluationTime, lastEvaluationPosition,
                    latestPosition, lastList, stopped>>
    BY <1>4, MonitoredAssumption
    DEF RequestScan, Finally, TickWithoutBox, evaluationVars, listVars, fixVars
  <2>2. QED
    BY <1>2, <2>1
<1>5. ASSUME NEW i \in 1..Len(requests), Failed(i) \/ \E pois \in Answers : Answered(i, pois)
      PROVE  Sampled'
  <2>1. UNCHANGED <<stopped, latestPosition, lastFixTime, now>>
    BY <1>5 DEF Failed, Answered, Settles, fixVars
  <2>2. CASE UNCHANGED <<evaluationVars, listVars>>
    BY <1>2, <2>1, <2>2 DEF evaluationVars, listVars
  <2>3. ASSUME NEW pois, EvaluateAll(latestPosition, pois, requests[i]) PROVE Sampled'
    BY <1>0, <1>1, <2>1, <2>3 DEF EvaluateAll, Sampled
  <2>4. QED
    BY <1>5, <2>2, <2>3 DEF Failed, Answered
<1>6. CASE Stop
  BY <1>0, <1>6 DEF Stop, Sampled, fixVars
<1>7. CASE Advance
  BY <1>0, <1>7 DEF Advance, Sampled, fixVars
<1>8. CASE UNCHANGED vars
  BY <1>2, <1>8 DEF vars, fixVars, listVars, evaluationVars
<1>9. QED
  BY <1>3, <1>4, <1>5, <1>6, <1>7, <1>8 DEF Next, Settle

\* Near enough after less than a sampling distance is nearer still before it.
LEMMA WithinDrift ==
    ASSUME NEW a \in Positions, NEW b \in Positions, NEW place \in Places, NEW radius \in Int,
           NEW move \in Int, Moved(a, b) < move
    PROVE  /\ Within(b, place, radius - move + 1) => Within(a, place, radius)
           /\ Within(a, place, radius) => Within(b, place, radius + move - 1)
<1>1. a \in Int /\ b \in Int /\ (place # Unplaced => place \in Int)
  BY PositionsAssumption DEF Places
<1>2. QED
  BY <1>1 DEF Within, Distance, Moved

\* Between two evaluations no fix is farther than a sampling distance from what the alarms
\* were last checked at, unless the shortest interval has not passed (position-monitor.ts:
\* shouldEvaluate), so that no hazard deep inside its radius goes without an alarm.
THEOREM FixesStayChecked == MonitoredSpec => []FixesAreChecked
<1>1. ASSUME Inv, InHand, Sampled, AP!AlarmsSound
      PROVE  FixesAreChecked
  <2> SUFFICES ASSUME ~stopped, lastList.pois # NoAnswer, lastFixTime = now,
                      now - lastEvaluationTime >= MinEvaluation
               PROVE  /\ \A p \in DOMAIN lastList.pois :
                            Within(latestPosition, lastList.pois[p], RaiseRadius - EvaluationMove + 1)
                              => p \in DOMAIN tracker
                      /\ \A p \in DOMAIN tracker :
                            Within(latestPosition, reported[p].at, ExitRadius + EvaluationMove - 1)
    BY DEF FixesAreChecked
  <2>1. /\ lastList # NoList /\ lastList.pois \in Lists /\ lastEvaluationPosition \in Fixes
        /\ lastEvaluationPosition # NoFix
    <3>1. NoList.pois = NoAnswer
      BY DEF NoList
    <3>2. lastList.pois \in Answers /\ lastEvaluationPosition \in Fixes
      BY <1>1, <3>1 DEF InHand
    <3>3. QED
      BY <3>1, <3>2, MonitoredAssumption, FixesAreIntegers
  <2>2. SeenList = lastList /\ SeenVessel = lastEvaluationPosition
    BY <2>1 DEF SeenList, SeenVessel
  <2>3. /\ \A p \in DOMAIN lastList.pois :
              Within(lastEvaluationPosition, lastList.pois[p], RaiseRadius) => p \in DOMAIN tracker
        /\ \A p \in DOMAIN tracker : Within(lastEvaluationPosition, reported[p].at, ExitRadius)
    BY <1>1, <2>2 DEF AP!AlarmsSound, AP!AlarmsFitGeometry, AP!Within, AP!Distance, Within,
       Distance
  <2>4. /\ DOMAIN tracker \subseteq Points /\ \A p \in Points : reported[p].at \in Places
        /\ \A p \in DOMAIN lastList.pois : lastList.pois[p] \in Places
    BY <1>1, <2>1 DEF AP!AlarmsSound, AP!TypeOK, AP!IsTracker, AP!Places, Places, Lists
  <2>5. /\ now \in Nat /\ lastEvaluationTime \in Nat /\ MinEvaluation \in Nat
        /\ EvaluationMove \in Nat
    BY <1>1, TimesAssumption, DistancesAssumption DEF Inv, TypeOK
  <2>6. /\ latestPosition \in Fixes
        /\ Moved(lastEvaluationPosition, latestPosition) < EvaluationMove
    BY <1>1, <2>1, <2>5 DEF Sampled
  <2>7. latestPosition \in Positions /\ lastEvaluationPosition \in Positions
    BY <2>1, <2>6, MonitoredAssumption
  <2>8. ASSUME NEW p \in DOMAIN lastList.pois,
               Within(latestPosition, lastList.pois[p], RaiseRadius - EvaluationMove + 1)
        PROVE  p \in DOMAIN tracker
    BY <2>3, <2>4, <2>5, <2>6, <2>7, <2>8, WithinDrift, RadiiAssumption
  <2>9. ASSUME NEW p \in DOMAIN tracker
        PROVE  Within(latestPosition, reported[p].at, ExitRadius + EvaluationMove - 1)
    BY <2>3, <2>4, <2>5, <2>6, <2>7, WithinDrift, RadiiAssumption
  <2>10. QED
    BY <2>8, <2>9
<1>2. Init => Sampled
  BY TimesAssumption DEF Init, Sampled, Epoch
<1>3. Spec /\ []Inv /\ []InHand => []Sampled
  BY <1>2, SampledStep, PTL DEF Spec
<1>4. QED
  BY <1>1, <1>3, MonitoredAlways, AlarmsHold, PTL
=============================================================================
