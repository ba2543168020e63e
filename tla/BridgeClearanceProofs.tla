----------------------- MODULE BridgeClearanceProofs -----------------------
(***************************************************************************)
(* That the clearance resolver, under the alarms and the route that ask    *)
(* it, takes no late answer and spares a failing upstream, for any bridges *)
(* and windows.  What does it is that of the attempts on one bridge at     *)
(* most one is still racing its timeout: it holds the bridge in flight, so *)
(* that it is the last that was started, and the cool-off of a failure,    *)
(* which runs from its start, is at least as long as it looks.  And that   *)
(* the alarms follow what they are told: the wire is the tracker, what is  *)
(* tracked was reported and is too low by the last clearance told of it,   *)
(* which the clearances the resolver holds are never behind.               *)
(***************************************************************************)
EXTENDS BridgeClearanceAlarms, TLAPS

ResolverTypes ==
    /\ detailed \subseteq Points /\ inFlight \subseteq Points
    /\ attempts \subseteq [bridge: Points, age: 0..RetryWindow, lost: BOOLEAN]
    /\ lastStart \in [Points -> 0..RetryWindow] /\ failed \in [Points -> 0..RetryWindow]
    /\ cache \in [Points -> [clearance: Clearances \cup {Unknown}, age: 0..Ttl, cached: BOOLEAN]]

\* One attempt of a bridge is racing at most; it is the last that was started.
OneRacing ==
    /\ \A a, b \in attempts : ~a.lost /\ ~b.lost /\ a.bridge = b.bridge => a = b
    /\ \A a \in attempts : ~a.lost => a.bridge \in inFlight /\ a.age <= lastStart[a.bridge]

\* A failure is remembered from the start of the last attempt, or a later one's.
CoolOffRuns ==
    \A p \in Points \ inFlight : ~cache[p].cached => failed[p] <= lastStart[p]

\* The inductive invariant.
ResolverInv == ResolverTypes /\ (~closed => OneRacing /\ CoolOffRuns) /\ ~overtaken

LEMMA Windows ==
    RetryWindow \in Nat \ {0} /\ Ttl \in Nat \ {0} /\ FetchTimeout \in Nat \ {0}
  BY ResolverAssumption DEF Resolver!ConstantsFit

-----------------------------------------------------------------------------
\* A pass, or the route, asks about some bridges.
LEMMA LookupKeeps ==
    ASSUME ResolverInv, NEW S, S \subseteq detailed, Resolver!Lookup(S), detailed' = detailed
    PROVE  ResolverInv'
<1> DEFINE started == {b \in S : Resolver!NeedsFetch(b)}
<1> DEFINE new == {[bridge |-> b, age |-> 0, lost |-> FALSE] : b \in started}
<1>1. /\ inFlight' = inFlight \cup started /\ attempts' = attempts \cup new
      /\ lastStart' = [b \in Points |-> IF b \in started THEN 0 ELSE lastStart[b]]
      /\ UNCHANGED <<cache, failed, closed, overtaken>>
  BY DEF Resolver!Lookup
<1>2. started \subseteq Points /\ \A b \in started : b \notin inFlight
  BY DEF ResolverInv, ResolverTypes, Resolver!NeedsFetch
<1>3. \A a \in new : a.bridge \in started /\ a.age = 0 /\ a.lost = FALSE
                     /\ a = [bridge |-> a.bridge, age |-> 0, lost |-> FALSE]
  OBVIOUS
<1>4. new \subseteq [bridge: Points, age: 0..RetryWindow, lost: BOOLEAN]
  <2>1. 0 \in 0..RetryWindow
    BY Windows
  <2>2. ASSUME NEW b \in started
        PROVE  [bridge |-> b, age |-> 0, lost |-> FALSE]
                 \in [bridge: Points, age: 0..RetryWindow, lost: BOOLEAN]
    BY <1>2, <2>1
  <2>3. QED
    BY <2>2
<1> HIDE DEF started, new
<1>5. ResolverTypes'
  BY <1>1, <1>2, <1>4, Windows DEF ResolverInv, ResolverTypes
<1>6. ASSUME ~closed PROVE OneRacing'
  <2>1. ASSUME NEW a \in attempts', NEW b \in attempts', ~a.lost, ~b.lost, a.bridge = b.bridge
        PROVE  a = b
    <3>1. CASE a \in attempts /\ b \in attempts
      BY <1>6, <2>1, <3>1 DEF ResolverInv, OneRacing
    <3>2. CASE a \in new /\ b \in new
      BY <1>3, <2>1, <3>2
    <3>3. CASE (a \in attempts /\ b \in new) \/ (a \in new /\ b \in attempts)
      BY <1>2, <1>3, <1>6, <2>1, <3>3 DEF ResolverInv, OneRacing
    <3>4. QED
      BY <1>1, <3>1, <3>2, <3>3
  <2>2. ASSUME NEW a \in attempts', ~a.lost
        PROVE  a.bridge \in inFlight' /\ a.age <= lastStart'[a.bridge]
    <3>1. CASE a \in attempts
      BY <1>1, <1>2, <1>6, <2>2, <3>1 DEF ResolverInv, ResolverTypes, OneRacing
    <3>2. CASE a \in new
      BY <1>1, <1>2, <1>3, <3>2
    <3>3. QED
      BY <1>1, <3>1, <3>2
  <2>3. QED
    BY <2>1, <2>2 DEF OneRacing
<1>7. ASSUME ~closed PROVE CoolOffRuns'
  BY <1>1, <1>7 DEF ResolverInv, CoolOffRuns
<1>8. QED
  BY <1>1, <1>5, <1>6, <1>7 DEF ResolverInv

\* An attempt that is racing takes its bridge out of flight when it is over.
LEMMA EndsKeeps ==
    ASSUME ResolverInv, ~closed, NEW a \in attempts, ~a.lost,
           attempts' = attempts \ {a} \/ attempts' = (attempts \ {a}) \cup {[a EXCEPT !.lost = TRUE]},
           inFlight' = inFlight \ {a.bridge},
           \/ failed' = [failed EXCEPT ![a.bridge] = a.age] /\ cache' = cache
           \/ /\ failed' = [failed EXCEPT ![a.bridge] = RetryWindow]
              /\ \E c \in Clearances \cup {Unknown} :
                    cache' = [cache EXCEPT ![a.bridge] =
                                [clearance |-> c, age |-> 0, cached |-> TRUE]],
           UNCHANGED <<detailed, closed, lastStart>>, ~overtaken'
    PROVE  ResolverInv'
<1>1. a \in [bridge: Points, age: 0..RetryWindow, lost: BOOLEAN]
  BY DEF ResolverInv, ResolverTypes
<1>2. [a EXCEPT !.lost = TRUE] \in [bridge: Points, age: 0..RetryWindow, lost: BOOLEAN]
      /\ [a EXCEPT !.lost = TRUE].lost = TRUE
  BY <1>1
<1>3. \A b \in attempts' : ~b.lost => b \in attempts /\ b # a
  BY <1>2
<1>4. ResolverTypes'
  <2>1. attempts' \subseteq [bridge: Points, age: 0..RetryWindow, lost: BOOLEAN]
    BY <1>2 DEF ResolverInv, ResolverTypes
  <2>2. failed' \in [Points -> 0..RetryWindow]
    BY <1>1, Windows DEF ResolverInv, ResolverTypes
  <2>3. cache' \in [Points -> [clearance: Clearances \cup {Unknown}, age: 0..Ttl, cached: BOOLEAN]]
    <3>1. 0 \in 0..Ttl
      BY Windows
    <3>2. cache \in [Points -> [clearance: Clearances \cup {Unknown}, age: 0..Ttl, cached: BOOLEAN]]
      BY DEF ResolverInv, ResolverTypes
    <3>3. ASSUME NEW c \in Clearances \cup {Unknown}
          PROVE  [clearance |-> c, age |-> 0, cached |-> TRUE]
                   \in [clearance: Clearances \cup {Unknown}, age: 0..Ttl, cached: BOOLEAN]
      BY <3>1
    <3>4. CASE cache' = cache
      BY <3>2, <3>4
    <3>5. ASSUME NEW c \in Clearances \cup {Unknown},
                 cache' = [cache EXCEPT ![a.bridge] =
                             [clearance |-> c, age |-> 0, cached |-> TRUE]]
          PROVE  cache' \in [Points -> [clearance: Clearances \cup {Unknown}, age: 0..Ttl,
                                        cached: BOOLEAN]]
      <4> DEFINE entry == [clearance |-> c, age |-> 0, cached |-> TRUE]
      <4>1. entry \in [clearance: Clearances \cup {Unknown}, age: 0..Ttl, cached: BOOLEAN]
        BY <3>3
      <4>2. cache' = [cache EXCEPT ![a.bridge] = entry]
        BY <3>5
      <4> HIDE DEF entry
      <4>3. QED
        BY <3>2, <4>1, <4>2
    <3>6. QED
      BY <3>4, <3>5
  <2>4. QED
    BY <2>1, <2>2, <2>3 DEF ResolverInv, ResolverTypes
<1>5. OneRacing'
  BY <1>3 DEF ResolverInv, OneRacing
<1>6. CoolOffRuns'
  <2>1. a.age <= lastStart[a.bridge]
    BY DEF ResolverInv, OneRacing
  <2>2. ASSUME NEW p \in Points \ inFlight', ~cache'[p].cached PROVE failed'[p] <= lastStart'[p]
    <3>1. CASE p = a.bridge
      BY <1>1, <2>1, <2>2, <3>1 DEF ResolverInv, ResolverTypes
    <3>2. CASE p # a.bridge
      BY <1>1, <2>2, <3>2 DEF ResolverInv, ResolverTypes, CoolOffRuns
    <3>3. QED
      BY <3>1, <3>2
  <2>3. QED
    BY <2>2 DEF CoolOffRuns
<1>7. QED
  BY <1>4, <1>5, <1>6 DEF ResolverInv

LEMMA SettleKeeps ==
    ASSUME ResolverInv, Resolver!Settle, detailed' = detailed
    PROVE  ResolverInv'
<1>1. PICK a \in attempts :
         \/ Resolver!Rejects(a) \/ Resolver!TimesOut(a)
         \/ \E c \in Clearances \cup {Unknown} : Resolver!Resolves(a, c)
  BY DEF Resolver!Settle
<1>2. a \in [bridge: Points, age: 0..RetryWindow, lost: BOOLEAN]
  BY DEF ResolverInv, ResolverTypes
<1>3. closed' = closed /\ lastStart' = lastStart
  BY <1>1 DEF Resolver!Rejects, Resolver!TimesOut, Resolver!Resolves, Resolver!FailedSince
<1>4. CASE ~closed /\ ~a.lost
  <2>1. a.age <= lastStart[a.bridge]
    BY <1>4 DEF ResolverInv, OneRacing
  <2>2. ~(a.age > lastStart[a.bridge])
    BY <1>2, <2>1 DEF ResolverInv, ResolverTypes
  <2>3. CASE Resolver!Rejects(a)
    BY <1>3, <1>4, <2>3, EndsKeeps DEF Resolver!Rejects, Resolver!FailedSince, ResolverInv
  <2>4. CASE Resolver!TimesOut(a)
    BY <1>3, <1>4, <2>4, EndsKeeps DEF Resolver!TimesOut, Resolver!FailedSince, ResolverInv
  <2>5. ASSUME NEW c \in Clearances \cup {Unknown}, Resolver!Resolves(a, c) PROVE ResolverInv'
    <3>1. ~overtaken'
      BY <1>4, <2>2, <2>5 DEF Resolver!Resolves, ResolverInv
    <3>2. QED
      BY <1>3, <1>4, <2>5, <3>1, EndsKeeps DEF Resolver!Resolves
  <2>6. QED
    BY <1>1, <2>3, <2>4, <2>5
<1>5. CASE closed \/ a.lost
  <2>1. attempts' = attempts \ {a} /\ cache' = cache /\ overtaken' = overtaken
    BY <1>1, <1>5 DEF Resolver!Rejects, Resolver!TimesOut, Resolver!Resolves, Resolver!FailedSince
  <2>2. /\ inFlight' \subseteq inFlight /\ failed' \in [Points -> 0..RetryWindow]
    BY <1>1, <1>2, <1>5 DEF Resolver!Rejects, Resolver!TimesOut, Resolver!Resolves,
                            Resolver!FailedSince, ResolverInv, ResolverTypes
  <2>3. ResolverTypes'
    BY <1>3, <2>1, <2>2 DEF ResolverInv, ResolverTypes
  <2>4. ~closed => inFlight' = inFlight /\ failed' = failed
    BY <1>1, <1>5 DEF Resolver!Rejects, Resolver!TimesOut, Resolver!Resolves
  <2>5. ~closed => OneRacing' /\ CoolOffRuns'
    BY <1>3, <2>1, <2>4 DEF ResolverInv, OneRacing, CoolOffRuns
  <2>6. QED
    BY <1>3, <2>1, <2>3, <2>5 DEF ResolverInv
<1>6. QED
  BY <1>4, <1>5

LEMMA AgeKeeps ==
    ASSUME ResolverInv, Resolver!Age, detailed' = detailed
    PROVE  ResolverInv'
<1> DEFINE Aged(a) == [a EXCEPT !.age = Resolver!Older(@, RetryWindow)]
<1>1. /\ attempts' = {Aged(a) : a \in attempts}
      /\ lastStart' = [b \in Points |-> Resolver!Older(lastStart[b], RetryWindow)]
      /\ failed' = [b \in Points |-> Resolver!Older(failed[b], RetryWindow)]
      /\ cache' = [b \in Points |-> [cache[b] EXCEPT !.age = Resolver!Older(@, Ttl)]]
      /\ UNCHANGED <<inFlight, closed, overtaken>>
  BY DEF Resolver!Age
<1>2. \A n \in 0..RetryWindow : Resolver!Older(n, RetryWindow) \in 0..RetryWindow
  BY Windows DEF Resolver!Older
<1>3. \A m, n \in 0..RetryWindow :
         m <= n => Resolver!Older(m, RetryWindow) <= Resolver!Older(n, RetryWindow)
  BY Windows DEF Resolver!Older
<1>4. \A n \in 0..Ttl : Resolver!Older(n, Ttl) \in 0..Ttl
  BY Windows DEF Resolver!Older
<1>5. \A a \in attempts :
         /\ Aged(a) \in [bridge: Points, age: 0..RetryWindow, lost: BOOLEAN]
         /\ Aged(a).bridge = a.bridge /\ Aged(a).lost = a.lost
         /\ Aged(a).age = Resolver!Older(a.age, RetryWindow)
  BY <1>2 DEF ResolverInv, ResolverTypes
<1> HIDE DEF Aged
<1>6. ResolverTypes'
  <2>1. attempts' \subseteq [bridge: Points, age: 0..RetryWindow, lost: BOOLEAN]
    BY <1>1, <1>5
  <2>2. lastStart' \in [Points -> 0..RetryWindow] /\ failed' \in [Points -> 0..RetryWindow]
    BY <1>1, <1>2 DEF ResolverInv, ResolverTypes
  <2>3. cache' \in [Points -> [clearance: Clearances \cup {Unknown}, age: 0..Ttl, cached: BOOLEAN]]
    BY <1>1, <1>4 DEF ResolverInv, ResolverTypes
  <2>4. QED
    BY <1>1, <2>1, <2>2, <2>3 DEF ResolverInv, ResolverTypes
<1>7. ASSUME ~closed PROVE OneRacing'
  <2>1. ASSUME NEW a \in attempts', NEW b \in attempts', ~a.lost, ~b.lost, a.bridge = b.bridge
        PROVE  a = b
    BY <1>1, <1>5, <1>7, <2>1 DEF ResolverInv, OneRacing
  <2>2. ASSUME NEW a \in attempts, ~a.lost
        PROVE  a.bridge \in inFlight /\ Aged(a).age <= lastStart'[a.bridge]
    <3>1. a.bridge \in inFlight /\ a.age <= lastStart[a.bridge]
      BY <1>7, <2>2 DEF ResolverInv, OneRacing
    <3>2. a.bridge \in Points /\ a.age \in 0..RetryWindow /\ lastStart[a.bridge] \in 0..RetryWindow
      BY DEF ResolverInv, ResolverTypes
    <3>3. QED
      BY <1>1, <1>3, <1>5, <3>1, <3>2
  <2>3. QED
    BY <1>1, <1>5, <2>1, <2>2 DEF OneRacing
<1>8. ASSUME ~closed PROVE CoolOffRuns'
  <2>1. ASSUME NEW p \in Points \ inFlight, ~cache'[p].cached PROVE failed'[p] <= lastStart'[p]
    <3>1. ~cache[p].cached
      BY <1>1, <2>1 DEF ResolverInv, ResolverTypes
    <3>2. failed[p] <= lastStart[p] /\ failed[p] \in 0..RetryWindow /\ lastStart[p] \in 0..RetryWindow
      BY <1>8, <3>1 DEF ResolverInv, ResolverTypes, CoolOffRuns
    <3>3. QED
      BY <1>1, <1>3, <3>2
  <2>2. QED
    BY <1>1, <2>1 DEF CoolOffRuns
<1>9. QED
  BY <1>1, <1>6, <1>7, <1>8 DEF ResolverInv

LEMMA CloseKeeps ==
    ASSUME ResolverInv, Resolver!Close, detailed' = detailed
    PROVE  ResolverInv'
  BY Windows DEF ResolverInv, ResolverTypes, Resolver!Close, Resolver!NotCached

\* A pass asks about bridges of which only a detail tells.
LEMMA PassAsks ==
    ASSUME NEW position, NEW pois, NEW fetchedAt, Evaluate(position, pois, fetchedAt)
    PROVE  UNCHANGED resolverVars \/ \E S : S \subseteq detailed /\ Resolver!Lookup(S)
<1>1. \A scanned : Asked(position, scanned, fetchedAt) \subseteq detailed
  BY DEF Asked
<1>2. QED
  BY <1>1 DEF Evaluate

\* What a step does to the resolver.
LEMMA ResolverStep ==
    ASSUME ResolverInv, [Next]_vars
    PROVE  /\ detailed' = detailed
           /\ \/ UNCHANGED resolverVars
              \/ \E S : S \subseteq detailed /\ Resolver!Lookup(S)
              \/ Resolver!Settle \/ Resolver!Close \/ Resolver!Age
<1>1. CASE \E position \in Positions, listed \in SUBSET Points :
              \E pois \in ReportsOf(listed) : ListLands(position, pois)
  BY <1>1, PassAsks DEF ListLands
<1>2. CASE \E position \in Positions : Replay(position)
  BY <1>2, PassAsks DEF Replay
<1>3. CASE Settle
  BY <1>3 DEF Settle, callerVars
<1>4. CASE RouteAsks
  BY <1>4 DEF RouteAsks, callerVars
<1>5. CASE AirDraftChanges \/ Stop \/ Tick \/ UNCHANGED vars
  BY <1>5 DEF AirDraftChanges, Stop, Tick, callerVars, vars
<1>6. QED
  BY <1>1, <1>2, <1>3, <1>4, <1>5 DEF Next

LEMMA ResolverInvStep ==
    ASSUME ResolverInv, [Next]_vars
    PROVE  ResolverInv'
<1>1. CASE UNCHANGED resolverVars
  BY <1>1, ResolverStep DEF resolverVars, ResolverInv, ResolverTypes, OneRacing, CoolOffRuns
<1>2. QED
  BY <1>1, ResolverStep, LookupKeeps, SettleKeeps, CloseKeeps, AgeKeeps

LEMMA ResolverInvInit ==
    ASSUME Init
    PROVE  ResolverInv
  BY Windows DEF Init, Resolver!Init, Resolver!NotCached, ResolverInv, ResolverTypes, OneRacing,
                 CoolOffRuns

\* A detail that was given up, answering after a later attempt, overwrites nothing
\* (bridge-clearance-resolver.ts: startFetch), whatever is asked and however slowly it
\* is answered.
THEOREM LateDetailsAreDropped == Spec => []NoLateOverwrite
<1>1. ResolverInv => NoLateOverwrite
  BY DEF ResolverInv, NoLateOverwrite, Resolver!NoLateOverwrite
<1>2. QED
  BY <1>1, ResolverInvInit, ResolverInvStep, PTL DEF Spec

\* A bridge that cannot be resolved costs one attempt per window, at any rate of fixes
\* (bridge-clearance-resolver.ts: clearanceMeters).
THEOREM AttemptsAreSpaced == Spec => RetriesSpaced
<1> DEFINE Spaced == \A b \in Points :
          lastStart'[b] = 0 /\ b \in inFlight' \ inFlight /\ ~cache[b].cached =>
             lastStart[b] = RetryWindow
<1>1. ASSUME ResolverInv, [Next]_vars PROVE Spaced
  <2>1. CASE UNCHANGED resolverVars
    BY <2>1 DEF resolverVars
  <2>2. ASSUME NEW S, S \subseteq detailed, Resolver!Lookup(S) PROVE Spaced
    <3>1. ASSUME NEW b \in Points, b \in inFlight' \ inFlight, ~cache[b].cached
          PROVE  lastStart[b] = RetryWindow
      <4>1. Resolver!NeedsFetch(b)
        BY <2>2, <3>1 DEF Resolver!Lookup
      <4>2. ~closed /\ ~(failed[b] < RetryWindow)
        BY <4>1 DEF Resolver!NeedsFetch, Resolver!CoolingOff
      <4>3. failed[b] <= lastStart[b] /\ failed[b] \in 0..RetryWindow /\ lastStart[b] \in 0..RetryWindow
        BY <1>1, <3>1, <4>2 DEF ResolverInv, ResolverTypes, CoolOffRuns
      <4>4. QED
        BY <4>2, <4>3, Windows
    <3>2. QED
      BY <3>1
  <2>3. CASE Resolver!Settle \/ Resolver!Close \/ Resolver!Age
    <3>1. inFlight' \subseteq inFlight
      BY <2>3 DEF Resolver!Settle, Resolver!Close, Resolver!Age, Resolver!Rejects,
                  Resolver!TimesOut, Resolver!Resolves, Resolver!FailedSince
    <3>2. QED
      BY <3>1
  <2>4. QED
    BY <1>1, <2>1, <2>2, <2>3, ResolverStep
<1>2. QED
  BY <1>1, ResolverInvInit, ResolverInvStep, PTL
     DEF Spec, RetriesSpaced, Resolver!RetriesSpaced

-----------------------------------------------------------------------------
(***************************************************************************)
(* The alarms.  Why an alarm clears is found in what the pass saw: the     *)
(* report the tracker or the list carries is the last one there was        *)
(* (TrackedAsReported, ListIsReported), and what the resolver answers,     *)
(* whatever it has out, is what the upstream told last (CacheIsTold).      *)
(***************************************************************************)

BridgeEntries == [at: Reports, lastListedAt: Nat, unconfirmed: BOOLEAN, raisedAt: Nat]

AlarmTypes ==
    /\ now \in Nat /\ vessel \in Positions
    /\ DOMAIN tracker \subseteq Points /\ \A p \in DOMAIN tracker : tracker[p] \in BridgeEntries
    /\ DOMAIN list.pois \subseteq Points /\ list.pois \in [DOMAIN list.pois -> Reports]
    /\ list.fetchedAt \in Nat
    /\ reported \in [Points -> [place: Places, clearance: Clearances \cup {Unknown}, landedAt: Nat]]

\* The server shows an alarm for exactly the active bridges.
WireIsTracker == \A p \in Points : wire[p].state = "alarm" <=> p \in DOMAIN tracker

ReportOf(p) == [place |-> reported[p].place, clearance |-> reported[p].clearance]

\* An active alarm carries the last report of its bridge, and when that landed.
TrackedAsReported ==
    \A p \in DOMAIN tracker :
        tracker[p].at = ReportOf(p) /\ tracker[p].lastListedAt = reported[p].landedAt

\* The list in hand is the last report of the bridges it names.
ListIsReported ==
    \A p \in DOMAIN list.pois :
        list.pois[p] = ReportOf(p) /\ list.fetchedAt = reported[p].landedAt

\* Until the stop the resolver knows what the last detail told.
CacheIsTold ==
    /\ stopped = closed
    /\ ~stopped => \A p \in Points : /\ cache[p].clearance = told[p]
                                     /\ cache[p].cached \/ told[p] = Unknown

\* The inductive invariant.
AlarmInv ==
    /\ AlarmTypes /\ ResolverInv
    /\ WireIsTracker /\ TrackedAsReported /\ ListIsReported /\ CacheIsTold

\* Completing a list adds active alarms whose window runs, and moves none of its points.
LEMMA CompletedAdds ==
    ASSUME NEW t, NEW pois, NEW fetchedAt
    PROVE  LET scanned == Completed(t, pois, fetchedAt)
           IN  /\ DOMAIN pois \subseteq DOMAIN scanned
               /\ DOMAIN scanned \subseteq DOMAIN pois \cup DOMAIN t
               /\ \A p \in DOMAIN pois : scanned[p] = pois[p]
               /\ \A p \in DOMAIN scanned \ DOMAIN pois :
                     p \in DOMAIN t /\ scanned[p] = t[p].at /\ ~Expired(t[p], fetchedAt)
               /\ \A p \in DOMAIN t : p \in DOMAIN scanned \/ Expired(t[p], fetchedAt)
  BY DEF Completed, Held

LEMMA ReconfirmedShape ==
    ASSUME NEW entry \in BridgeEntries, NEW p, NEW pois, NEW fetchedAt \in Nat,
           p \in DOMAIN pois => pois[p] \in Reports
    PROVE  /\ Reconfirmed(entry, p, pois, fetchedAt) \in BridgeEntries
           /\ p \in DOMAIN pois =>
                 /\ Reconfirmed(entry, p, pois, fetchedAt).at = pois[p]
                 /\ Reconfirmed(entry, p, pois, fetchedAt).lastListedAt = fetchedAt
           /\ p \notin DOMAIN pois /\ ~Expired(entry, fetchedAt) =>
                 Reconfirmed(entry, p, pois, fetchedAt) = entry
<1>1. CASE p \in DOMAIN pois
  <2>1. Reconfirmed(entry, p, pois, fetchedAt)
          = [entry EXCEPT !.at = pois[p], !.lastListedAt = fetchedAt]
    BY <1>1 DEF Reconfirmed
  <2>2. QED
    BY <1>1, <2>1 DEF BridgeEntries
<1>2. CASE p \notin DOMAIN pois
  BY <1>2 DEF Reconfirmed, BridgeEntries
<1>3. QED
  BY <1>1, <1>2

\* A pass, its list and the time of it being those in hand.
LEMMA PassTracks ==
    ASSUME AlarmTypes, NEW position \in Positions, NEW pois, DOMAIN pois \subseteq Points,
           \A p \in DOMAIN pois : pois[p] \in Reports, NEW fetchedAt \in Nat,
           Evaluate(position, pois, fetchedAt)
    PROVE  /\ DOMAIN tracker' \subseteq Points
           /\ DOMAIN tracker' =
                 IF airDraft = NoDraft THEN {}
                 ELSE InAlarm(position, Completed(tracker, pois, fetchedAt))
           /\ \A p \in DOMAIN tracker' :
                 /\ tracker'[p] \in BridgeEntries
                 /\ \/ /\ p \in DOMAIN pois
                       /\ tracker'[p].at = pois[p] /\ tracker'[p].lastListedAt = fetchedAt
                    \/ p \in DOMAIN tracker \ DOMAIN pois /\ tracker'[p] = tracker[p]
<1> DEFINE confirmed == Reconfirm(tracker, pois, fetchedAt)
           scanned == Completed(tracker, pois, fetchedAt)
           inAlarm == InAlarm(position, scanned)
<1>1. CASE airDraft = NoDraft
  BY <1>1 DEF Evaluate, NoAlarms
<1>2. CASE airDraft # NoDraft
  <2>1. tracker' = NextTracker(confirmed, scanned, inAlarm, fetchedAt, now)
    BY <1>2 DEF Evaluate
  <2>2. inAlarm \subseteq DOMAIN scanned
    BY DEF InAlarm
  <2>3. DOMAIN tracker' = inAlarm /\ DOMAIN confirmed = DOMAIN tracker
    BY <2>1 DEF NextTracker, Reconfirm
  <2>4. ASSUME NEW p \in inAlarm
        PROVE  /\ tracker'[p] \in BridgeEntries
               /\ \/ /\ p \in DOMAIN pois
                     /\ tracker'[p].at = pois[p] /\ tracker'[p].lastListedAt = fetchedAt
                  \/ p \in DOMAIN tracker \ DOMAIN pois /\ tracker'[p] = tracker[p]
    <3>1. /\ p \in DOMAIN pois => scanned[p] = pois[p]
          /\ p \notin DOMAIN pois => p \in DOMAIN tracker /\ ~Expired(tracker[p], fetchedAt)
      BY <2>2, CompletedAdds
    <3>2. CASE p \in DOMAIN tracker
      <4>1. tracker'[p] = Reconfirmed(tracker[p], p, pois, fetchedAt)
        BY <2>1, <2>3, <3>2 DEF NextTracker, Reconfirm
      <4>2. tracker[p] \in BridgeEntries
        BY <3>2 DEF AlarmTypes
      <4>3. QED
        BY <3>1, <3>2, <4>1, <4>2, ReconfirmedShape
    <3>3. CASE p \notin DOMAIN tracker
      <4>1. tracker'[p] = Raised(pois[p], fetchedAt, now) /\ p \in DOMAIN pois
        BY <2>1, <2>3, <3>1, <3>3 DEF NextTracker
      <4>2. pois[p] \in Reports /\ now \in Nat
        BY <4>1 DEF AlarmTypes
      <4>3. QED
        BY <4>1, <4>2 DEF Raised, BridgeEntries
    <3>4. QED
      BY <3>2, <3>3
  <2>5. DOMAIN scanned \subseteq Points
    BY CompletedAdds DEF AlarmTypes
  <2>6. QED
    BY <1>2, <2>2, <2>3, <2>4, <2>5
<1>3. QED
  BY <1>1, <1>2

\* What a pass raises and clears on the wire is what it adds to and drops from the tracker.
LEMMA PassShows ==
    ASSUME WireIsTracker, NEW position, NEW pois, NEW fetchedAt,
           Evaluate(position, pois, fetchedAt)
    PROVE  WireIsTracker'
<1> DEFINE confirmed == Reconfirm(tracker, pois, fetchedAt)
           inAlarm == InAlarm(position, Completed(tracker, pois, fetchedAt))
<1>1. DOMAIN confirmed = DOMAIN tracker
  BY DEF Reconfirm
<1>2. CASE airDraft = NoDraft
  <2>1. DOMAIN tracker' = {} /\ wire' = NextWire(wire, tracker, {}, 0)
    BY <1>2 DEF Evaluate, NoAlarms, ClearedWire
  <2>2. QED
    BY <2>1 DEF NextWire, ClearNotice, WireIsTracker
<1>3. CASE airDraft # NoDraft
  <2>1. DOMAIN tracker' = inAlarm /\ wire' = NextWire(wire, confirmed, inAlarm, now)
    BY <1>3 DEF Evaluate, NextTracker
  <2> HIDE DEF confirmed, inAlarm
  <2>2. QED
    BY <1>1, <2>1 DEF NextWire, AlarmNotice, ClearNotice, WireIsTracker
<1>4. QED
  BY <1>2, <1>3

\* A pass asks; it learns nothing.
LEMMA PassLearnsNothing ==
    ASSUME NEW position, NEW pois, NEW fetchedAt, Evaluate(position, pois, fetchedAt)
    PROVE  UNCHANGED <<cache, closed>>
  BY DEF Evaluate, resolverVars, Resolver!Lookup

\* What a report a pass judges has of clearance is what was told last.
LEMMA ClearanceIsLast ==
    ASSUME CacheIsTold, ~stopped, NEW p \in Points
    PROVE  ClearanceOf(p, ReportOf(p)) = LastTold(p)
  BY DEF CacheIsTold, ClearanceOf, LastTold, ReportOf, Resolver!Clearance

LEMMA LandKeeps ==
    ASSUME AlarmInv, ResolverInv', NEW position \in Positions, NEW listed \in SUBSET Points,
           NEW pois \in ReportsOf(listed), ListLands(position, pois)
    PROVE  AlarmInv'
<1> USE DEF AlarmInv
<1>1. /\ Evaluate(position, pois, now) /\ now \in Nat
      /\ list' = [pois |-> pois, fetchedAt |-> now] /\ vessel' = position
      /\ UNCHANGED <<stopped, now, detailed, told>>
  BY DEF ListLands, AlarmTypes
<1>2. DOMAIN pois = listed /\ \A p \in listed : pois[p] \in Reports
  BY DEF ReportsOf
<1>4. \A p \in Points : reported'[p] =
         IF p \in listed
           THEN [place |-> pois[p].place, clearance |-> pois[p].clearance, landedAt |-> now]
           ELSE reported[p]
  BY <1>2 DEF ListLands
<1>5. \A p \in Points : /\ p \in listed => ReportOf(p)' = pois[p] /\ reported'[p].landedAt = now
                        /\ p \notin listed => ReportOf(p)' = ReportOf(p) /\ reported'[p] = reported[p]
  <2>1. \A p \in Points : ReportOf(p)' = [place |-> reported'[p].place,
                                          clearance |-> reported'[p].clearance]
    BY DEF ReportOf
  <2>2. \A p \in listed : pois[p] = [place |-> pois[p].place, clearance |-> pois[p].clearance]
    BY <1>2 DEF Reports
  <2>3. ASSUME NEW p \in Points, p \in listed
        PROVE  ReportOf(p)' = pois[p] /\ reported'[p].landedAt = now
    <3>1. reported'[p] = [place |-> pois[p].place, clearance |-> pois[p].clearance, landedAt |-> now]
      BY <1>4, <2>3
    <3>2. QED
      BY <2>1, <2>2, <2>3, <3>1
  <2>4. ASSUME NEW p \in Points, p \notin listed
        PROVE  ReportOf(p)' = ReportOf(p) /\ reported'[p] = reported[p]
    <3>1. reported'[p] = reported[p]
      BY <1>4, <2>4
    <3>2. QED
      BY <2>1, <3>1 DEF ReportOf
  <2>5. QED
    BY <2>3, <2>4
<1>6. reported' \in [Points -> [place: Places, clearance: Clearances \cup {Unknown}, landedAt: Nat]]
  <2>1. \A p \in Points :
          reported'[p] \in [place: Places, clearance: Clearances \cup {Unknown}, landedAt: Nat]
    <3>1. ASSUME NEW p \in listed
          PROVE  pois[p].place \in Places /\ pois[p].clearance \in Clearances \cup {Unknown}
      BY <1>2 DEF Reports
    <3>2. ASSUME NEW p \in Points, p \in listed
          PROVE  reported'[p] \in [place: Places, clearance: Clearances \cup {Unknown}, landedAt: Nat]
      <4>1. reported'[p] = [place |-> pois[p].place, clearance |-> pois[p].clearance, landedAt |-> now]
        BY <1>4, <3>2
      <4>2. QED
        BY <1>1, <3>1, <3>2, <4>1
    <3>3. ASSUME NEW p \in Points, p \notin listed
          PROVE  reported'[p] \in [place: Places, clearance: Clearances \cup {Unknown}, landedAt: Nat]
      BY <1>4, <3>3 DEF AlarmTypes
    <3>4. QED
      BY <3>2, <3>3
  <2>2. \E f : reported' = [p \in Points |-> f[p]]
    <3>1. reported' = [p \in Points |-> reported'[p]]
      BY DEF ListLands
    <3>2. QED
      BY <3>1
  <2>3. QED
    BY <2>1, <2>2
<1>7. /\ DOMAIN tracker' \subseteq Points
      /\ \A p \in DOMAIN tracker' :
            /\ tracker'[p] \in BridgeEntries
            /\ \/ /\ p \in DOMAIN pois
                  /\ tracker'[p].at = pois[p] /\ tracker'[p].lastListedAt = now
               \/ p \in DOMAIN tracker \ DOMAIN pois /\ tracker'[p] = tracker[p]
  BY <1>1, <1>2, PassTracks
<1>8. AlarmTypes'
  <2>1. pois \in [listed -> Reports]
    BY DEF ReportsOf
  <2>2. QED
    BY <1>1, <1>2, <1>6, <1>7, <2>1 DEF AlarmTypes
<1>9. TrackedAsReported'
  BY <1>2, <1>5, <1>7 DEF TrackedAsReported
<1>10. ListIsReported'
  BY <1>1, <1>2, <1>5 DEF ListIsReported
<1>12. CacheIsTold'
  BY <1>1, PassLearnsNothing DEF CacheIsTold
<1>13. QED
  BY <1>1, <1>8, <1>9, <1>10, <1>12, PassShows

LEMMA ReplayKeeps ==
    ASSUME AlarmInv, ResolverInv', NEW position \in Positions, Replay(position)
    PROVE  AlarmInv'
<1> USE DEF AlarmInv
<1>1. /\ Evaluate(position, list.pois, list.fetchedAt) /\ vessel' = position
      /\ UNCHANGED <<stopped, list, now, detailed, reported, told>>
  BY DEF Replay
<1>2. /\ DOMAIN list.pois \subseteq Points /\ list.fetchedAt \in Nat
      /\ \A p \in DOMAIN list.pois : list.pois[p] \in Reports
  BY DEF AlarmTypes
<1>3. /\ DOMAIN tracker' \subseteq Points
      /\ \A p \in DOMAIN tracker' :
            /\ tracker'[p] \in BridgeEntries
            /\ \/ /\ p \in DOMAIN list.pois
                  /\ tracker'[p].at = list.pois[p] /\ tracker'[p].lastListedAt = list.fetchedAt
               \/ p \in DOMAIN tracker \ DOMAIN list.pois /\ tracker'[p] = tracker[p]
  BY <1>1, <1>2, PassTracks
<1>4. AlarmTypes'
  BY <1>1, <1>3 DEF AlarmTypes
<1>5. \A p \in Points : ReportOf(p)' = ReportOf(p)
  BY <1>1 DEF ReportOf
<1>6. TrackedAsReported'
  BY <1>1, <1>3, <1>5 DEF TrackedAsReported, ListIsReported
<1>7. ListIsReported'
  BY <1>1, <1>2, <1>5 DEF ListIsReported
<1>8. CacheIsTold'
  BY <1>1, PassLearnsNothing DEF CacheIsTold
<1>9. QED
  BY <1>1, <1>4, <1>6, <1>7, <1>8, PassShows

LEMMA SettleTells ==
    ASSUME AlarmInv, ResolverInv', Settle
    PROVE  AlarmInv'
<1> USE DEF AlarmInv
<1>1. UNCHANGED <<tracker, wire, stopped, list, vessel, now, detailed, reported>>
      /\ Resolver!Settle /\ Tells
  BY DEF Settle, alarmVars, callerVars
<1>2. PICK a \in attempts :
         \/ Resolver!Rejects(a) \/ Resolver!TimesOut(a)
         \/ \E c \in Clearances \cup {Unknown} : Resolver!Resolves(a, c)
  BY <1>1 DEF Resolver!Settle
<1>3. closed' = closed
  BY <1>2 DEF Resolver!Rejects, Resolver!TimesOut, Resolver!Resolves, Resolver!FailedSince
<1>4. \A p \in Points : told'[p] = IF cache'[p].cached THEN cache'[p].clearance ELSE told[p]
  BY <1>1 DEF Tells
<1>5. \A p \in Points : cache'[p] = cache[p] \/ cache'[p].cached
  <2>1. cache \in [Points -> [clearance: Clearances \cup {Unknown}, age: 0..Ttl, cached: BOOLEAN]]
    BY DEF ResolverInv, ResolverTypes
  <2>2. CASE Resolver!Rejects(a) \/ Resolver!TimesOut(a)
    BY <2>2 DEF Resolver!Rejects, Resolver!TimesOut, Resolver!FailedSince
  <2>3. ASSUME NEW c \in Clearances \cup {Unknown}, Resolver!Resolves(a, c)
        PROVE  \A p \in Points : cache'[p] = cache[p] \/ cache'[p].cached
    <3> DEFINE entry == [clearance |-> c, age |-> 0, cached |-> TRUE]
    <3>1. entry.cached
      OBVIOUS
    <3>2. cache' = cache \/ cache' = [cache EXCEPT ![a.bridge] = entry]
      BY <2>3 DEF Resolver!Resolves
    <3> HIDE DEF entry
    <3>3. QED
      BY <2>1, <3>1, <3>2
  <2>4. QED
    BY <1>2, <2>2, <2>3
<1>6. CacheIsTold'
  <2>1. ASSUME NEW p \in Points, ~stopped
        PROVE  cache'[p].clearance = told'[p] /\ (cache'[p].cached \/ told'[p] = Unknown)
    <3>1. CASE cache'[p].cached
      BY <1>4, <3>1
    <3>2. CASE ~cache'[p].cached
      BY <1>4, <1>5, <2>1, <3>2 DEF CacheIsTold
    <3>3. QED
      BY <3>1, <3>2
  <2>2. QED
    BY <1>1, <1>3, <2>1 DEF CacheIsTold
<1>7. /\ AlarmTypes' /\ WireIsTracker' /\ TrackedAsReported' /\ ListIsReported'
  BY <1>1 DEF AlarmTypes, WireIsTracker, TrackedAsReported, ListIsReported, ReportOf
<1>8. QED
  BY <1>6, <1>7

LEMMA StopKeeps ==
    ASSUME AlarmInv, ResolverInv', Stop
    PROVE  AlarmInv'
<1> USE DEF AlarmInv
<1>1. /\ stopped' = TRUE /\ closed' = TRUE /\ DOMAIN tracker' = {}
      /\ wire' = NextWire(wire, tracker, {}, 0)
      /\ UNCHANGED <<list, vessel, now, detailed, reported, told>>
  BY DEF Stop, NoAlarms, ClearedWire, callerVars, Resolver!Close
<1>2. WireIsTracker'
  BY <1>1 DEF WireIsTracker, NextWire, ClearNotice
<1>3. AlarmTypes' /\ TrackedAsReported' /\ ListIsReported' /\ CacheIsTold'
  BY <1>1 DEF AlarmTypes, TrackedAsReported, ListIsReported, ReportOf, CacheIsTold
<1>4. QED
  BY <1>2, <1>3

LEMMA TickKeeps ==
    ASSUME AlarmInv, ResolverInv', Tick
    PROVE  AlarmInv'
<1> USE DEF AlarmInv
<1>1. /\ UNCHANGED <<tracker, wire, stopped, list, vessel, detailed, reported, told, closed>>
      /\ now' \in Nat
      /\ cache' = [b \in Points |-> [cache[b] EXCEPT !.age = Resolver!Older(@, Ttl)]]
  BY TimeAssumption DEF Tick, alarmVars, Resolver!Age, AlarmTypes
<1>2. \A p \in Points : cache[p] \in [clearance: Clearances \cup {Unknown}, age: 0..Ttl,
                                     cached: BOOLEAN]
  BY DEF ResolverInv, ResolverTypes
<1>3. \A p \in Points : cache'[p].clearance = cache[p].clearance /\ cache'[p].cached = cache[p].cached
  <2>1. \A p \in Points : cache'[p] = [cache[p] EXCEPT !.age = Resolver!Older(@, Ttl)]
    BY <1>1
  <2>2. QED
    BY <1>2, <2>1
<1>4. CacheIsTold'
  BY <1>1, <1>3 DEF CacheIsTold
<1>5. AlarmTypes' /\ WireIsTracker' /\ TrackedAsReported' /\ ListIsReported'
  BY <1>1 DEF AlarmTypes, WireIsTracker, TrackedAsReported, ListIsReported, ReportOf
<1>6. QED
  BY <1>4, <1>5

LEMMA AlarmInvStep ==
    ASSUME AlarmInv, [Next]_vars
    PROVE  AlarmInv'
<1>1. ResolverInv'
  BY ResolverInvStep DEF AlarmInv
<1>2. ASSUME UNCHANGED <<tracker, wire, stopped, list, vessel, now, detailed, reported, told,
                         cache, closed>>
      PROVE  AlarmInv'
  BY <1>1, <1>2 DEF AlarmInv, AlarmTypes, WireIsTracker, TrackedAsReported, ListIsReported,
     ReportOf, CacheIsTold
<1>3. CASE RouteAsks \/ AirDraftChanges \/ UNCHANGED vars
  BY <1>2, <1>3 DEF RouteAsks, AirDraftChanges, vars, alarmVars, callerVars, resolverVars,
     Resolver!Lookup
<1>4. QED
  BY <1>1, <1>3, LandKeeps, ReplayKeeps, SettleTells, StopKeeps, TickKeeps DEF Next

LEMMA AlarmInvAlways == Spec => []AlarmInv
<1>1. ASSUME Init PROVE AlarmInv
  <2>1. /\ DOMAIN tracker = {} /\ DOMAIN list.pois = {} /\ list.fetchedAt = 0
        /\ list.pois = [p \in {} |-> Unplaced] /\ now = 0 /\ vessel \in Positions
        /\ stopped = FALSE /\ closed = FALSE
        /\ reported = [p \in Points |->
                         [place |-> Unplaced, clearance |-> Unknown, landedAt |-> 0]]
        /\ told = [p \in Points |-> Unknown] /\ \A p \in Points : wire[p].state = "normal"
        /\ detailed \subseteq Points
        /\ \A p \in Points : cache[p].clearance = Unknown
    BY <1>1 DEF Init, NoAlarms, Silent, Resolver!Init, Resolver!NotCached
  <2>2. AlarmTypes
    BY <2>1 DEF AlarmTypes, Places
  <2>3. QED
    BY <1>1, <2>1, <2>2, ResolverInvInit DEF AlarmInv, WireIsTracker, TrackedAsReported,
       ListIsReported, CacheIsTold
<1>2. QED
  BY <1>1, AlarmInvStep, PTL DEF Spec

LEMMA ReportShape ==
    ASSUME NEW report \in Reports
    PROVE  report.place \in Places
  BY DEF Reports

\* Nearer than the raise radius is nearer than the exit radius.
LEMMA RangeIsBetween ==
    ASSUME NEW p, NEW position \in Positions, NEW report \in Reports
    PROVE  /\ Within(position, report.place, RaiseRadius) => InRange(p, position, report)
           /\ p \in DOMAIN tracker =>
                 (InRange(p, position, report) <=> Within(position, report.place, ExitRadius))
<1>1. position \in Int /\ (report.place # Unplaced => report.place \in Int)
  BY ReportShape, PositionsAssumption DEF Places
<1>2. QED
  BY <1>1, RadiiAssumption DEF InRange, HysteresisThreshold, Within, Distance

\* What a step brings to a pass: the list and the time of it, which are those in hand
\* after it, and the fix.
Passes(position, pois, fetchedAt) ==
    /\ Evaluate(position, pois, fetchedAt)
    /\ ~stopped /\ vessel' = position
    /\ list'.pois = pois /\ list'.fetchedAt = fetchedAt
    /\ \A p \in Points \ DOMAIN pois : reported'[p] = reported[p]
    /\ UNCHANGED <<stopped, airDraft, detailed, told>>

LEMMA WhatPasses ==
    ASSUME AlarmInv, [Next]_vars
    PROVE  \/ Settle \/ RouteAsks \/ AirDraftChanges \/ Stop \/ Tick \/ UNCHANGED vars
           \/ \E position \in Positions : \E pois, fetchedAt : Passes(position, pois, fetchedAt)
<1>1. ASSUME NEW position \in Positions, NEW listed \in SUBSET Points,
             NEW pois \in ReportsOf(listed), ListLands(position, pois)
      PROVE  Passes(position, pois, now)
  BY <1>1 DEF ListLands, Passes
<1>2. ASSUME NEW position \in Positions, Replay(position)
      PROVE  Passes(position, list.pois, list.fetchedAt)
  BY <1>2 DEF Replay, Passes
<1>3. QED
  BY <1>1, <1>2 DEF Next

\* What a pass scans of a bridge is its last report, and of that the clearance told last.
LEMMA PassScans ==
    ASSUME AlarmInv, AlarmInv', NEW position \in Positions, NEW pois, NEW fetchedAt,
           Passes(position, pois, fetchedAt),
           NEW p \in DOMAIN Completed(tracker, pois, fetchedAt)
    PROVE  /\ p \in Points
           /\ Completed(tracker, pois, fetchedAt)[p] \in Reports
           /\ Completed(tracker, pois, fetchedAt)[p].place = reported'[p].place
           /\ Blocks(ClearanceOf(p, Completed(tracker, pois, fetchedAt)[p])) = Blocks(LastTold(p))'
<1> DEFINE report == Completed(tracker, pois, fetchedAt)[p]
<1>1. /\ list'.pois = pois /\ DOMAIN pois \subseteq Points /\ DOMAIN tracker \subseteq Points
      /\ \A q \in DOMAIN pois : pois[q] = ReportOf(q)'
  BY DEF Passes, AlarmInv, AlarmTypes, ListIsReported
<1>2. p \in Points
  BY <1>1, CompletedAdds
<1>3. ReportOf(p)' = [place |-> reported'[p].place, clearance |-> reported'[p].clearance]
  BY DEF ReportOf
<1>4. report = ReportOf(p)'
  <2>1. CASE p \in DOMAIN pois
    BY <1>1, <2>1, CompletedAdds
  <2>2. CASE p \notin DOMAIN pois
    <3>1. report = tracker[p].at /\ p \in DOMAIN tracker
      BY <2>2, CompletedAdds
    <3>2. tracker[p].at = ReportOf(p)
      BY <3>1 DEF AlarmInv, TrackedAsReported
    <3>3. reported'[p] = reported[p]
      BY <1>2, <2>2 DEF Passes
    <3>4. QED
      BY <1>3, <3>1, <3>2, <3>3 DEF ReportOf
  <2>3. QED
    BY <2>1, <2>2
<1> HIDE DEF report
<1>5. report.place = reported'[p].place /\ report.clearance = reported'[p].clearance
      /\ report \in Reports
  <2>1. reported'[p] \in [place: Places, clearance: Clearances \cup {Unknown}, landedAt: Nat]
    BY <1>2 DEF AlarmInv, AlarmTypes
  <2>2. QED
    BY <1>3, <1>4, <2>1 DEF Reports
<1>6. UNCHANGED <<cache, detailed, airDraft>> /\ ~stopped'
  BY PassLearnsNothing DEF Passes
<1>7. ClearanceOf(p, report) = LastTold(p)'
  BY <1>2, <1>5, <1>6 DEF AlarmInv, CacheIsTold, ClearanceOf, LastTold,
     Resolver!Clearance
<1>8. QED
  BY <1>2, <1>5, <1>6, <1>7 DEF Blocks, report

\* An alarm clears for a reason its pass saw.
LEMMA PassClears ==
    ASSUME AlarmInv, AlarmInv', NEW position \in Positions, NEW pois, NEW fetchedAt,
           Passes(position, pois, fetchedAt), airDraft # NoDraft, NEW p \in Points,
           wire[p].state = "alarm", wire'[p].state = "normal"
    PROVE  \/ ~Within(vessel', reported'[p].place, ExitRadius)
           \/ list'.fetchedAt - reported'[p].landedAt > Window
           \/ ~Blocks(LastTold(p))'
<1> DEFINE scanned == Completed(tracker, pois, fetchedAt)
<1>1. p \in DOMAIN tracker /\ p \notin DOMAIN tracker'
  BY DEF AlarmInv, WireIsTracker
<1>2. DOMAIN tracker' = InAlarm(position, scanned)
  BY DEF Passes, Evaluate, NextTracker
<1>3. CASE p \in DOMAIN scanned
  <2>1. ~InRange(p, position, scanned[p]) \/ ~Blocks(ClearanceOf(p, scanned[p]))
    BY <1>1, <1>2, <1>3 DEF InAlarm
  <2>2. /\ scanned[p] \in Reports /\ scanned[p].place = reported'[p].place
        /\ Blocks(ClearanceOf(p, scanned[p])) = Blocks(LastTold(p))'
    BY <1>3, PassScans
  <2>3. InRange(p, position, scanned[p]) <=> Within(position, scanned[p].place, ExitRadius)
    BY <1>1, <2>2, RangeIsBetween
  <2>4. QED
    BY <2>1, <2>2, <2>3 DEF Passes
<1>4. CASE p \notin DOMAIN scanned
  <2>1. Expired(tracker[p], fetchedAt) /\ p \notin DOMAIN pois
    BY <1>1, <1>4, CompletedAdds
  <2>2. tracker[p].lastListedAt = reported[p].landedAt /\ reported'[p] = reported[p]
    BY <1>1, <2>1 DEF AlarmInv, TrackedAsReported, Passes
  <2>3. QED
    BY <2>1, <2>2 DEF Expired, Passes
<1>5. QED
  BY <1>3, <1>4

\* An alarm clears because of what was told of its bridge, never because its clearance
\* is being asked for, or a list omits it; a clearance that came with a merged duplicate
\* alone is lost when a list comes without the duplicate (bridge-clearance-alarms.ts:
\* evaluate; dedupe-pois.ts: dedupeAgainstBase).
THEOREM LowBridgeClearsAreJustified == Spec => ClearJustified
<1> DEFINE Justified ==
        \A p \in Points :
          wire[p].state = "alarm" /\ wire'[p].state = "normal" =>
             OutOfSight(p) \/ NoneTold(p)' \/ ~Blocks(LastTold(p)')
<1>1. ASSUME AlarmInv, [Next]_vars PROVE Justified
  <2>1. AlarmInv'
    BY <1>1, AlarmInvStep
  <2>2. ASSUME NEW position \in Positions, NEW pois, NEW fetchedAt,
               Passes(position, pois, fetchedAt)
        PROVE  Justified
    <3>1. UNCHANGED airDraft
      BY <2>2 DEF Passes
    <3>2. \A p \in Points : Blocks(LastTold(p))' = Blocks(LastTold(p)')
      BY <3>1 DEF Blocks
    <3>3. QED
      BY <1>1, <2>1, <2>2, <3>2, PassClears DEF OutOfSight
  <2>3. CASE Settle \/ RouteAsks \/ AirDraftChanges \/ Tick \/ UNCHANGED vars
    BY <2>3 DEF Settle, RouteAsks, AirDraftChanges, Tick, vars, alarmVars
  <2>4. CASE Stop
    BY <2>4 DEF Stop, OutOfSight
  <2>5. QED
    BY <1>1, <2>2, <2>3, <2>4, WhatPasses
<1>2. QED
  BY <1>1, AlarmInvAlways, PTL DEF Spec, ClearJustified

\* Every pass leaves the alarms as the last clearance told has it, whatever the resolver
\* has out (bridge-clearance-alarms.ts: evaluate; bridge-clearance-resolver.ts:
\* clearanceMeters).
THEOREM LowBridgesAreAlarmed == Spec => LowBridgesAlarm
<1>1. ASSUME AlarmInv, AlarmInv', NEW position \in Positions, NEW pois, NEW fetchedAt,
             Passes(position, pois, fetchedAt), airDraft # NoDraft
      PROVE  AlarmsFit'
  <2> DEFINE scanned == Completed(tracker, pois, fetchedAt)
  <2>1. DOMAIN tracker' = InAlarm(position, scanned)
    BY <1>1 DEF Passes, Evaluate, NextTracker
  <2>2. ASSUME NEW p \in DOMAIN list'.pois, Within(vessel', list'.pois[p].place, RaiseRadius),
               Blocks(LastTold(p))'
        PROVE  wire'[p].state = "alarm"
    <3>1. list'.pois = pois /\ vessel' = position
      BY <1>1 DEF Passes
    <3>2. p \in DOMAIN scanned /\ scanned[p] = pois[p]
      BY <2>2, <3>1, CompletedAdds
    <3>3. p \in Points /\ scanned[p] \in Reports /\ Blocks(ClearanceOf(p, scanned[p]))
      BY <1>1, <2>2, <3>2, PassScans
    <3>4. InRange(p, position, scanned[p])
      BY <2>2, <3>1, <3>2, <3>3, RangeIsBetween
    <3>5. p \in DOMAIN tracker'
      BY <2>1, <3>2, <3>3, <3>4 DEF InAlarm
    <3>6. QED
      BY <1>1, <3>3, <3>5 DEF AlarmInv, WireIsTracker
  <2>3. ASSUME NEW p \in Points, wire'[p].state = "alarm"
        PROVE  Blocks(LastTold(p))'
    <3>1. p \in InAlarm(position, scanned)
      BY <1>1, <2>1, <2>3 DEF AlarmInv, WireIsTracker
    <3>2. p \in DOMAIN scanned /\ Blocks(ClearanceOf(p, scanned[p]))
      BY <3>1 DEF InAlarm
    <3>3. QED
      BY <1>1, <3>2, PassScans
  <2>4. QED
    BY <2>2, <2>3 DEF AlarmsFit
<1>2. ASSUME AlarmInv, [Next]_vars
      PROVE  \/ UNCHANGED vars \/ airDraft = NoDraft \/ AlarmsFit'
             \/ Settle \/ RouteAsks \/ AirDraftChanges \/ Stop \/ Tick
  BY <1>1, <1>2, AlarmInvStep, WhatPasses
<1>3. QED
  BY <1>2, AlarmInvAlways, PTL DEF Spec, LowBridgesAlarm
=============================================================================
