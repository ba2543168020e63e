-------------------------- MODULE RouteProofs --------------------------
(***************************************************************************)
(* A route that was cleared does not come back by a refresh that began     *)
(* before it was, and the cache is the course once the newest refresh is   *)
(* through: proved for any set of routes, any number of changes and any    *)
(* number of refreshes out at once.  With the monitor between the reader   *)
(* and the alarms, the alarms are those of the route being followed, for   *)
(* any corridors, lists, distances and intervals, and every step of the    *)
(* three is one of the reader and one of the monitor, or none of theirs.   *)
(* And one tick over the corridor of a route flags what the corridor holds *)
(* and asks for a box that holds it, for a route of any number of legs.    *)
(***************************************************************************)
EXTENDS RouteHazardScan, RouteCorridor, WellFoundedInduction, SequenceTheorems, TLAPS

\* No refresh has the generation a cleared-route delta took, which is one the
\* reader has been through.
ClearHasItsOwn ==
    /\ clearedAt \in 0..refreshGeneration
    /\ \A f \in refreshes : f.generation # clearedAt

\* The inductive invariant.
Inv == ReaderTypeOK /\ ClearHasItsOwn

\* What a refresh is, at any generation the reader has reached.
Refreshes(g) == [generation: 1..g, phase: {"asked", "answered", "fetching"}, course: Courses]

\* A refresh stays one as the generations go on.
LEMMA RefreshesGrow ==
    ASSUME NEW g \in Nat
    PROVE  Refreshes(g) \subseteq Refreshes(g + 1)
BY DEF Refreshes

-----------------------------------------------------------------------------
\* Whatever is applied, the cache and the outcome keep their types.
LEMMA ApplyRefreshTypes ==
    ASSUME ReaderTypeOK, NEW generation, NEW newest, NEW route \in Courses,
           NEW how \in {"resolved", "failed"},
           ApplyRefresh(generation, newest, route, how)
    PROVE  /\ currentRoute' \in Courses /\ changed' \in BOOLEAN
           /\ outcome' \in {"none", "resolved", "failed"}
BY DEF ApplyRefresh, ReaderTypeOK

\* The server's steps leave the reader alone.
LEMMA ServerKeepsTypes ==
    ASSUME Inv, Activate \/ NextLeg \/ Cancel
    PROVE  Inv'
<1> DEFINE Heard == Courses \cup {NextPoint}
<1>1. ASSUME NEW some \in Seq(Heard), Publish(some), course' \in Courses
      PROVE  Inv'
  <2>1. UNCHANGED cacheVars /\ deltas' = deltas \o some
    BY <1>1 DEF Publish
  <2>2. deltas \in Seq(Heard)
    BY DEF Inv, ReaderTypeOK
  <2>3. deltas' \in Seq(Heard)
    BY <1>1, <2>1, <2>2
  <2>4. published \in Int /\ MaxChanges \in Int /\ 0 <= published
    BY ChangesAssumption DEF Inv, ReaderTypeOK
  <2>5. published' \in 0..MaxChanges
    BY <1>1, <2>4 DEF Publish
  <2>6. QED
    BY <1>1, <2>1, <2>3, <2>5 DEF Inv, ReaderTypeOK, ClearHasItsOwn, cacheVars
<1>2. CASE Activate
  <2>1. PICK r \in Routes : course' = r /\ Publish(<<r>>)
    BY <1>2 DEF Activate
  <2>2. <<r>> \in Seq(Heard) /\ course' \in Courses
    BY <2>1 DEF Courses
  <2>3. QED
    BY <1>1, <2>1, <2>2
<1>3. CASE NextLeg
  <2>1. <<NextPoint>> \in Seq(Heard) /\ course' \in Courses /\ Publish(<<NextPoint>>)
    BY <1>3 DEF NextLeg, Courses
  <2>2. QED
    BY <1>1, <2>1
<1>4. CASE Cancel
  <2>1. <<NoRoute, NextPoint>> \in Seq(Heard) /\ course' \in Courses
    BY <1>4 DEF Cancel, Courses
  <2>2. QED
    BY <1>1, <1>4, <2>1 DEF Cancel
<1>5. QED
  BY <1>2, <1>3, <1>4

\* A delta starts a refresh of a new generation, or takes one for its clear.
LEMMA OnDeltaStep ==
    ASSUME Inv, OnDelta
    PROVE  Inv'
<1> USE DEF Inv
<1> DEFINE g == refreshGeneration
<1>1. /\ deltas' \in Seq(Courses \cup {NextPoint})
      /\ UNCHANGED <<readerStopped, course, published>>
  BY DEF OnDelta, ReaderTypeOK
<1>2. g \in Nat /\ refreshes \subseteq Refreshes(g) /\ refreshes \subseteq Refreshes(g + 1)
  BY RefreshesGrow DEF ReaderTypeOK, Refreshes
<1>3. CASE ClearRoute
  <2>1. g' = g + 1 /\ clearedAt' = g + 1 /\ refreshes' = refreshes
    BY <1>3 DEF ClearRoute
  <2>2. /\ currentRoute' \in Courses /\ changed' \in BOOLEAN
        /\ outcome' \in {"none", "resolved", "failed"}
    BY <1>3, ApplyRefreshTypes DEF ClearRoute, Courses
  <2>3. \A f \in refreshes : f.generation # g + 1
    BY <1>2 DEF Refreshes
  <2>4. QED
    BY <1>1, <1>2, <2>1, <2>2, <2>3 DEF ReaderTypeOK, ClearHasItsOwn, Refreshes
<1>4. CASE ScheduleRefresh
  <2> DEFINE new == [generation |-> g + 1, phase |-> "asked", course |-> NoRoute]
  <2>1. /\ g' = g + 1 /\ refreshes' = refreshes \cup {new}
        /\ UNCHANGED <<currentRoute, changed, clearedAt, outcome>>
    BY <1>4 DEF ScheduleRefresh
  <2>2. new \in Refreshes(g + 1) /\ new.generation = g + 1
    BY <1>2 DEF Refreshes, Courses
  <2>3. refreshes' \subseteq Refreshes(g')
    BY <1>2, <2>1, <2>2
  <2>4. clearedAt' \in 0..g' /\ clearedAt # g + 1
    BY <1>2, <2>1 DEF ClearHasItsOwn
  <2>5. \A f \in refreshes' : f.generation # clearedAt'
    BY <2>1, <2>2, <2>4 DEF ClearHasItsOwn
  <2>6. QED
    BY <1>1, <1>2, <2>1, <2>3, <2>4, <2>5 DEF ReaderTypeOK, ClearHasItsOwn, Refreshes
<1>5. QED
  BY <1>3, <1>4 DEF OnDelta

\* A refresh goes on to its next await, with the generation it has.
LEMMA RefreshMovesOn ==
    ASSUME Inv, NEW f \in refreshes,
           NEW stage \in {"asked", "answered", "fetching"}, NEW c \in Courses,
           refreshes' = (refreshes \ {f}) \cup {[f EXCEPT !.phase = stage, !.course = c]},
           UNCHANGED <<currentRoute, refreshGeneration, readerStopped, changed, clearedAt,
                       outcome, serverVars>>
    PROVE  Inv'
<1> USE DEF Inv
<1> DEFINE moved == [f EXCEPT !.phase = stage, !.course = c]
<1>1. moved \in Refreshes(refreshGeneration) /\ moved.generation = f.generation
  BY DEF ReaderTypeOK, Refreshes
<1>2. refreshes' \subseteq Refreshes(refreshGeneration)
  BY <1>1 DEF ReaderTypeOK, Refreshes
<1>3. \A h \in refreshes' : h.generation # clearedAt
  BY <1>1 DEF ClearHasItsOwn
<1>4. QED
  BY <1>2, <1>3 DEF ReaderTypeOK, ClearHasItsOwn, Refreshes, serverVars

\* A refresh that ends leaves the generations as they are.
LEMMA EndsStep ==
    ASSUME Inv, NEW f \in refreshes, NEW route \in Courses,
           NEW how \in {"resolved", "failed"}, Ends(f, route, how)
    PROVE  Inv'
<1>1. /\ refreshes' \subseteq refreshes
      /\ UNCHANGED <<refreshGeneration, readerStopped, clearedAt, serverVars>>
  BY DEF Ends
<1>2. /\ currentRoute' \in Courses /\ changed' \in BOOLEAN
      /\ outcome' \in {"none", "resolved", "failed"}
  BY ApplyRefreshTypes DEF Ends, Inv
<1>3. QED
  BY <1>1, <1>2 DEF Inv, ReaderTypeOK, ClearHasItsOwn, serverVars

\* The continuation of a refresh.
LEMMA ContinueStep ==
    ASSUME Inv, Continue
    PROVE  Inv'
<1>1. PICK f \in refreshes :
          ServerReads(f) \/ CourseResolves(f) \/ ResourceResolves(f) \/ RefreshFails(f)
  BY DEF Continue
<1>2. f \in Refreshes(refreshGeneration) /\ f.course \in Courses /\ NoRoute \in Courses
  BY DEF Inv, ReaderTypeOK, Refreshes, Courses
<1>3. CASE ServerReads(f)
  BY <1>3, RefreshMovesOn DEF ServerReads, Inv, ReaderTypeOK
<1>4. CASE CourseResolves(f)
  <2>1. CASE Ends(f, NoRoute, "resolved")
    BY <1>2, <2>1, EndsStep
  <2>2. CASE /\ refreshes' = (refreshes \ {f}) \cup {[f EXCEPT !.phase = "fetching"]}
             /\ UNCHANGED <<currentRoute, refreshGeneration, readerStopped, changed,
                            clearedAt, outcome, serverVars>>
    <3>1. [f EXCEPT !.phase = "fetching"] =
             [f EXCEPT !.phase = "fetching", !.course = f.course]
      BY <1>2 DEF Refreshes
    <3>2. QED
      BY <1>2, <2>2, <3>1, RefreshMovesOn
  <2>3. QED
    BY <1>4, <2>1, <2>2 DEF CourseResolves
<1>5. CASE ResourceResolves(f)
  BY <1>2, <1>5, EndsStep DEF ResourceResolves
<1>6. CASE RefreshFails(f)
  BY <1>2, <1>6, EndsStep DEF RefreshFails
<1>7. QED
  BY <1>1, <1>3, <1>4, <1>5, <1>6

\* Every step keeps the invariant.
LEMMA InvStep ==
    ASSUME Inv, [ReaderNext]_readerVars
    PROVE  Inv'
<1>1. CASE StopReader
  BY <1>1 DEF StopReader, Inv, ReaderTypeOK, ClearHasItsOwn, Courses, serverVars
<1>2. CASE UNCHANGED readerVars
  BY <1>2 DEF readerVars, cacheVars, serverVars, Inv, ReaderTypeOK, ClearHasItsOwn
<1>3. QED
  BY <1>1, <1>2, ServerKeepsTypes, OnDeltaStep, ContinueStep DEF ReaderNext

\* The invariant holds from the first refresh on.
LEMMA InvAlways == ReaderInit /\ [][ReaderNext]_readerVars => []Inv
<1>1. ASSUME ReaderInit PROVE Inv
  <2>1. published \in 0..MaxChanges /\ deltas \in Seq(Courses \cup {NextPoint})
    BY <1>1, ChangesAssumption DEF ReaderInit
  <2>2. refreshes \subseteq Refreshes(refreshGeneration)
    BY <1>1 DEF ReaderInit, Refreshes, Courses
  <2>3. ClearHasItsOwn
    BY <1>1 DEF ReaderInit, ClearHasItsOwn
  <2>4. QED
    BY <1>1, <2>1, <2>2, <2>3 DEF ReaderInit, Inv, ReaderTypeOK, Refreshes, Courses
<1>2. QED
  BY <1>1, InvStep, PTL

-----------------------------------------------------------------------------
\* The reader's state keeps its types.
THEOREM TypeCorrect == ReaderSpec => []ReaderTypeOK
<1>1. Inv => ReaderTypeOK
  BY DEF Inv
<1>2. QED
  BY <1>1, InvAlways, PTL DEF ReaderSpec

\* Only a refresh that began after the last cleared-route delta, and is still the
\* newest, brings a route into the cache.
THEOREM ClearedRoutesStayCleared ==
    ReaderInit /\ [][ReaderNext]_readerVars => NoResurrection
<1>1. ASSUME Inv, [ReaderNext]_readerVars, currentRoute' \notin {currentRoute, NoRoute}
      PROVE  \E f \in refreshes \ refreshes' :
                f.generation > clearedAt /\ f.generation = refreshGeneration
  <2>1. Continue
    BY <1>1 DEF ReaderNext, Activate, NextLeg, Cancel, Publish, OnDelta, ClearRoute,
                ScheduleRefresh, ApplyRefresh, StopReader, readerVars, cacheVars
  <2>2. PICK f \in refreshes :
            ServerReads(f) \/ CourseResolves(f) \/ ResourceResolves(f) \/ RefreshFails(f)
    BY <2>1 DEF Continue
  <2>3. PICK route, how : Ends(f, route, how)
    BY <1>1, <2>2 DEF ServerReads, CourseResolves, ResourceResolves, RefreshFails
  <2>4. f \in refreshes \ refreshes' /\ f.generation = refreshGeneration
    BY <1>1, <2>3 DEF Ends, ApplyRefresh
  <2>5. f.generation > clearedAt
    BY <1>1, <2>4 DEF Inv, ReaderTypeOK, ClearHasItsOwn
  <2>6. QED
    BY <2>4, <2>5
<1>2. QED
  BY <1>1, InvAlways, PTL DEF NoResurrection

-----------------------------------------------------------------------------
\* A cleared-route delta is followed by the other path's, so the last word on a
\* change is always a refresh.
ClearsAreFollowed == deltas # <<>> => deltas[Len(deltas)] # NoRoute

\* With no delta to come, what the newest refresh has been answered with is the course.
NewestIsToldTheCourse ==
    deltas = <<>> => \A f \in Current : f.phase # "asked" => f.course = course

\* The inductive invariant of the cache.
CacheInv == Inv /\ ClearsAreFollowed /\ NewestIsToldTheCourse /\ CacheIsCourse

\* A change of the course puts a delta in the queue, whatever is there.
LEMMA ChangeIsQueued ==
    ASSUME CacheInv, Activate \/ NextLeg \/ Cancel
    PROVE  deltas' # <<>> /\ ClearsAreFollowed'
<1> DEFINE Heard == Courses \cup {NextPoint}
<1>1. deltas \in Seq(Heard)
  BY DEF CacheInv, Inv, ReaderTypeOK
<1>2. ASSUME NEW d \in Heard, d # NoRoute, deltas' = deltas \o <<d>>
      PROVE  deltas' # <<>> /\ ClearsAreFollowed'
  <2>1. Len(deltas') = Len(deltas) + 1 /\ deltas'[Len(deltas) + 1] = d
    BY <1>1, <1>2
  <2>2. QED
    BY <1>1, <1>2, <2>1 DEF ClearsAreFollowed
<1>3. CASE Activate
  BY <1>2, <1>3, RoutesAssumption DEF Activate, Publish, Courses
<1>4. CASE NextLeg
  BY <1>2, <1>4, RoutesAssumption DEF NextLeg, Publish, Courses
<1>5. CASE Cancel
  <2>1. deltas' = deltas \o <<NoRoute, NextPoint>>
    BY <1>5 DEF Cancel, Publish
  <2>2. Len(deltas') = Len(deltas) + 2 /\ deltas'[Len(deltas) + 2] = NextPoint
    BY <1>1, <2>1 DEF Courses
  <2>3. QED
    BY <1>1, <2>1, <2>2, RoutesAssumption DEF ClearsAreFollowed, Courses
<1>6. QED
  BY <1>3, <1>4, <1>5

LEMMA ServerKeepsCache ==
    ASSUME CacheInv, Activate \/ NextLeg \/ Cancel
    PROVE  CacheInv'
BY ServerKeepsTypes, ChangeIsQueued DEF CacheInv, NewestIsToldTheCourse, CacheIsCourse

\* After a delta the newest refresh is one that has yet to be answered, or there is
\* none because the route was cleared: and then another delta is to come.
LEMMA DeltaKeepsCache ==
    ASSUME CacheInv, OnDelta
    PROVE  CacheInv'
<1> DEFINE Heard == Courses \cup {NextPoint}
<1>1. /\ deltas \in Seq(Heard) /\ deltas # <<>> /\ deltas' = Tail(deltas)
      /\ refreshGeneration \in Nat
      /\ \A f \in refreshes : f.generation # refreshGeneration + 1
  BY DEF OnDelta, CacheInv, Inv, ReaderTypeOK
<1>2. ClearsAreFollowed'
  <2>1. CASE Len(deltas) = 1
    BY <1>1, <2>1 DEF ClearsAreFollowed
  <2>2. CASE Len(deltas) > 1
    <3>1. Len(deltas') = Len(deltas) - 1 /\ deltas'[Len(deltas) - 1] = deltas[Len(deltas)]
      BY <1>1, <2>2
    <3>2. QED
      BY <1>1, <3>1 DEF CacheInv, ClearsAreFollowed
  <2>3. QED
    BY SMTT(20), <1>1, <2>1, <2>2
<1>3. CASE Head(deltas) = NoRoute /\ ClearRoute
  <2>1. refreshes' = refreshes /\ refreshGeneration' = refreshGeneration + 1
    BY <1>3 DEF ClearRoute
  <2>2. Current' = {}
    BY <1>1, <2>1 DEF Current
  <2>3. deltas' # <<>>
    <3>1. Len(deltas) # 1
      BY <1>1, <1>3 DEF CacheInv, ClearsAreFollowed
    <3>2. Len(deltas') = Len(deltas) - 1 /\ Len(deltas) \in Nat /\ Len(deltas) > 0
      BY <1>1
    <3>3. Len(deltas') > 0
      BY <3>1, <3>2
    <3>4. QED
      BY <3>3
  <2>4. NewestIsToldTheCourse' /\ CacheIsCourse'
    BY <2>2, <2>3 DEF NewestIsToldTheCourse, CacheIsCourse
  <2>5. QED
    BY <1>2, <2>4, OnDeltaStep DEF CacheInv
<1>4. CASE Head(deltas) # NoRoute /\ ScheduleRefresh
  <2> DEFINE new == [generation |-> refreshGeneration + 1, phase |-> "asked", course |-> NoRoute]
  <2>1. refreshes' = refreshes \cup {new} /\ refreshGeneration' = refreshGeneration + 1
    BY <1>4 DEF ScheduleRefresh
  <2>2. \A f : f \in Current' <=> f = new
    BY <1>1, <2>1 DEF Current
  <2>3. new.phase = "asked"
    OBVIOUS
  <2> HIDE DEF new
  <2>4. Current' # {} /\ \A f \in Current' : f.phase = "asked"
    BY <2>2, <2>3
  <2>5. NewestIsToldTheCourse' /\ CacheIsCourse'
    BY <2>4 DEF NewestIsToldTheCourse, CacheIsCourse
  <2>6. QED
    BY <1>2, <2>5, OnDeltaStep DEF CacheInv
<1>5. QED
  BY <1>3, <1>4 DEF OnDelta

\* A refresh that goes on is still the newest if it was, and is told the course.
LEMMA MovingOnKeepsCache ==
    ASSUME CacheInv, NEW f \in refreshes,
           NEW stage \in {"asked", "answered", "fetching"}, NEW c \in Courses,
           c = course \/ (c = f.course /\ f.phase # "asked"),
           refreshes' = (refreshes \ {f}) \cup {[f EXCEPT !.phase = stage, !.course = c]},
           UNCHANGED <<currentRoute, refreshGeneration, readerStopped, changed, clearedAt,
                       outcome, serverVars>>
    PROVE  CacheInv'
<1> DEFINE moved == [f EXCEPT !.phase = stage, !.course = c]
<1>1. Inv'
  BY RefreshMovesOn DEF CacheInv
<1>2. f \in Refreshes(refreshGeneration)
  BY DEF CacheInv, Inv, ReaderTypeOK, Refreshes
<1>3. moved.generation = f.generation /\ moved.course = c
  BY <1>2 DEF Refreshes
<1>4. UNCHANGED <<refreshGeneration, deltas, course, currentRoute, outcome, readerStopped>>
  BY DEF serverVars
<1>5. NewestIsToldTheCourse'
  BY <1>3, <1>4 DEF CacheInv, NewestIsToldTheCourse, Current
<1>6. Current' = {} => Current = {}
  BY <1>3, <1>4 DEF Current
<1>7. CacheIsCourse' /\ ClearsAreFollowed'
  BY <1>4, <1>6 DEF CacheInv, CacheIsCourse, ClearsAreFollowed
<1>8. QED
  BY <1>1, <1>5, <1>7 DEF CacheInv

\* What the newest refresh resolves to is the course; an older one changes nothing.
LEMMA EndingKeepsCache ==
    ASSUME CacheInv, NEW f \in refreshes, NEW route \in Courses,
           NEW how \in {"resolved", "failed"}, Ends(f, route, how),
           how = "failed" \/ (f.phase # "asked" /\ route = f.course)
    PROVE  CacheInv'
<1>1. Inv'
  BY EndsStep DEF CacheInv
<1>2. /\ refreshes' = refreshes \ {f}
      /\ UNCHANGED <<refreshGeneration, readerStopped, deltas, course>>
  BY DEF Ends, serverVars
<1>3. ClearsAreFollowed' /\ NewestIsToldTheCourse'
  BY <1>2 DEF CacheInv, ClearsAreFollowed, NewestIsToldTheCourse, Current
<1>4. CASE readerStopped
  BY <1>1, <1>2, <1>3, <1>4 DEF CacheInv, CacheIsCourse
<1>5. CASE ~readerStopped /\ f.generation # refreshGeneration
  <2>1. Current' = Current /\ UNCHANGED <<currentRoute, outcome>>
    BY <1>2, <1>5 DEF Ends, ApplyRefresh, Current
  <2>2. CacheIsCourse'
    BY <1>2, <2>1 DEF CacheInv, CacheIsCourse
  <2>3. QED
    BY <1>1, <1>3, <2>2 DEF CacheInv
<1>6. CASE ~readerStopped /\ f.generation = refreshGeneration
  <2>1. currentRoute' = route /\ outcome' = how
    BY <1>6 DEF Ends, ApplyRefresh
  <2>2. f \in Current
    BY <1>6 DEF Current
  <2>3. CacheIsCourse'
    BY <1>2, <2>1, <2>2 DEF CacheInv, CacheIsCourse, NewestIsToldTheCourse
  <2>4. QED
    BY <1>1, <1>3, <2>3 DEF CacheInv
<1>7. QED
  BY <1>4, <1>5, <1>6

LEMMA ContinueKeepsCache ==
    ASSUME CacheInv, Continue
    PROVE  CacheInv'
<1>1. PICK f \in refreshes :
          ServerReads(f) \/ CourseResolves(f) \/ ResourceResolves(f) \/ RefreshFails(f)
  BY DEF Continue
<1>2. /\ f \in Refreshes(refreshGeneration) /\ f.course \in Courses
      /\ NoRoute \in Courses /\ course \in Courses
  BY DEF CacheInv, Inv, ReaderTypeOK, Refreshes, Courses
<1>3. CASE ServerReads(f)
  BY <1>2, <1>3, MovingOnKeepsCache DEF ServerReads
<1>4. CASE CourseResolves(f)
  <2>1. CASE f.course = NoRoute /\ Ends(f, NoRoute, "resolved")
    BY <1>2, <1>4, <2>1, EndingKeepsCache DEF CourseResolves
  <2>2. CASE /\ refreshes' = (refreshes \ {f}) \cup {[f EXCEPT !.phase = "fetching"]}
             /\ UNCHANGED <<currentRoute, refreshGeneration, readerStopped, changed,
                            clearedAt, outcome, serverVars>>
    <3>1. [f EXCEPT !.phase = "fetching"] =
             [f EXCEPT !.phase = "fetching", !.course = f.course]
      BY <1>2 DEF Refreshes
    <3>2. f.phase # "asked"
      BY <1>4 DEF CourseResolves
    <3>3. QED
      BY <1>2, <2>2, <3>1, <3>2, MovingOnKeepsCache
  <2>3. QED
    BY <1>4, <2>1, <2>2 DEF CourseResolves
<1>5. CASE ResourceResolves(f)
  BY <1>2, <1>5, EndingKeepsCache DEF ResourceResolves
<1>6. CASE RefreshFails(f)
  BY <1>2, <1>6, EndingKeepsCache DEF RefreshFails
<1>7. QED
  BY <1>1, <1>3, <1>4, <1>5, <1>6

LEMMA CacheInvStep ==
    ASSUME CacheInv, [ReaderNext]_readerVars
    PROVE  CacheInv'
<1>1. CASE StopReader
  BY <1>1, InvStep DEF StopReader, CacheInv, ClearsAreFollowed, NewestIsToldTheCourse,
                       Current, CacheIsCourse, serverVars
<1>2. CASE UNCHANGED readerVars
  BY <1>2, InvStep DEF readerVars, cacheVars, serverVars, CacheInv, ClearsAreFollowed,
                       NewestIsToldTheCourse, Current, CacheIsCourse
<1>3. QED
  BY <1>1, <1>2, ServerKeepsCache, DeltaKeepsCache, ContinueKeepsCache DEF ReaderNext

\* Once every delta is in and the newest refresh is through, the cache is the course,
\* whichever refreshes were out and in whatever order they were answered
\* (course-reader.ts: applyRefresh, onActiveRouteDelta).
THEOREM CacheFollowsCourse ==
    ReaderInit /\ [][ReaderNext]_readerVars => []CacheIsCourse
<1>1. ASSUME ReaderInit, Inv PROVE CacheInv
  <2>1. Current = refreshes
    BY <1>1 DEF ReaderInit, Current
  <2>2. QED
    BY <1>1, <2>1 DEF ReaderInit, CacheInv, ClearsAreFollowed, NewestIsToldTheCourse,
                      CacheIsCourse
<1>2. CacheInv => CacheIsCourse
  BY DEF CacheInv
<1>3. QED
  BY <1>1, <1>2, CacheInvStep, InvAlways, PTL
-----------------------------------------------------------------------------
(***************************************************************************)
(* The alarms of the route.  Of the monitor only the slot, the newest fix  *)
(* and the list in hand matter.                                            *)
(***************************************************************************)

\* The slot is taken exactly while a request or its finally is outstanding.
Slot ==
    /\ requests \in Seq(Positions) /\ settling \in BOOLEAN /\ tickInFlight \in BOOLEAN
    /\ Len(requests) = IF tickInFlight /\ ~settling THEN 1 ELSE 0
    /\ settling => tickInFlight

\* There is no request, no tick and no list before the first fix.
BeforeFirstFix ==
    /\ latestPosition \in Positions \cup {NoFix}
    /\ latestPosition = NoFix =>
          ~tickInFlight /\ lastTickPosition = NoFix /\ lastList.pois = NoAnswer

\* The alarms are those of the route that the last answered tick took.
AlarmsOfTick ==
    ~stopped /\ (tickInFlight => settling) /\ ~tickFailed /\ lastList.pois # NoAnswer =>
        /\ DOMAIN tracker \subseteq AheadOn(tickRoute)
        /\ \A p \in DOMAIN lastList.pois \cap AheadOn(tickRoute) :
              lastList.pois[p] # Unplaced => p \in DOMAIN tracker

ScanTypes ==
    /\ evaluation.turn \in {0, 1} /\ tickFailed \in BOOLEAN /\ stopped \in BOOLEAN
    /\ forcedTickPending \in BOOLEAN /\ changed \in BOOLEAN

\* The inductive invariant.
ScanInv == ScanTypes /\ Slot /\ BeforeFirstFix /\ OutdatedRouteIsRescanned /\ AlarmsOfTick

\* What the output of a tick makes of a list: the alarms are what it places ahead.
LEMMA EvaluatedAhead ==
    ASSUME NEW pois, NEW fetchedAt, Evaluate(pois, fetchedAt)
    PROVE  /\ DOMAIN tracker' \subseteq AheadOn(tickRoute')
           /\ \A p \in DOMAIN pois \cap AheadOn(tickRoute') :
                 pois[p] # Unplaced => p \in DOMAIN tracker'
<1> DEFINE confirmed == Reconfirm(tracker, pois, fetchedAt)
           scanned == Completed(tracker, pois, fetchedAt)
<1>1. DOMAIN tracker' = Flagged(scanned)
  BY DEF Evaluate, NextTracker
<1>2. \A p \in DOMAIN pois : p \in DOMAIN scanned /\ scanned[p] = pois[p]
  BY DEF Completed
<1> HIDE DEF scanned
<1>3. QED
  BY <1>1, <1>2 DEF Flagged

\* A step without a tick leaves the route of the tick and the alarms alone.
LEMMA NoTick ==
    ASSUME React, requests' = requests,
           evaluation' = evaluation \/ (HasZone /\ evaluation'.targets = "zone")
    PROVE  /\ UNCHANGED <<tickRoute, tracker, wire>>
           /\ tickFailed' = (tickFailed \/ (settling' /\ ~settling))
<1>1. ~RequestSent /\ ~TickWithoutBox
  BY DEF RequestSent, TickWithoutBox
<1>2. ~(evaluation' # evaluation /\ evaluation'.targets = "all")
  OBVIOUS
<1>3. QED
  BY <1>1, <1>2 DEF React, BuildFetchBox

\* A tick that asks for a list takes the route of the moment.
LEMMA TickAsks ==
    ASSUME ScanInv, NEW p \in Positions, React, Monitor!RequestList(p), requests = <<>>,
           settling' = FALSE, UNCHANGED <<stopped, lastList>>,
           latestPosition' \in Positions, changed' \in BOOLEAN,
           evaluation'.turn \in {0, 1},
           evaluation' = evaluation \/ evaluation'.targets = "zone"
    PROVE  ScanInv'
<1>1. /\ tickInFlight' = TRUE /\ forcedTickPending' = FALSE
      /\ requests' = Append(requests, p)
  BY DEF Monitor!RequestList
<1>2. requests' \in Seq(Positions) /\ Len(requests') = 1 /\ Len(requests) = 0
  BY <1>1
<1>3. RequestSent
  BY <1>2 DEF RequestSent
<1>4. tickRoute' = currentRoute'
  BY <1>3 DEF React, BuildFetchBox
<1>5. tickFailed' \in BOOLEAN
  BY DEF React, ScanInv, ScanTypes
<1>6. ScanTypes' /\ Slot'
  BY <1>1, <1>2, <1>5 DEF ScanInv, ScanTypes, Slot
<1>7. BeforeFirstFix' /\ OutdatedRouteIsRescanned' /\ AlarmsOfTick'
  BY <1>1, <1>4, ScanAssumption
  DEF ScanInv, BeforeFirstFix, OutdatedRouteIsRescanned, AlarmsOfTick
<1>8. QED
  BY <1>6, <1>7 DEF ScanInv

\* A tick that nobody wants a box for has no route, and no alarms after it.
LEMMA TickWithout ==
    ASSUME ScanInv, NEW p \in Positions, React, Monitor!TickWithoutBox(p), requests = <<>>,
           settling' = FALSE, UNCHANGED stopped,
           latestPosition' \in Positions, changed' \in BOOLEAN
    PROVE  ScanInv'
<1>1. /\ ~HasZone /\ tickInFlight' = FALSE /\ forcedTickPending' = FALSE
      /\ Monitor!EvaluateAll(p, NoPois, NoFix) /\ requests' = requests
  BY DEF Monitor!TickWithoutBox
<1>2. /\ evaluation'.turn = 1 - evaluation.turn /\ evaluation'.targets = "all"
      /\ evaluation'.list = lastList' /\ listAround' = NoFix
  BY <1>1 DEF Monitor!EvaluateAll, Monitor!Evaluate
<1>3. evaluation'.turn \in {0, 1} /\ evaluation' # evaluation
  BY <1>2 DEF ScanInv, ScanTypes
<1>4. TickWithoutBox
  BY <1>1, <1>2, <1>3 DEF TickWithoutBox
<1>5. tickRoute' = currentRoute'
  BY <1>4 DEF React, BuildFetchBox
<1>6. Evaluate(lastList'.pois, lastList'.fetchedAt) /\ tickFailed' = FALSE
  BY <1>2, <1>3 DEF React
<1>7. ScanTypes' /\ Slot'
  BY <1>1, <1>3, <1>6 DEF ScanInv, ScanTypes, Slot
<1>8. BeforeFirstFix' /\ OutdatedRouteIsRescanned'
  BY <1>5, ScanAssumption DEF BeforeFirstFix, OutdatedRouteIsRescanned
<1>9. AlarmsOfTick'
  BY <1>6, EvaluatedAhead DEF AlarmsOfTick
<1>10. QED
  BY <1>7, <1>8, <1>9 DEF ScanInv

\* The slot is free whenever a tick starts.
LEMMA FreeSlot ==
    ASSUME ScanInv, ~tickInFlight \/ settling
    PROVE  requests = <<>>
BY DEF ScanInv, Slot

-----------------------------------------------------------------------------
(* The handlers. *)

\* What a replay leaves: the list, and the contributors without a zone.
LEMMA Replayed ==
    ASSUME ScanInv, NEW p, Monitor!MaybeEvaluate(p)
    PROVE  /\ UNCHANGED <<lastList, listAround>> /\ evaluation'.turn \in {0, 1}
           /\ evaluation' = evaluation \/ (HasZone /\ evaluation'.targets = "zone")
<1>1. UNCHANGED <<lastList, listAround>>
  BY DEF Monitor!MaybeEvaluate, Monitor!listVars
<1>2. CASE HasZone /\ Monitor!Evaluate(p, lastList, "zone")
  BY <1>1, <1>2 DEF Monitor!Evaluate, ScanInv, ScanTypes
<1>3. CASE UNCHANGED Monitor!evaluationVars
  BY <1>1, <1>3 DEF Monitor!evaluationVars, ScanInv, ScanTypes
<1>4. QED
  BY <1>2, <1>3 DEF Monitor!MaybeEvaluate

\* A fix, before which either nothing was due or the first fix is due a tick.
LEMMA FixKeepsAlarms ==
    ASSUME ScanInv, OnPosition
    PROVE  ScanInv'
<1>1. PICK p \in Positions : Monitor!OnPosition(p) /\ UNCHANGED readerVars /\ React
  BY DEF OnPosition, MonitorStep
<1> DEFINE due == ~tickInFlight /\ (forcedTickPending \/ Monitor!ShouldTick(p))
<1>2. /\ ~settling /\ settling' = FALSE /\ ~stopped /\ UNCHANGED stopped
      /\ latestPosition' = p /\ UNCHANGED <<currentRoute, changed>> /\ changed' \in BOOLEAN
  BY <1>1 DEF Monitor!OnPosition, Monitor!Idle, readerVars, cacheVars, ScanInv, ScanTypes, Slot
<1>3. CASE ~due /\ Monitor!MaybeEvaluate(p) /\ UNCHANGED Monitor!tickVars
  <2>1. latestPosition # NoFix
    BY <1>3 DEF ScanInv, BeforeFirstFix, Monitor!ShouldTick
  <2>2. UNCHANGED <<tickInFlight, forcedTickPending, lastTickPosition, requests>>
    BY <1>3 DEF Monitor!tickVars
  <2>3. /\ UNCHANGED lastList /\ evaluation'.turn \in {0, 1}
        /\ evaluation' = evaluation \/ (HasZone /\ evaluation'.targets = "zone")
    BY <1>3, Replayed
  <2>4. UNCHANGED <<tickRoute, tracker>> /\ tickFailed' = tickFailed
    BY <1>1, <1>2, <2>2, <2>3, NoTick DEF ScanInv, ScanTypes
  <2>5. ScanTypes' /\ Slot'
    BY <1>2, <2>2, <2>3, <2>4 DEF ScanInv, ScanTypes, Slot
  <2>6. BeforeFirstFix' /\ OutdatedRouteIsRescanned'
    BY <1>2, <2>1, <2>2, <2>4, ScanAssumption
    DEF ScanInv, BeforeFirstFix, OutdatedRouteIsRescanned
  <2>7. AlarmsOfTick'
    BY <1>2, <2>2, <2>3, <2>4 DEF ScanInv, AlarmsOfTick
  <2>8. QED
    BY <2>5, <2>6, <2>7 DEF ScanInv
<1>4. CASE due /\ Monitor!RequestList(p) /\ Monitor!MaybeEvaluate(p)
  BY <1>1, <1>2, <1>4, FreeSlot, Replayed, TickAsks
<1>5. CASE due /\ Monitor!TickWithoutBox(p)
  BY <1>1, <1>2, <1>5, FreeSlot, TickWithout
<1>6. QED
  BY <1>1, <1>3, <1>4, <1>5 DEF Monitor!OnPosition

\* A request settles: its answer makes the alarms those of its tick, its failure is
\* remembered.
LEMMA SettleKeepsAlarms ==
    ASSUME ScanInv, Settle
    PROVE  ScanInv'
<1>1. Monitor!Settle /\ UNCHANGED readerVars /\ React
  BY DEF Settle, MonitorStep
<1>2. PICK i \in 1..Len(requests) :
          Monitor!Failed(i) \/ \E pois \in Lists : Monitor!Answered(i, pois)
  BY <1>1 DEF Monitor!Settle
<1>3. Monitor!Settles(i) /\ ~settling
  BY <1>2 DEF Monitor!Failed, Monitor!Answered, Monitor!Idle
<1>4. Len(requests) = 1 /\ tickInFlight /\ requests[i] \in Positions
  BY DEF ScanInv, Slot
<1>5. requests' = <<>> /\ ~RequestSent
  BY <1>3, <1>4 DEF Monitor!Settles, RequestSent
<1>6. /\ settling' = TRUE
      /\ UNCHANGED <<stopped, tickInFlight, forcedTickPending, lastTickPosition,
                     latestPosition, currentRoute, changed>>
  BY <1>1, <1>3 DEF Monitor!Settles, Monitor!fixVars, readerVars, cacheVars
<1>7. Slot' /\ latestPosition # NoFix
  BY <1>4, <1>5, <1>6 DEF ScanInv, Slot, BeforeFirstFix
<1>8. CASE UNCHANGED <<Monitor!evaluationVars, Monitor!listVars>>
  <2>1. UNCHANGED <<evaluation, lastList>>
    BY <1>8 DEF Monitor!evaluationVars, Monitor!listVars
  <2>2. tickFailed' = TRUE /\ UNCHANGED <<tickRoute, tracker>>
    BY <1>1, <1>3, <1>5, <1>6, <2>1 DEF React, BuildFetchBox, TickWithoutBox
  <2>3. ScanTypes'
    BY <1>6, <2>1, <2>2 DEF ScanInv, ScanTypes
  <2>4. BeforeFirstFix' /\ OutdatedRouteIsRescanned' /\ AlarmsOfTick'
    BY <1>6, <1>7, <2>1, <2>2
    DEF ScanInv, BeforeFirstFix, OutdatedRouteIsRescanned, AlarmsOfTick
  <2>5. QED
    BY <1>7, <2>3, <2>4 DEF ScanInv
<1>9. ASSUME NEW pois \in Lists, Monitor!EvaluateAll(latestPosition, pois, requests[i])
      PROVE  ScanInv'
  <2>1. /\ evaluation'.turn = 1 - evaluation.turn /\ evaluation'.targets = "all"
        /\ evaluation'.list = lastList' /\ listAround' = requests[i]
    BY <1>9 DEF Monitor!EvaluateAll, Monitor!Evaluate
  <2>2. evaluation'.turn \in {0, 1} /\ evaluation' # evaluation
    BY <2>1 DEF ScanInv, ScanTypes
  <2>3. ~TickWithoutBox
    BY <1>4, <2>1, ScanAssumption DEF TickWithoutBox
  <2>4. UNCHANGED tickRoute
    BY <1>1, <1>5, <2>3 DEF React, BuildFetchBox
  <2>5. Evaluate(lastList'.pois, lastList'.fetchedAt) /\ tickFailed' = FALSE
    BY <1>1, <2>1, <2>2 DEF React
  <2>6. ScanTypes'
    BY <1>6, <2>2, <2>5 DEF ScanInv, ScanTypes
  <2>7. BeforeFirstFix' /\ OutdatedRouteIsRescanned'
    BY <1>6, <1>7, <2>4 DEF ScanInv, BeforeFirstFix, OutdatedRouteIsRescanned
  <2>8. AlarmsOfTick'
    BY <2>5, EvaluatedAhead DEF AlarmsOfTick
  <2>9. QED
    BY <1>7, <2>6, <2>7, <2>8 DEF ScanInv
<1>10. QED
  BY <1>2, <1>8, <1>9 DEF Monitor!Failed, Monitor!Answered

\* The finally block: with nothing due, no scan is pending, so the route of the tick
\* is the one being followed.
LEMMA FinallyKeepsAlarms ==
    ASSUME ScanInv, Finally
    PROVE  ScanInv'
<1>1. Monitor!Finally /\ UNCHANGED readerVars /\ React
  BY DEF Finally, MonitorStep
<1> DEFINE due == ~stopped /\ (forcedTickPending \/ Monitor!ShouldTick(latestPosition))
<1>2. /\ settling /\ settling' = FALSE /\ tickInFlight /\ latestPosition \in Positions
      /\ UNCHANGED <<stopped, latestPosition, currentRoute, changed>> /\ changed' \in BOOLEAN
  BY <1>1 DEF Monitor!Finally, Monitor!fixVars, readerVars, cacheVars, ScanInv, ScanTypes, Slot,
     BeforeFirstFix
<1>3. requests = <<>>
  BY <1>2, FreeSlot
<1>4. CASE /\ ~due /\ tickInFlight' = FALSE
           /\ UNCHANGED <<forcedTickPending, lastTickPosition, lastTickTime, requests,
                          lastRequest, Monitor!evaluationVars, Monitor!listVars>>
  <2>1. UNCHANGED <<evaluation, lastList, requests, forcedTickPending>>
    BY <1>4 DEF Monitor!evaluationVars, Monitor!listVars
  <2>2. UNCHANGED <<tickRoute, tracker>> /\ tickFailed' = tickFailed
    BY <1>1, <1>2, <2>1, NoTick DEF ScanInv, ScanTypes
  <2>3. ScanTypes' /\ Slot'
    BY <1>2, <1>3, <1>4, <2>1, <2>2 DEF ScanInv, ScanTypes, Slot
  <2>4. BeforeFirstFix' /\ OutdatedRouteIsRescanned'
    BY <1>2, <1>4, <2>1, <2>2, ScanAssumption
    DEF ScanInv, BeforeFirstFix, OutdatedRouteIsRescanned
  <2>5. AlarmsOfTick'
    BY <1>2, <1>4, <2>1, <2>2 DEF ScanInv, AlarmsOfTick
  <2>6. QED
    BY <2>3, <2>4, <2>5 DEF ScanInv
<1>5. CASE /\ due /\ Monitor!RequestList(latestPosition)
           /\ UNCHANGED <<Monitor!evaluationVars, Monitor!listVars>>
  <2>1. UNCHANGED <<evaluation, lastList>> /\ evaluation'.turn \in {0, 1}
    BY <1>5 DEF Monitor!evaluationVars, Monitor!listVars, ScanInv, ScanTypes
  <2>2. QED
    BY <1>1, <1>2, <1>3, <1>5, <2>1, TickAsks
<1>6. CASE due /\ Monitor!TickWithoutBox(latestPosition)
  BY <1>1, <1>2, <1>3, <1>6, TickWithout
<1>7. QED
  BY <1>1, <1>4, <1>5, <1>6 DEF Monitor!Finally

\* A step of the reader: a changed route is told.
LEMMA ChangeIsTold ==
    ASSUME ScanInv, OnDelta \/ Continue
    PROVE  changed' \in BOOLEAN /\ (currentRoute' = currentRoute \/ changed' # changed)
<1>1. changed \in BOOLEAN
  BY DEF ScanInv, ScanTypes
<1>2. ASSUME NEW generation, NEW newest, NEW route, NEW how,
             ApplyRefresh(generation, newest, route, how)
      PROVE  changed' \in BOOLEAN /\ (currentRoute' = currentRoute \/ changed' # changed)
  <2>1. CASE readerStopped \/ generation # newest
    BY <1>1, <1>2, <2>1 DEF ApplyRefresh
  <2>2. CASE ~(readerStopped \/ generation # newest) /\ route = currentRoute
    BY <1>1, <1>2, <2>2 DEF ApplyRefresh
  <2>3. CASE ~(readerStopped \/ generation # newest) /\ route # currentRoute
    <3>1. changed' = ~changed
      BY <1>2, <2>3 DEF ApplyRefresh
    <3>2. CASE changed = TRUE
      <4>1. changed' = FALSE
        BY <3>1, <3>2
      <4>2. QED
        BY <3>2, <4>1
    <3>3. CASE changed = FALSE
      <4>1. changed' = TRUE
        BY <3>1, <3>3
      <4>2. QED
        BY <3>3, <4>1
    <3>4. QED
      BY <1>1, <3>2, <3>3
  <2>4. QED
    BY <2>1, <2>2, <2>3
<1>3. CASE OnDelta
  BY <1>1, <1>2, <1>3 DEF OnDelta, ClearRoute, ScheduleRefresh
<1>4. CASE Continue
  BY <1>1, <1>2, <1>4
  DEF Continue, ServerReads, CourseResolves, ResourceResolves, RefreshFails, Ends
<1>5. QED
  BY <1>3, <1>4

LEMMA ReaderKeepsAlarms ==
    ASSUME ScanInv, HearDelta \/ ContinueRefresh
    PROVE  ScanInv'
<1>1. /\ ~settling /\ React /\ (OnDelta \/ Continue)
      /\ IF changed' # changed THEN Monitor!RequestScan ELSE UNCHANGED monitorVars
  BY DEF HearDelta, ContinueRefresh, ReaderStep, Monitor!Idle
<1>2. changed' \in BOOLEAN /\ (currentRoute' = currentRoute \/ changed' # changed)
  BY <1>1, ChangeIsTold
<1> DEFINE served == ~tickInFlight /\ latestPosition # NoFix
<1>3. CASE changed' = changed
  <2>1. UNCHANGED monitorVars /\ UNCHANGED <<currentRoute, changed>>
    BY <1>1, <1>2, <1>3
  <2>2. UNCHANGED <<stopped, tickInFlight, forcedTickPending, latestPosition,
                    lastTickPosition, lastList, requests, settling, evaluation>>
    BY <2>1 DEF monitorVars
  <2>3. UNCHANGED <<tickRoute, tracker, tickFailed>>
    BY <1>1, <2>2, NoTick DEF ScanInv, ScanTypes
  <2>4. QED
    BY <2>1, <2>2, <2>3 DEF ScanInv, ScanTypes, Slot, BeforeFirstFix,
       OutdatedRouteIsRescanned, AlarmsOfTick, AheadOn
<1>4. CASE Monitor!RequestScan
  <2>1. /\ ~stopped /\ UNCHANGED <<stopped, latestPosition, settling>>
        /\ settling' = FALSE /\ latestPosition \in Positions \cup {NoFix}
    BY <1>1, <1>4 DEF Monitor!RequestScan, Monitor!fixVars, ScanInv, Slot, BeforeFirstFix
  <2>2. CASE /\ ~served /\ forcedTickPending' = TRUE
             /\ UNCHANGED <<tickInFlight, lastTickPosition, lastTickTime, requests,
                            lastRequest, Monitor!evaluationVars, Monitor!listVars>>
    <3>1. UNCHANGED <<evaluation, lastList, requests, tickInFlight, lastTickPosition>>
      BY <2>2 DEF Monitor!evaluationVars, Monitor!listVars
    <3>2. UNCHANGED <<tickRoute, tracker, tickFailed>>
      BY <1>1, <2>1, <3>1, NoTick DEF ScanInv, ScanTypes
    <3>3. ScanTypes' /\ Slot' /\ BeforeFirstFix' /\ OutdatedRouteIsRescanned'
      BY <1>2, <2>1, <2>2, <3>1, <3>2
      DEF ScanInv, ScanTypes, Slot, BeforeFirstFix, OutdatedRouteIsRescanned
    <3>4. AlarmsOfTick'
      BY <2>1, <3>1, <3>2 DEF ScanInv, AlarmsOfTick, AheadOn
    <3>5. QED
      BY <3>3, <3>4 DEF ScanInv
  <2>3. CASE /\ served /\ Monitor!RequestList(latestPosition)
             /\ UNCHANGED <<Monitor!evaluationVars, Monitor!listVars>>
    <3>1. UNCHANGED <<evaluation, lastList>> /\ evaluation'.turn \in {0, 1}
      BY <2>3 DEF Monitor!evaluationVars, Monitor!listVars, ScanInv, ScanTypes
    <3>2. QED
      BY <1>1, <1>2, <2>1, <2>3, <3>1, FreeSlot, TickAsks
  <2>4. CASE served /\ Monitor!TickWithoutBox(latestPosition)
    BY <1>1, <1>2, <2>1, <2>4, FreeSlot, TickWithout
  <2>5. QED
    BY <1>4, <2>2, <2>3, <2>4 DEF Monitor!RequestScan
<1>5. QED
  BY <1>1, <1>3, <1>4

LEMMA ScanInvStep ==
    ASSUME ScanInv, [ScanNext]_scanVars
    PROVE  ScanInv'
<1>1. CASE Advance
  <2>1. /\ React /\ UNCHANGED <<currentRoute, changed>>
        /\ UNCHANGED <<stopped, tickInFlight, forcedTickPending, latestPosition,
                       lastTickPosition, lastList, requests, settling, evaluation>>
    BY <1>1 DEF Advance, MonitorStep, Monitor!Advance, Monitor!tickVars, Monitor!evaluationVars,
       Monitor!listVars, Monitor!fixVars, readerVars, cacheVars
  <2>2. UNCHANGED <<tickRoute, tracker, tickFailed>>
    BY <2>1, NoTick DEF ScanInv, ScanTypes
  <2>3. QED
    BY <2>1, <2>2 DEF ScanInv, ScanTypes, Slot, BeforeFirstFix,
       OutdatedRouteIsRescanned, AlarmsOfTick, AheadOn
<1>2. CASE Stop
  <2>1. stopped' = TRUE /\ forcedTickPending' = FALSE
    BY <1>2 DEF Stop, Monitor!Stop
  <2>2. UNCHANGED <<tickInFlight, latestPosition, lastTickPosition, lastList, requests,
                    settling, evaluation, changed, tickFailed>>
    BY <1>2 DEF Stop, Monitor!Stop, StopReader, Monitor!evaluationVars, Monitor!listVars,
       Monitor!fixVars
  <2>3. QED
    BY <2>1, <2>2 DEF ScanInv, ScanTypes, Slot, BeforeFirstFix, OutdatedRouteIsRescanned,
       AlarmsOfTick
<1>3. CASE ServerStep \/ UNCHANGED scanVars
  <2>1. UNCHANGED <<currentRoute, changed, monitorVars, alarmVars>>
    BY <1>3 DEF ServerStep, scanVars, Activate, NextLeg, Cancel, Publish, readerVars, cacheVars
  <2>2. QED
    BY <2>1 DEF monitorVars, alarmVars, ScanInv, ScanTypes, Slot, BeforeFirstFix,
       OutdatedRouteIsRescanned, AlarmsOfTick, AheadOn
<1>4. QED
  BY <1>1, <1>2, <1>3, FixKeepsAlarms, SettleKeepsAlarms, FinallyKeepsAlarms,
     ReaderKeepsAlarms DEF ScanNext

\* What an evaluation raises and clears on the wire is what it adds to the tracker and
\* drops from it.
LEMMA EvaluatedShown ==
    ASSUME NEW pois, NEW fetchedAt, Evaluate(pois, fetchedAt),
           \A p \in Points : wire[p].state = "alarm" <=> p \in DOMAIN tracker
    PROVE  \A p \in Points : wire'[p].state = "alarm" <=> p \in DOMAIN tracker'
<1> DEFINE confirmed == Reconfirm(tracker, pois, fetchedAt)
           sounding == Flagged(Completed(tracker, pois, fetchedAt))
<1>1. DOMAIN confirmed = DOMAIN tracker
  BY DEF Reconfirm
<1>2. DOMAIN tracker' = sounding /\ wire' = NextWire(wire, confirmed, sounding, now)
  BY DEF Evaluate, NextTracker
<1>3. AlarmNotice(now).state = "alarm" /\ \A entry : ClearNotice(entry).state = "normal"
  BY DEF AlarmNotice, ClearNotice
<1> HIDE DEF confirmed, sounding
<1>4. TAKE p \in Points
<1>5. wire'[p] = CASE p \in sounding \ DOMAIN confirmed -> AlarmNotice(now)
                   [] p \in DOMAIN confirmed \ sounding -> ClearNotice(confirmed[p])
                   [] OTHER -> wire[p]
  BY <1>2 DEF NextWire
<1>6. CASE p \in sounding \ DOMAIN confirmed
  BY <1>2, <1>3, <1>5, <1>6
<1>7. CASE p \in DOMAIN confirmed \ sounding
  BY <1>2, <1>3, <1>5, <1>7
<1>8. CASE (p \in sounding) <=> (p \in DOMAIN confirmed)
  BY <1>1, <1>2, <1>5, <1>8
<1>9. QED
  BY <1>6, <1>7, <1>8

\* A monitor that has stopped evaluates nothing more, whatever was out.
LEMMA StoppedIsSilent ==
    ASSUME stopped, OnPosition \/ Settle \/ Finally \/ Advance \/ HearDelta \/ ContinueRefresh
    PROVE  stopped' = stopped /\ evaluation' = evaluation /\ React
<1>1. CASE Settle
  BY <1>1 DEF Settle, MonitorStep, Monitor!Settle, Monitor!Failed, Monitor!Answered,
     Monitor!Settles, Monitor!evaluationVars
<1>2. CASE Finally
  BY <1>2 DEF Finally, MonitorStep, Monitor!Finally, Monitor!evaluationVars
<1>3. CASE OnPosition \/ Advance
  BY <1>3 DEF OnPosition, Advance, MonitorStep, Monitor!OnPosition, Monitor!Advance,
     Monitor!evaluationVars
<1>4. CASE HearDelta \/ ContinueRefresh
  <2>1. React /\ UNCHANGED monitorVars
    BY <1>4 DEF HearDelta, ContinueRefresh, ReaderStep, Monitor!RequestScan
  <2>2. QED
    BY <2>1 DEF monitorVars
<1>5. QED
  BY <1>1, <1>2, <1>3, <1>4

\* Nothing but the teardown stops a monitor.
LEMMA StepsGoOn ==
    ASSUME OnPosition \/ Settle \/ Finally \/ Advance \/ HearDelta \/ ContinueRefresh
    PROVE  stopped' = stopped /\ React
<1>1. CASE Settle
  BY <1>1 DEF Settle, MonitorStep, Monitor!Settle, Monitor!Failed, Monitor!Answered,
     Monitor!Settles
<1>2. CASE OnPosition \/ Finally \/ Advance
  BY <1>2 DEF OnPosition, Finally, Advance, MonitorStep, Monitor!OnPosition,
     Monitor!Finally, Monitor!Advance
<1>3. CASE HearDelta \/ ContinueRefresh
  BY <1>3 DEF HearDelta, ContinueRefresh, ReaderStep, Monitor!RequestScan, monitorVars
<1>4. QED
  BY <1>1, <1>2, <1>3

LEMMA ShownStep ==
    ASSUME AlarmsAreShown, [ScanNext]_scanVars
    PROVE  AlarmsAreShown'
<1>1. CASE OnPosition \/ Settle \/ Finally \/ Advance \/ HearDelta \/ ContinueRefresh
  <2>1. stopped' = stopped /\ React /\ (stopped => evaluation' = evaluation)
    BY <1>1, StepsGoOn, StoppedIsSilent
  <2>2. CASE evaluation' # evaluation /\ evaluation'.targets = "all"
    <3>1. Evaluate(evaluation'.list.pois, evaluation'.list.fetchedAt)
      BY <2>1, <2>2 DEF React
    <3>2. \A p \in Points : wire'[p].state = "alarm" <=> p \in DOMAIN tracker'
      BY <3>1, EvaluatedShown DEF AlarmsAreShown
    <3>3. QED
      BY <2>1, <2>2, <3>2 DEF AlarmsAreShown
  <2>3. CASE ~(evaluation' # evaluation /\ evaluation'.targets = "all")
    <3>1. UNCHANGED <<tracker, wire>>
      BY <2>1, <2>3 DEF React
    <3>2. QED
      BY <2>1, <3>1 DEF AlarmsAreShown
  <2>4. QED
    BY <2>2, <2>3
<1>2. CASE Stop
  <2>1. DOMAIN tracker' = {} /\ wire' = NextWire(wire, tracker, {}, 0)
    BY <1>2 DEF Stop, NoAlarms, ClearedWire
  <2>2. ASSUME NEW p \in Points PROVE wire'[p].state # "alarm"
    <3>1. CASE p \in DOMAIN tracker
      <4>1. wire'[p] = ClearNotice(tracker[p])
        BY <2>1, <3>1 DEF NextWire
      <4>2. ClearNotice(tracker[p]).state = "normal"
        BY DEF ClearNotice
      <4>3. QED
        BY <4>1, <4>2
    <3>2. CASE p \notin DOMAIN tracker
      <4>1. wire'[p] = wire[p]
        BY <2>1, <3>2 DEF NextWire
      <4>2. QED
        BY <3>2, <4>1 DEF AlarmsAreShown
    <3>3. QED
      BY <3>1, <3>2
  <2>3. QED
    BY <2>1, <2>2 DEF AlarmsAreShown
<1>3. CASE ServerStep \/ UNCHANGED scanVars
  <2>1. UNCHANGED <<monitorVars, alarmVars>>
    BY <1>3 DEF ServerStep, scanVars
  <2>2. QED
    BY <2>1 DEF monitorVars, alarmVars, AlarmsAreShown
<1>4. QED
  BY <1>1, <1>2, <1>3 DEF ScanNext

\* A route the alarms were not evaluated for is scanned, and with no request out and
\* the last one answered the alarms are those of the route being followed; the server
\* shows these and none after the teardown (route-hazard-output.ts: buildFetchBox,
\* evaluate, stop; position-monitor.ts: requestScan).
THEOREM AlarmsAreOfTheRoute == ScanSpec => []AlarmsFollowRoute
<1>1. ASSUME ScanInit PROVE ScanInv /\ AlarmsAreShown
  <2>1. /\ requests = <<>> /\ ~settling /\ ~tickInFlight /\ ~forcedTickPending /\ ~stopped
        /\ settling \in BOOLEAN /\ tickInFlight \in BOOLEAN
        /\ latestPosition = NoFix /\ lastTickPosition = NoFix /\ lastList.pois = NoAnswer
        /\ evaluation.turn = 0 /\ changed = FALSE /\ tickFailed = FALSE
        /\ forcedTickPending = FALSE /\ stopped = FALSE
    BY <1>1 DEF ScanInit, ReaderInit, Monitor!Init, Monitor!NoList
  <2>2. ScanTypes
    BY <2>1 DEF ScanTypes
  <2>3. Slot
    BY <2>1 DEF Slot
  <2>4. BeforeFirstFix /\ OutdatedRouteIsRescanned /\ AlarmsOfTick
    BY <2>1 DEF BeforeFirstFix, OutdatedRouteIsRescanned, AlarmsOfTick
  <2>5. AlarmsAreShown
    BY <1>1 DEF ScanInit, AlarmsAreShown, NoAlarms, Silent
  <2>6. QED
    BY <2>2, <2>3, <2>4, <2>5 DEF ScanInv
<1>2. ASSUME ScanInv, AlarmsAreShown PROVE AlarmsFollowRoute
  <2>1. lastList.pois # NoAnswer => latestPosition # NoFix
    BY <1>2 DEF ScanInv, BeforeFirstFix
  <2>2. ASSUME ~stopped, ~tickInFlight, lastList.pois # NoAnswer PROVE tickRoute = currentRoute
    BY <1>2, <2>1, <2>2 DEF ScanInv, OutdatedRouteIsRescanned
  <2>3. AlarmsAreAhead
    BY <1>2, <2>2 DEF ScanInv, AlarmsOfTick, AlarmsAreAhead
  <2>4. QED
    BY <1>2, <2>3 DEF ScanInv, AlarmsFollowRoute
<1>3. QED
  BY <1>1, <1>2, ScanInvStep, ShownStep, PTL DEF ScanSpec

-----------------------------------------------------------------------------
(* The output drives the two it joins by their own operations alone.        *)

\* The output implements the reader: every step of the two together is a step of the
\* reader or none of its (route-hazard-output.ts: start, stop), so that the cached route
\* is the course, and a cancelled one stays out, with the monitor behind it as well.
THEOREM OutputRefinesReader ==
    ScanSpec => ReaderInit /\ [][ReaderNext]_readerVars /\ []CacheIsCourse /\ NoResurrection
<1>1. ScanInit => ReaderInit
  BY DEF ScanInit
<1>2. ASSUME [ScanNext]_scanVars PROVE [ReaderNext]_readerVars
  <2>1. CASE OnPosition \/ Settle \/ Finally \/ Advance
    BY <2>1 DEF OnPosition, Settle, Finally, Advance, MonitorStep
  <2>2. CASE HearDelta \/ ContinueRefresh
    BY <2>2 DEF HearDelta, ContinueRefresh, ReaderStep, ReaderNext
  <2>3. CASE ServerStep \/ Stop
    BY <2>3 DEF ServerStep, Stop, ReaderNext
  <2>4. CASE UNCHANGED scanVars
    BY <2>4 DEF scanVars
  <2>5. QED
    BY <1>2, <2>1, <2>2, <2>3, <2>4 DEF ScanNext
<1>3. QED
  BY <1>1, <1>2, CacheFollowsCourse, ClearedRoutesStayCleared, PTL DEF ScanSpec

\* The output implements the monitor: it has no list and no tick but those that a fix, a
\* scan asked for or an answer brings (position-monitor.ts: handle; route-hazard-output.ts:
\* start), so that what is proved of every monitor holds of this one.
THEOREM OutputRefinesMonitor == ScanSpec => Monitor!Spec
<1>1. ScanInit => Monitor!Init
  BY DEF ScanInit
<1>2. ASSUME [ScanNext]_scanVars PROVE [Monitor!Next]_(Monitor!vars)
  <2>1. CASE OnPosition \/ Settle \/ Finally \/ Advance
    BY <2>1 DEF OnPosition, Settle, Finally, Advance, MonitorStep, Monitor!Next
  <2>2. CASE HearDelta \/ ContinueRefresh
    <3>1. Monitor!RequestScan \/ UNCHANGED monitorVars
      BY <2>2 DEF HearDelta, ContinueRefresh, ReaderStep
    <3>2. QED
      BY <3>1 DEF Monitor!Next, Monitor!vars, Monitor!tickVars, Monitor!evaluationVars,
         Monitor!listVars, Monitor!fixVars, monitorVars
  <2>3. CASE Stop
    BY <2>3 DEF Stop, Monitor!Next
  <2>4. CASE ServerStep \/ UNCHANGED scanVars
    <3>1. UNCHANGED monitorVars
      BY <2>4 DEF ServerStep, scanVars
    <3>2. QED
      BY <3>1 DEF Monitor!vars, Monitor!tickVars, Monitor!evaluationVars,
         Monitor!listVars, Monitor!fixVars, monitorVars
  <2>5. QED
    BY <1>2, <2>1, <2>2, <2>3, <2>4 DEF ScanNext
<1>3. QED
  BY <1>1, <1>2, PTL DEF ScanSpec, Monitor!Spec

-----------------------------------------------------------------------------
(* The corridor of a route, one leg after the other.  What is true of every *)
(* leg is true by induction on the legs, which is a least counterexample.   *)

\* A set with 0 and the successor of each of its numbers holds every number.
LEMMA SetInduction ==
    ASSUME NEW S, 0 \in S, \A n \in Nat : n \in S => n + 1 \in S
    PROVE  Nat \subseteq S
<1>1. SUFFICES ASSUME Nat \ S # {} PROVE FALSE
  OBVIOUS
<1>2. PICK x \in Nat \ S : \A y \in Nat \ S : ~(<<y, x>> \in OpToRel(<, Nat))
  BY <1>1, WFMin, NatLessThanWellFounded
<1>3. x # 0 /\ x - 1 \in Nat /\ x - 1 < x
  OBVIOUS
<1>4. <<x - 1, x>> \in OpToRel(<, Nat)
  BY <1>3 DEF OpToRel
<1>5. x - 1 \in S
  BY <1>2, <1>3, <1>4
<1>6. x - 1 + 1 \in S
  BY <1>3, <1>5
<1>7. QED
  BY <1>6

\* The lengths of any legs add up, one after the other.
LEMMA SumsExist ==
    ASSUME NEW m \in Nat, NEW leg \in [1..m -> Nat]
    PROVE  \E f \in [0..m -> Nat] : f = [i \in 0..m |-> IF i = 0 THEN 0 ELSE f[i - 1] + leg[i]]
<1> DEFINE Sums(k) == \E f \in [0..k -> Nat] :
                         f = [i \in 0..k |-> IF i = 0 THEN 0 ELSE f[i - 1] + leg[i]]
<1> DEFINE S == {k \in Nat : k <= m => Sums(k)}
<1>1. 0 \in S
  <2>1. \E f \in [0..0 -> Nat] : f = [i \in 0..0 |-> IF i = 0 THEN 0 ELSE f[i - 1] + leg[i]]
    <3> DEFINE f == [i \in 0..0 |-> 0]
    <3>1. f \in [0..0 -> Nat] /\ f = [i \in 0..0 |-> IF i = 0 THEN 0 ELSE f[i - 1] + leg[i]]
      OBVIOUS
    <3>2. QED
      BY <3>1
  <2>2. QED
    BY <2>1
<1>2. ASSUME NEW k \in Nat, k \in S PROVE k + 1 \in S
  <2>1. SUFFICES ASSUME k + 1 <= m PROVE Sums(k + 1)
    <3> HIDE DEF Sums
    <3>1. QED
      OBVIOUS
  <2>2. PICK f \in [0..k -> Nat] : f = [i \in 0..k |-> IF i = 0 THEN 0 ELSE f[i - 1] + leg[i]]
    <3>1. Sums(k)
      <4> HIDE DEF Sums
      <4>1. QED
        BY <1>2, <2>1
    <3>2. QED
      BY <3>1
  <2> DEFINE g == [i \in 0..(k + 1) |-> IF i = k + 1 THEN f[k] + leg[k + 1] ELSE f[i]]
  <2>3. g \in [0..(k + 1) -> Nat]
    BY SMTT(20), <2>1
  <2>4. ASSUME NEW i \in 0..(k + 1)
        PROVE  g[i] = IF i = 0 THEN 0 ELSE g[i - 1] + leg[i]
    <3>1. CASE i = k + 1
      BY <3>1
    <3>2. CASE i # k + 1
      <4>1. i \in 0..k /\ (i # 0 => i - 1 \in 0..k /\ i - 1 # k + 1)
        BY <3>2
      <4>2. g[i] = f[i] /\ (i # 0 => g[i - 1] = f[i - 1])
        BY <4>1
      <4>3. f[i] = IF i = 0 THEN 0 ELSE f[i - 1] + leg[i]
        BY <2>2, <4>1
      <4>4. QED
        BY <4>2, <4>3
    <3>3. QED
      BY <3>1, <3>2
  <2>5. g = [i \in 0..(k + 1) |-> IF i = 0 THEN 0 ELSE g[i - 1] + leg[i]]
    <3>1. g = [i \in 0..(k + 1) |-> g[i]]
      OBVIOUS
    <3> HIDE DEF g
    <3>2. QED
      BY <2>4, <3>1
  <2>6. QED
    BY <2>3, <2>5
<1> HIDE DEF S
<1>3. m \in S
  BY <1>1, <1>2, SetInduction
<1>4. Sums(m)
  <2> HIDE DEF Sums
  <2>1. QED
    BY <1>3 DEF S
<1>5. QED
  BY <1>4

\* What the route is, and stays.
RouteShape ==
    /\ legPoints \in Seq(Turns) /\ Len(legPoints) >= 2
    /\ \A i \in 1..(Len(legPoints) - 1) : Along(legPoints[i], legPoints[i + 1])

LEMMA PointShape ==
    ASSUME RouteShape, NEW i \in 1..Len(legPoints)
    PROVE  legPoints[i][1] \in Int /\ legPoints[i][2] \in Int
           /\ legPoints[i] = <<legPoints[i][1], legPoints[i][2]>>
<1>1. legPoints[i] \in Int \X Int
  BY CorridorAssumption DEF RouteShape
<1>2. QED
  BY <1>1

LEMMA LegShape == ASSUME RouteShape, NEW i \in 1..Len(legPoints) PROVE LegTo(i) \in Nat
<1>1. CASE i = 1
  BY <1>1 DEF LegTo
<1>2. CASE i # 1
  <2>1. i - 1 \in 1..Len(legPoints) /\ LegTo(i) = LegLength(legPoints[i - 1], legPoints[i])
    BY <1>2 DEF LegTo, RouteShape
  <2>2. QED
    BY SMTT(20), <2>1, PointShape DEF LegLength, Magnitude
<1>3. QED
  BY <1>1, <1>2

LEMMA Lengths ==
    ASSUME RouteShape
    PROVE  /\ LengthUpTo[0] = 0
           /\ \A i \in 0..Len(legPoints) : LengthUpTo[i] \in Nat
           /\ \A i \in 1..Len(legPoints) : LengthUpTo[i] = LengthUpTo[i - 1] + LegTo(i)
<1> DEFINE m == Len(legPoints)
<1> DEFINE leg == [i \in 1..m |-> LegTo(i)]
<1> DEFINE Sums(f) == f = [i \in 0..m |-> IF i = 0 THEN 0 ELSE f[i - 1] + LegTo(i)]
<1>0. m \in Nat
  BY DEF RouteShape
<1>1. leg \in [1..m -> Nat]
  BY LegShape
<1>2. PICK f \in [0..m -> Nat] : f = [i \in 0..m |-> IF i = 0 THEN 0 ELSE f[i - 1] + leg[i]]
  <2> HIDE DEF leg, m
  <2>1. QED
    BY <1>0, <1>1, SumsExist
<1>3. \A i \in 0..m : i # 0 => leg[i] = LegTo(i)
  BY <1>0
<1>4. Sums(f)
  <2> HIDE DEF leg, m
  <2>1. QED
    BY <1>2, <1>3
<1>5. LengthUpTo = CHOOSE g : Sums(g)
  BY DEF LengthUpTo
<1>6. Sums(LengthUpTo)
  <2> HIDE DEF Sums
  <2>1. QED
    BY <1>4, <1>5
<1>7. LengthUpTo = [i \in 0..m |-> IF i = 0 THEN 0 ELSE LengthUpTo[i - 1] + LegTo(i)]
  BY <1>6
<1>8. LengthUpTo[0] = 0 /\ \A i \in 1..m : LengthUpTo[i] = LengthUpTo[i - 1] + LegTo(i)
  <2> HIDE DEF m
  <2>1. QED
    BY <1>0, <1>7
<1> DEFINE S == {i \in Nat : i <= m => LengthUpTo[i] \in Nat}
<1>9. 0 \in S /\ \A i \in Nat : i \in S => i + 1 \in S
  <2> HIDE DEF m
  <2>1. 0 \in S
    BY <1>8
  <2>2. ASSUME NEW i \in Nat, i \in S, i + 1 <= m PROVE LengthUpTo[i + 1] \in Nat
    <3>1. i + 1 \in 1..m /\ i + 1 - 1 = i
      BY <1>0, <2>2
    <3>2. LengthUpTo[i + 1] = LengthUpTo[i + 1 - 1] + LegTo(i + 1)
      BY <1>8, <3>1
    <3>3. LegTo(i + 1) \in Nat
      BY <3>1, LegShape DEF m
    <3>4. QED
      BY <2>2, <3>1, <3>2, <3>3, <1>0
  <2>3. QED
    BY <2>1, <2>2
<1> HIDE DEF S
<1>10. Nat \subseteq S
  BY <1>9, SetInduction
<1>11. QED
  BY <1>0, <1>8, <1>10 DEF S

\* The point of a leg that lies so far along it.
PointAt(i, along) ==
    <<legPoints[i][1] + along * Heading(legPoints[i], legPoints[i + 1])[1],
      legPoints[i][2] + along * Heading(legPoints[i], legPoints[i + 1])[2]>>

\* A leg runs along one axis, its length being where it gets to.
LEMMA HeadingShape ==
    ASSUME NEW a \in Int \X Int, NEW b \in Int \X Int, Along(a, b)
    PROVE  /\ LegLength(a, b) \in Nat
           /\ \/ LegLength(a, b) = 0 /\ a = b /\ Heading(a, b) = <<0, 0>>
              \/ Heading(a, b) = <<1, 0>> /\ b = <<a[1] + LegLength(a, b), a[2]>>
              \/ Heading(a, b) = <<-1, 0>> /\ b = <<a[1] - LegLength(a, b), a[2]>>
              \/ Heading(a, b) = <<0, 1>> /\ b = <<a[1], a[2] + LegLength(a, b)>>
              \/ Heading(a, b) = <<0, -1>> /\ b = <<a[1], a[2] - LegLength(a, b)>>
<1>1. /\ a[1] \in Int /\ a[2] \in Int /\ b[1] \in Int /\ b[2] \in Int
      /\ a = <<a[1], a[2]>> /\ b = <<b[1], b[2]>>
  OBVIOUS
<1>2. CASE a[1] = b[1]
  BY <1>1, <1>2 DEF Heading, Sign, LegLength, Magnitude
<1>3. CASE a[1] # b[1]
  BY <1>1, <1>3 DEF Heading, Sign, LegLength, Magnitude, Along
<1>4. QED
  BY <1>2, <1>3

LEMMA LegHeading ==
    ASSUME RouteShape, NEW i \in 1..(Len(legPoints) - 1)
    PROVE  /\ i \in 1..Len(legPoints) /\ i + 1 \in 1..Len(legPoints)
           /\ legPoints[i] \in Int \X Int /\ legPoints[i + 1] \in Int \X Int
           /\ Along(legPoints[i], legPoints[i + 1])
           /\ LegTo(i + 1) = LegLength(legPoints[i], legPoints[i + 1])
<1>1. i \in 1..Len(legPoints) /\ i + 1 \in 1..Len(legPoints) /\ i + 1 - 1 = i /\ i + 1 # 1
  BY DEF RouteShape
<1>2. legPoints[i] \in Int \X Int /\ legPoints[i + 1] \in Int \X Int
  <2>1. legPoints[i] \in Turns /\ legPoints[i + 1] \in Turns
    BY <1>1 DEF RouteShape
  <2>2. QED
    BY <2>1, CorridorAssumption
<1>3. LegTo(i + 1) = LegLength(legPoints[i], legPoints[i + 1])
  BY <1>1 DEF LegTo
<1>4. QED
  BY <1>1, <1>2, <1>3 DEF RouteShape

\* The box reaches the half-width beyond the point on every side.
Holds(b, p) ==
    /\ b \in [west: Int, east: Int, south: Int, north: Int]
    /\ b.west <= p[1] - HalfWidth /\ p[1] + HalfWidth <= b.east
    /\ b.south <= p[2] - HalfWidth /\ p[2] + HalfWidth <= b.north

LEMMA HullHolds ==
    ASSUME NEW b, NEW p \in Int \X Int,
           b = NoBox \/ b \in [west: Int, east: Int, south: Int, north: Int]
    PROVE  /\ Holds(Hull(b, p), p)
           /\ \A q \in Int \X Int : Holds(b, q) => Holds(Hull(b, p), q)
<1>1. p[1] \in Int /\ p[2] \in Int /\ HalfWidth \in Nat
  BY CorridorAssumption
<1>2. CASE b = NoBox
  BY <1>1, <1>2, CorridorAssumption DEF Hull, Around, Holds
<1>3. CASE b # NoBox
  <2>1. b \in [west: Int, east: Int, south: Int, north: Int]
    BY <1>3
  <2>2. /\ b.west \in Int /\ b.east \in Int /\ b.south \in Int /\ b.north \in Int
    BY <2>1
  <2> DEFINE hull == [west |-> Lower(b.west, Around(p).west), east |-> Higher(b.east, Around(p).east),
                      south |-> Lower(b.south, Around(p).south),
                      north |-> Higher(b.north, Around(p).north)]
  <2>3. Hull(b, p) = hull
    BY <1>3 DEF Hull
  <2>4. /\ hull.west = Lower(b.west, p[1] - HalfWidth) /\ hull.east = Higher(b.east, p[1] + HalfWidth)
        /\ hull.south = Lower(b.south, p[2] - HalfWidth)
        /\ hull.north = Higher(b.north, p[2] + HalfWidth)
        /\ hull = [west |-> hull.west, east |-> hull.east, south |-> hull.south, north |-> hull.north]
    BY DEF Around
  <2> HIDE DEF hull
  <2>5. hull \in [west: Int, east: Int, south: Int, north: Int]
    BY <1>1, <2>2, <2>4 DEF Lower, Higher
  <2>6. Holds(hull, p)
    BY <1>1, <2>2, <2>4, <2>5 DEF Holds, Lower, Higher
  <2>7. ASSUME NEW q \in Int \X Int, Holds(b, q) PROVE Holds(hull, q)
    BY <1>1, <2>2, <2>4, <2>5, <2>7 DEF Holds, Lower, Higher
  <2>8. QED
    BY <2>3, <2>6, <2>7
<1>4. QED
  BY <1>2, <1>3

LEMMA SideBetween ==
    ASSUME NEW low \in Int, NEW high \in Int, NEW x \in Int, NEW y \in Int, NEW z \in Int,
           NEW reach \in Nat,
           low <= x - reach, x + reach <= high, low <= z - reach, z + reach <= high,
           (x <= y /\ y <= z) \/ (z <= y /\ y <= x)
    PROVE  low <= y - reach /\ y + reach <= high
  OBVIOUS

\* A box that holds two points of a leg holds what lies between them.
LEMMA HoldsBetween ==
    ASSUME RouteShape, NEW i \in 1..(Len(legPoints) - 1), NEW b, NEW far \in Nat, NEW along \in 0..far,
           Holds(b, legPoints[i]), Holds(b, PointAt(i, far))
    PROVE  Holds(b, PointAt(i, along))
<1> DEFINE a == legPoints[i]
<1> DEFINE h == Heading(legPoints[i], legPoints[i + 1])
<1>1. a[1] \in Int /\ a[2] \in Int
  BY LegHeading
<1>2. \/ h = <<0, 0>> \/ h = <<1, 0>> \/ h = <<-1, 0>> \/ h = <<0, 1>> \/ h = <<0, -1>>
  BY LegHeading, HeadingShape
<1>3. HalfWidth \in Nat /\ far \in Nat /\ along \in Nat /\ along <= far
  BY CorridorAssumption
<1>4. \A d \in Nat : PointAt(i, d)[1] = a[1] + d * h[1] /\ PointAt(i, d)[2] = a[2] + d * h[2]
  BY DEF PointAt
<1>5. b \in [west: Int, east: Int, south: Int, north: Int]
  BY DEF Holds
<1>6. b.west \in Int /\ b.east \in Int /\ b.south \in Int /\ b.north \in Int
  BY <1>5
<1>7. h[1] \in {-1, 0, 1} /\ h[2] \in {-1, 0, 1}
  BY <1>2
<1>8. Holds(b, a) /\ Holds(b, PointAt(i, far))
  OBVIOUS
<1> HIDE DEF a, h
<1>9. ASSUME NEW axis \in {1, 2}
      PROVE  /\ PointAt(i, along)[axis] \in Int
             /\ \/ a[axis] <= PointAt(i, along)[axis]
                   /\ PointAt(i, along)[axis] <= PointAt(i, far)[axis]
                \/ PointAt(i, far)[axis] <= PointAt(i, along)[axis]
                   /\ PointAt(i, along)[axis] <= a[axis]
  <2>1. \A d \in Nat : PointAt(i, d)[axis] = a[axis] + d * h[axis]
    BY <1>4
  <2>2. h[axis] \in {-1, 0, 1} /\ a[axis] \in Int
    BY <1>1, <1>7
  <2>3. CASE h[axis] = 0
    BY <1>3, <2>1, <2>2, <2>3
  <2>4. CASE h[axis] = 1
    BY SMTT(20), <1>3, <2>1, <2>2, <2>4
  <2>5. CASE h[axis] = -1
    <3>1. \A d \in Nat : d * (-1) = -d
      OBVIOUS
    <3>2. \A d \in Nat : PointAt(i, d)[axis] = a[axis] - d
      BY <2>1, <2>2, <2>5, <3>1
    <3>3. QED
      BY <1>3, <2>2, <3>2
  <2>6. QED
    BY <2>2, <2>3, <2>4, <2>5
<1>10. PointAt(i, far)[1] \in Int /\ PointAt(i, far)[2] \in Int
  <2>1. \A axis \in {1, 2} : PointAt(i, far)[axis] = a[axis] + far * h[axis]
    BY <1>3, <1>4
  <2>2. QED
    BY SMTT(20), <1>1, <1>3, <1>7, <2>1
<1> DEFINE p == PointAt(i, along)
<1> DEFINE q == PointAt(i, far)
<1>11. /\ p[1] \in Int /\ ((a[1] <= p[1] /\ p[1] <= q[1]) \/ (q[1] <= p[1] /\ p[1] <= a[1]))
       /\ p[2] \in Int /\ ((a[2] <= p[2] /\ p[2] <= q[2]) \/ (q[2] <= p[2] /\ p[2] <= a[2]))
  BY <1>9
<1>12. q[1] \in Int /\ q[2] \in Int /\ Holds(b, q)
  BY <1>8, <1>10
<1> HIDE DEF p, q
<1>13. /\ b.west <= p[1] - HalfWidth /\ p[1] + HalfWidth <= b.east
       /\ b.south <= p[2] - HalfWidth /\ p[2] + HalfWidth <= b.north
  <2>1. /\ b.west <= a[1] - HalfWidth /\ a[1] + HalfWidth <= b.east
        /\ b.south <= a[2] - HalfWidth /\ a[2] + HalfWidth <= b.north
    BY <1>8 DEF Holds
  <2>2. /\ b.west <= q[1] - HalfWidth /\ q[1] + HalfWidth <= b.east
        /\ b.south <= q[2] - HalfWidth /\ q[2] + HalfWidth <= b.north
    BY <1>12 DEF Holds
  <2>3. b.west <= p[1] - HalfWidth /\ p[1] + HalfWidth <= b.east
    BY <1>1, <1>3, <1>6, <1>11, <1>12, <2>1, <2>2, SideBetween
  <2>4. b.south <= p[2] - HalfWidth /\ p[2] + HalfWidth <= b.north
    <3> DEFINE low == b.south
    <3> DEFINE high == b.north
    <3> DEFINE x == a[2]
    <3> DEFINE y == p[2]
    <3> DEFINE z == q[2]
    <3>1. low \in Int /\ high \in Int /\ x \in Int /\ y \in Int /\ z \in Int /\ HalfWidth \in Nat
      BY <1>1, <1>3, <1>6, <1>11, <1>12
    <3>2. (x <= y /\ y <= z) \/ (z <= y /\ y <= x)
      BY <1>11
    <3>3. low <= x - HalfWidth /\ x + HalfWidth <= high /\ low <= z - HalfWidth /\ z + HalfWidth <= high
      BY <2>1, <2>2
    <3> HIDE DEF low, high, x, y, z
    <3>4. low <= y - HalfWidth /\ y + HalfWidth <= high
      BY <3>1, <3>2, <3>3
    <3>5. QED
      BY <3>4 DEF low, high, y
  <2>5. QED
    BY <2>3, <2>4
<1>14. QED
  BY <1>5, <1>13 DEF Holds, p

\* What is later on the route lies no nearer along it, and is the same place if it lies as near.
LEMMA LaterOnRoute ==
    ASSUME RouteShape, NEW k \in 1..Len(legPoints)
    PROVE  \A i \in k..Len(legPoints) :
              /\ LengthUpTo[i] >= LengthUpTo[k]
              /\ LengthUpTo[i] = LengthUpTo[k] => legPoints[i] = legPoints[k]
<1> DEFINE Later(i) == /\ LengthUpTo[i] >= LengthUpTo[k]
                       /\ LengthUpTo[i] = LengthUpTo[k] => legPoints[i] = legPoints[k]
<1> DEFINE S == {d \in Nat : k + d <= Len(legPoints) => Later(k + d)}
<1>0. Len(legPoints) \in Nat /\ k \in Nat /\ LengthUpTo[k] \in Nat
  BY Lengths DEF RouteShape
<1>1. 0 \in S
  BY <1>0
<1>2. ASSUME NEW d \in Nat, d \in S, k + (d + 1) <= Len(legPoints) PROVE Later(k + (d + 1))
  <2> DEFINE i == k + d
  <2>1. /\ i \in 1..(Len(legPoints) - 1) /\ i \in 0..Len(legPoints) /\ i + 1 = k + (d + 1)
        /\ i + 1 \in 1..Len(legPoints) /\ i + 1 - 1 = i /\ k + d <= Len(legPoints)
        /\ i + 1 \in 0..Len(legPoints)
    BY <1>0, <1>2
  <2>2. Later(i)
    BY <1>2, <2>1
  <2> HIDE DEF i
  <2>3. /\ LengthUpTo[i + 1] = LengthUpTo[i] + LegTo(i + 1)
        /\ LengthUpTo[i] \in Nat
    BY <2>1, Lengths
  <2>4. LegTo(i + 1) \in Nat /\ (LegTo(i + 1) = 0 => legPoints[i + 1] = legPoints[i])
    <3>1. /\ legPoints[i] \in Int \X Int /\ legPoints[i + 1] \in Int \X Int
          /\ LegTo(i + 1) = LegLength(legPoints[i], legPoints[i + 1])
          /\ Along(legPoints[i], legPoints[i + 1])
      BY <2>1, LegHeading
    <3> DEFINE a == legPoints[i]
    <3> DEFINE b == legPoints[i + 1]
    <3> HIDE DEF a, b
    <3>2. /\ a[1] \in Int /\ a[2] \in Int /\ b[1] \in Int /\ b[2] \in Int
          /\ a = <<a[1], a[2]>> /\ b = <<b[1], b[2]>>
      BY <3>1 DEF a, b
    <3>3. LegLength(a, b) \in Nat /\ (LegLength(a, b) = 0 => a[1] = b[1] /\ a[2] = b[2])
      <4>1. \A m, n \in Int : /\ Magnitude(m - n) \in Nat
                              /\ Magnitude(m - n) = 0 => m = n
        BY DEF Magnitude
      <4>2. /\ Magnitude(a[1] - b[1]) \in Nat /\ (Magnitude(a[1] - b[1]) = 0 => a[1] = b[1])
            /\ Magnitude(a[2] - b[2]) \in Nat /\ (Magnitude(a[2] - b[2]) = 0 => a[2] = b[2])
        BY <3>2, <4>1
      <4>3. LegLength(a, b) = Magnitude(a[1] - b[1]) + Magnitude(a[2] - b[2])
        BY DEF LegLength
      <4>4. QED
        BY <4>2, <4>3
    <3>4. LegLength(a, b) = 0 => a = b
      BY <3>2, <3>3
    <3>5. QED
      BY <3>1, <3>3, <3>4 DEF a, b
  <2>5. QED
    BY <1>0, <2>1, <2>2, <2>3, <2>4
<1> HIDE DEF Later
<1>3. \A d \in Nat : d \in S => d + 1 \in S
  BY <1>2
<1> HIDE DEF S
<1>4. Nat \subseteq S
  BY <1>1, <1>3, SetInduction
<1>5. ASSUME NEW i \in k..Len(legPoints) PROVE Later(i)
  <2>1. i - k \in Nat /\ k + (i - k) = i
    BY <1>0
  <2>2. QED
    BY <1>4, <2>1 DEF S
<1>6. QED
  BY <1>5 DEF Later

Boxes == [west: Int, east: Int, south: Int, north: Int]

\* The box holds the legs before this one, and while the look-ahead has not ended its first point.
BoxSoFar ==
    /\ next \in 1..(Len(legPoints) + 1) /\ travelled \in Nat /\ (box = NoBox \/ box \in Boxes)
    /\ \/ next = 1 /\ travelled = 0
       \/ /\ next > 1 /\ next <= Len(legPoints)
          /\ travelled = LengthUpTo[next - 1] /\ travelled < LookAhead
          /\ Holds(box, legPoints[next - 1])
          /\ \A i \in 1..(next - 2) : \A along \in 0..LegTo(i + 1) : Holds(box, PointAt(i, along))
       \/ next = Len(legPoints) + 1

\* The box holds the route as far as it was asked for.
BoxHoldsRoute ==
    \A i \in 1..(Len(legPoints) - 1) : \A along \in 0..LegTo(i + 1) :
        LengthUpTo[i] + along <= asked => Holds(box, PointAt(i, along))

\* What the legs before this one flag.
FlaggedBefore(k) ==
    /\ DOMAIN flagged = {p \in Sea \X CorridorKinds : \E i \in LegsBeside(p[1]) : i < k}
    /\ \A p \in DOMAIN flagged :
          /\ \E j \in LegsBeside(p[1]) : j < k /\ flagged[p] = OnLeg(j, p[1])
          /\ \A i \in LegsBeside(p[1]) : i < k => NotWorse(flagged[p], OnLeg(i, p[1]))

CorridorInv ==
    /\ RouteShape
    /\ phase \in {"box", "scan", "done"} /\ asked \in Int
    /\ phase = "box" => asked = LookAhead
    /\ phase = "box" => BoxSoFar /\ flagged = <<>> /\ (next > Len(legPoints) => BoxHoldsRoute)
    /\ phase # "box" => BoxHoldsRoute
    /\ phase = "scan" => /\ next \in 1..Len(legPoints) /\ travelled = LengthUpTo[next]
                         /\ FlaggedBefore(next)
    /\ phase = "done" => ScanIsExact

LEMMA CorridorInvInit == CorridorInit => CorridorInv
<1> SUFFICES ASSUME CorridorInit PROVE CorridorInv
  OBVIOUS
<1>1. PICK n \in 2..MaxPoints : legPoints \in [1..n -> Turns]
  BY DEF CorridorInit
<1>2. n \in Nat /\ n >= 2
  BY CorridorAssumption
<1>3. legPoints \in Seq(Turns) /\ Len(legPoints) = n
  BY <1>1, <1>2
<1>4. RouteShape
  BY <1>2, <1>3 DEF CorridorInit, RouteShape
<1>5. BoxSoFar /\ flagged = <<>> /\ phase = "box" /\ asked = LookAhead /\ asked \in Int
  BY <1>2, <1>3, CorridorAssumption DEF CorridorInit, BoxSoFar
<1>6. next > Len(legPoints) => BoxHoldsRoute
  BY <1>2, <1>3 DEF CorridorInit, BoxHoldsRoute
<1>7. QED
  BY <1>4, <1>5, <1>6 DEF CorridorInv

\* The route stays what it is, and so does all that is read of it alone.
LEMMA RouteStays ==
    ASSUME UNCHANGED legPoints
    PROVE  /\ RouteShape' <=> RouteShape
           /\ LengthUpTo' = LengthUpTo
           /\ \A i : LegTo(i)' = LegTo(i)
           /\ \A i, along : PointAt(i, along)' = PointAt(i, along)
           /\ \A p : LegsBeside(p)' = LegsBeside(p)
           /\ \A i, p : OnLeg(i, p)' = OnLeg(i, p)
<1>1. RouteShape' <=> RouteShape
  BY DEF RouteShape
<1>2. \A i : LegTo(i)' = LegTo(i)
  BY DEF LegTo
<1>3. LengthUpTo' = LengthUpTo
  BY <1>2 DEF LengthUpTo, LegTo
<1>4. \A i, along : PointAt(i, along)' = PointAt(i, along)
  BY DEF PointAt
<1>5. \A p : LegsBeside(p)' = LegsBeside(p)
  BY DEF LegsBeside, Legs, LegTo
<1>6. \A i, p : OnLeg(i, p)' = OnLeg(i, p)
  BY <1>3 DEF OnLeg
<1>7. QED
  BY <1>1, <1>2, <1>3, <1>4, <1>5, <1>6

LEMMA PointEnds ==
    ASSUME RouteShape, NEW i \in 1..(Len(legPoints) - 1)
    PROVE  /\ PointAt(i, 0) = legPoints[i]
           /\ PointAt(i, LegTo(i + 1)) = legPoints[i + 1]
           /\ \A d \in Nat : PointAt(i, d) \in Int \X Int
<1> DEFINE a == legPoints[i]
<1> DEFINE b == legPoints[i + 1]
<1> DEFINE h == Heading(a, b)
<1> DEFINE d == LegLength(a, b)
<1>1. a \in Int \X Int /\ b \in Int \X Int /\ Along(a, b) /\ LegTo(i + 1) = d
  BY LegHeading
<1>2. /\ d \in Nat
      /\ \/ d = 0 /\ a = b /\ h = <<0, 0>>
         \/ h = <<1, 0>> /\ b = <<a[1] + d, a[2]>>
         \/ h = <<-1, 0>> /\ b = <<a[1] - d, a[2]>>
         \/ h = <<0, 1>> /\ b = <<a[1], a[2] + d>>
         \/ h = <<0, -1>> /\ b = <<a[1], a[2] - d>>
  <2>1. \A x, y \in Int \X Int : Along(x, y) =>
           /\ LegLength(x, y) \in Nat
           /\ \/ LegLength(x, y) = 0 /\ x = y /\ Heading(x, y) = <<0, 0>>
              \/ Heading(x, y) = <<1, 0>> /\ y = <<x[1] + LegLength(x, y), x[2]>>
              \/ Heading(x, y) = <<-1, 0>> /\ y = <<x[1] - LegLength(x, y), x[2]>>
              \/ Heading(x, y) = <<0, 1>> /\ y = <<x[1], x[2] + LegLength(x, y)>>
              \/ Heading(x, y) = <<0, -1>> /\ y = <<x[1], x[2] - LegLength(x, y)>>
    BY HeadingShape
  <2>2. QED
    BY <1>1, <2>1
<1>3. \A e : PointAt(i, e) = <<a[1] + e * h[1], a[2] + e * h[2]>>
  BY DEF PointAt
<1> HIDE DEF a, b, h, d
<1>4. a[1] \in Int /\ a[2] \in Int /\ a = <<a[1], a[2]>> /\ h[1] \in Int /\ h[2] \in Int
  BY <1>1, <1>2
<1>5. PointAt(i, 0) = a
  BY <1>3, <1>4
<1>6. \A e \in Nat : PointAt(i, e) \in Int \X Int
  <2>1. TAKE e \in Nat
  <2>2. a[1] + e * h[1] \in Int /\ a[2] + e * h[2] \in Int
    BY <1>4
  <2>3. QED
    BY <1>3, <2>2
<1>7. PointAt(i, d) = b
  <2>0. PointAt(i, d) = <<a[1] + d * h[1], a[2] + d * h[2]>> /\ d \in Nat /\ d * 0 = 0 /\ d * 1 = d
        /\ d * (-1) = -d
    BY <1>2, <1>3
  <2>1. CASE d = 0 /\ a = b /\ h = <<0, 0>>
    BY <1>4, <2>0, <2>1
  <2>2. CASE h = <<1, 0>> /\ b = <<a[1] + d, a[2]>>
    <3>1. h[1] = 1 /\ h[2] = 0
      BY <2>2
    <3>2. QED
      BY <1>4, <2>0, <2>2, <3>1
  <2>3. CASE h = <<-1, 0>> /\ b = <<a[1] - d, a[2]>>
    <3>1. h[1] = -1 /\ h[2] = 0
      BY <2>3
    <3>2. QED
      BY <1>4, <2>0, <2>3, <3>1
  <2>4. CASE h = <<0, 1>> /\ b = <<a[1], a[2] + d>>
    <3>1. h[1] = 0 /\ h[2] = 1
      BY <2>4
    <3>2. QED
      BY <1>4, <2>0, <2>4, <3>1
  <2>5. CASE h = <<0, -1>> /\ b = <<a[1], a[2] - d>>
    <3>1. h[1] = 0 /\ h[2] = -1
      BY <2>5
    <3>2. QED
      BY <1>4, <2>0, <2>5, <3>1
  <2>6. QED
    BY <1>2, <2>1, <2>2, <2>3, <2>4, <2>5
<1>8. QED
  BY <1>1, <1>5, <1>6, <1>7 DEF a, b

\* The box after one more point, on the route as it is.
HeldUpTo(b, k) == \A i \in 1..(k - 1) : \A along \in 0..LegTo(i + 1) : Holds(b, PointAt(i, along))
HeldAhead(b) ==
    \A i \in 1..(Len(legPoints) - 1) : \A along \in 0..LegTo(i + 1) :
        LengthUpTo[i] + along <= LookAhead => Holds(b, PointAt(i, along))

LEMMA FirstPoint ==
    ASSUME RouteShape, BoxSoFar, BoxPoint, next = 1, travelled = 0
    PROVE  /\ next' = 2 /\ travelled' = 0 /\ LengthUpTo[1] = 0
           /\ Holds(box', legPoints[1]) /\ HeldUpTo(box', 1)
<1>1. LegTo(1) = 0 /\ LookAhead \in Nat \ {0}
  BY CorridorAssumption DEF LegTo
<1>2. 1 \in 1..Len(legPoints)
  BY DEF BoxPoint, RouteShape
<1>3. legPoints[1] \in Int \X Int
  BY <1>2, CorridorAssumption DEF RouteShape
<1>4. /\ box' = Hull(box, legPoints[1]) /\ travelled' = 0 + 0 /\ next' = 1 + 1
  BY <1>1 DEF BoxPoint
<1>5. Holds(box', legPoints[1])
  BY <1>3, <1>4, HullHolds DEF BoxSoFar, Boxes
<1>6. LengthUpTo[1] = 0
  <2>1. LengthUpTo[1] = LengthUpTo[1 - 1] + LegTo(1)
    BY <1>2, Lengths
  <2>2. QED
    BY <1>1, <2>1, Lengths
<1>7. HeldUpTo(box', 1)
  BY DEF HeldUpTo
<1>8. QED
  BY <1>4, <1>5, <1>6, <1>7

LEMMA NextPoint1 ==
    ASSUME RouteShape, BoxSoFar, BoxPoint, next > 1
    PROVE  /\ next - 1 \in 1..(Len(legPoints) - 1) /\ next \in 1..Len(legPoints)
           /\ travelled = LengthUpTo[next - 1] /\ travelled \in Nat /\ travelled < LookAhead
           /\ LookAhead \in Nat /\ LegTo(next) \in Nat /\ LengthUpTo[next] = travelled + LegTo(next)
           /\ Holds(box, legPoints[next - 1]) /\ HeldUpTo(box, next - 1)
           /\ next - 1 + 1 = next
<1>1. next \in Nat /\ Len(legPoints) \in Nat /\ next <= Len(legPoints)
  BY DEF BoxSoFar, RouteShape, BoxPoint
<1>2. next - 1 \in 1..(Len(legPoints) - 1) /\ next \in 1..Len(legPoints) /\ next - 1 + 1 = next
      /\ next # Len(legPoints) + 1 /\ next - 1 - 1 = next - 2
  BY <1>1
<1>3. /\ travelled = LengthUpTo[next - 1] /\ travelled \in Nat /\ travelled < LookAhead
      /\ Holds(box, legPoints[next - 1]) /\ HeldUpTo(box, next - 1)
  BY <1>2 DEF BoxSoFar, HeldUpTo
<1>4. LegTo(next) \in Nat /\ LengthUpTo[next] = travelled + LegTo(next)
  BY <1>2, <1>3, LegShape, Lengths
<1>5. QED
  BY <1>2, <1>3, <1>4, CorridorAssumption

LEMMA WholeLeg ==
    ASSUME RouteShape, BoxSoFar, BoxPoint, next > 1, ~(LegTo(next) > LookAhead - travelled)
    PROVE  /\ travelled' = LengthUpTo[next] /\ Holds(box', legPoints[next]) /\ HeldUpTo(box', next)
           /\ next' = IF LengthUpTo[next] >= LookAhead THEN Len(legPoints) + 1 ELSE next + 1
           /\ LengthUpTo[next] <= LookAhead
<1>1. /\ box' = Hull(box, legPoints[next]) /\ travelled' = travelled + LegTo(next)
      /\ next' = IF travelled + LegTo(next) >= LookAhead THEN Len(legPoints) + 1 ELSE next + 1
  BY DEF BoxPoint
<1>2. box = NoBox \/ box \in Boxes
  BY DEF BoxSoFar
<1>3. legPoints[next] \in Int \X Int /\ legPoints[next - 1] \in Int \X Int
  BY NextPoint1, LegHeading
<1>4. /\ Holds(box', legPoints[next])
      /\ \A q \in Int \X Int : Holds(box, q) => Holds(box', q)
  BY <1>1, <1>2, <1>3, HullHolds DEF Boxes
<1>5. ASSUME NEW i \in 1..(next - 1), NEW along \in 0..LegTo(i + 1)
      PROVE  Holds(box', PointAt(i, along))
  <2>1. i \in 1..(Len(legPoints) - 1) /\ i + 1 \in 1..Len(legPoints)
    BY SMTT(20), NextPoint1 DEF RouteShape
  <2>2. LegTo(i + 1) \in Nat /\ along \in Nat
    BY <2>1, LegShape
  <2>3. CASE i < next - 1
    <3>1. i \in 1..(next - 1 - 1)
      BY <2>3, NextPoint1
    <3>2. Holds(box, PointAt(i, along))
      BY <3>1, NextPoint1 DEF HeldUpTo
    <3>3. QED
      BY <1>4, <2>1, <2>2, <3>2, PointEnds
  <2>4. CASE i = next - 1
    <3>1. Holds(box', legPoints[i]) /\ i + 1 = next
      BY <1>3, <1>4, <2>4, NextPoint1
    <3>2. PointAt(i, LegTo(i + 1)) = legPoints[i + 1]
      BY <2>1, PointEnds
    <3>3. QED
      BY <1>4, <2>1, <2>2, <3>1, <3>2, HoldsBetween
  <2>5. QED
    BY <2>3, <2>4, NextPoint1
<1>6. QED
  BY SMTT(20), <1>1, <1>4, <1>5, NextPoint1 DEF HeldUpTo

LEMMA ClippedLeg ==
    ASSUME RouteShape, BoxSoFar, BoxPoint, next > 1, LegTo(next) > LookAhead - travelled
    PROVE  /\ next' = Len(legPoints) + 1 /\ travelled' = travelled /\ box' \in Boxes
           /\ HeldAhead(box')
<1> DEFINE remaining == LookAhead - travelled
<1> DEFINE leg == next - 1
<1>1. /\ box' = Hull(box, ClippedPoint(legPoints[next - 1], legPoints[next]))
      /\ travelled' = travelled /\ next' = Len(legPoints) + 1
  BY DEF BoxPoint
<1>2. leg \in 1..(Len(legPoints) - 1) /\ leg + 1 = next /\ remaining \in Nat
  BY NextPoint1
<1>3. ClippedPoint(legPoints[next - 1], legPoints[next]) = PointAt(leg, remaining)
  BY <1>2 DEF ClippedPoint, PointAt
<1>4. /\ Holds(box', PointAt(leg, remaining))
      /\ \A q \in Int \X Int : Holds(box, q) => Holds(box', q)
  <2>1. PointAt(leg, remaining) \in Int \X Int
    BY <1>2, PointEnds
  <2>2. QED
    BY <1>1, <1>3, <2>1, HullHolds DEF BoxSoFar, Boxes
<1>5. ASSUME NEW i \in 1..(Len(legPoints) - 1), NEW along \in 0..LegTo(i + 1),
             LengthUpTo[i] + along <= LookAhead
      PROVE  Holds(box', PointAt(i, along))
  <2>1. i \in 1..(Len(legPoints) - 1) /\ i + 1 \in 1..Len(legPoints) /\ i \in 0..Len(legPoints)
    BY DEF RouteShape
  <2>2. LegTo(i + 1) \in Nat /\ along \in Nat /\ LengthUpTo[i] \in Nat
    BY <2>1, LegShape, Lengths
  <2>3. CASE i < leg
    <3>1. i \in 1..(next - 1 - 1)
      BY <2>3, NextPoint1
    <3>2. Holds(box, PointAt(i, along))
      BY <3>1, NextPoint1 DEF HeldUpTo
    <3>3. QED
      BY <1>4, <2>1, <2>2, <3>2, PointEnds
  <2>4. CASE i = leg
    <3>1. along \in 0..remaining
      BY SMTT(20), <1>2, <1>5, <2>2, <2>4, NextPoint1
    <3>2. Holds(box', legPoints[leg])
      <4>1. legPoints[leg] \in Int \X Int
        BY <1>2, LegHeading
      <4>2. QED
        BY <1>4, <4>1, NextPoint1
    <3> HIDE DEF remaining, leg
    <3>3. Holds(box', PointAt(leg, along))
      BY <1>2, <1>4, <3>1, <3>2, HoldsBetween
    <3>4. QED
      BY <2>4, <3>3
  <2>5. CASE i > leg
    <3>1. i \in next..Len(legPoints) /\ next \in 1..Len(legPoints)
      BY <2>1, <2>5, NextPoint1
    <3>2. LengthUpTo[i] >= LengthUpTo[next]
      BY <3>1, LaterOnRoute
    <3>3. LengthUpTo[next] = travelled + LegTo(next) /\ LegTo(next) \in Nat /\ travelled \in Nat
          /\ LookAhead \in Nat
      BY NextPoint1
    <3>4. QED
      BY <1>5, <2>2, <3>2, <3>3
  <2>6. QED
    BY <1>2, <2>3, <2>4, <2>5
<1>6. box' \in Boxes
  BY <1>4 DEF Holds, Boxes
<1>7. QED
  BY <1>1, <1>5, <1>6 DEF HeldAhead

\* Where the look-ahead ends at a point of the route, the legs behind it begin there or beyond.
LEMMA HeldToTheEnd ==
    ASSUME RouteShape, NEW b, NEW k \in 1..Len(legPoints), HeldUpTo(b, k), Holds(b, legPoints[k]),
           LengthUpTo[k] >= LookAhead \/ k = Len(legPoints)
    PROVE  HeldAhead(b)
<1>1. ASSUME NEW i \in 1..(Len(legPoints) - 1), NEW along \in 0..LegTo(i + 1),
             LengthUpTo[i] + along <= LookAhead
      PROVE  Holds(b, PointAt(i, along))
  <2>1. /\ i + 1 \in 1..Len(legPoints) /\ i \in 0..Len(legPoints) /\ k \in 0..Len(legPoints)
        /\ Len(legPoints) \in Nat /\ LookAhead \in Nat
    BY SMTT(20), CorridorAssumption DEF RouteShape
  <2>2. LegTo(i + 1) \in Nat /\ along \in Nat /\ LengthUpTo[i] \in Nat /\ LengthUpTo[k] \in Nat
    BY <2>1, LegShape, Lengths
  <2>3. CASE i < k
    BY <2>3 DEF HeldUpTo
  <2>4. CASE i >= k
    <3>1. i \in k..Len(legPoints)
      BY <2>1, <2>4
    <3>2. /\ LengthUpTo[i] >= LengthUpTo[k]
          /\ LengthUpTo[i] = LengthUpTo[k] => legPoints[i] = legPoints[k]
      BY <3>1, LaterOnRoute
    <3>3. LengthUpTo[k] >= LookAhead
      BY <2>1, <2>4
    <3>4. along = 0 /\ LengthUpTo[i] = LengthUpTo[k]
      BY <1>1, <2>1, <2>2, <3>2, <3>3
    <3>5. QED
      BY <3>2, <3>4, PointEnds
  <2>5. QED
    BY <2>3, <2>4
<1>2. QED
  BY <1>1 DEF HeldAhead

\* What is said of the box after the step is said of the route as it was.
LEMMA HeldStays ==
    ASSUME UNCHANGED legPoints, asked' = LookAhead
    PROVE  HeldAhead(box') => BoxHoldsRoute'
<1>1. /\ LengthUpTo' = LengthUpTo
      /\ \A i : LegTo(i)' = LegTo(i)
      /\ \A i, along : PointAt(i, along)' = PointAt(i, along)
  BY RouteStays
<1>2. QED
  BY <1>1 DEF HeldAhead, BoxHoldsRoute, Holds

LEMMA BoxPointKeeps ==
    ASSUME CorridorInv, BoxPoint
    PROVE  CorridorInv'
<1> USE DEF CorridorInv
<1>0. /\ phase = "box" /\ phase' = "box" /\ UNCHANGED <<legPoints, phase, flagged>>
      /\ RouteShape /\ BoxSoFar /\ flagged = <<>> /\ next <= Len(legPoints)
      /\ asked = LookAhead /\ asked' = LookAhead /\ asked' \in Int
  BY DEF BoxPoint
<1>1. RouteShape' /\ Len(legPoints) \in Nat /\ LookAhead \in Nat \ {0}
  BY <1>0, RouteStays, CorridorAssumption DEF RouteShape
<1>2. /\ LengthUpTo' = LengthUpTo
      /\ \A i : LegTo(i)' = LegTo(i)
      /\ \A i, along : PointAt(i, along)' = PointAt(i, along)
  BY <1>0, RouteStays
<1>3. CASE next > 1 /\ LegTo(next) > LookAhead - travelled
  <2>1. /\ next' = Len(legPoints) + 1 /\ travelled' = travelled /\ box' \in Boxes
        /\ HeldAhead(box')
    BY <1>0, <1>3, ClippedLeg
  <2>2. BoxHoldsRoute'
    BY <1>0, <2>1, HeldStays
  <2>3. BoxSoFar'
    BY <1>0, <1>1, <2>1 DEF BoxSoFar
  <2>4. QED
    BY <1>0, <1>1, <2>2, <2>3
<1>4. CASE next = 1 \/ ~(LegTo(next) > LookAhead - travelled)
  <2>1. next \in 1..Len(legPoints)
    BY <1>0 DEF BoxSoFar
  <2>2. /\ travelled' = LengthUpTo[next] /\ Holds(box', legPoints[next]) /\ HeldUpTo(box', next)
        /\ next' = IF LengthUpTo[next] >= LookAhead THEN Len(legPoints) + 1 ELSE next + 1
    <3>1. CASE next = 1
      <4>1. travelled = 0
        BY <1>0, <2>1, <3>1 DEF BoxSoFar
      <4>2. QED
        BY <1>0, <1>1, <3>1, <4>1, FirstPoint
    <3>2. CASE next # 1
      <4>1. next > 1
        BY <2>1, <3>2
      <4>2. QED
        BY <1>0, <1>4, <3>2, <4>1, WholeLeg
    <3>3. QED
      BY <3>1, <3>2
  <2>3. LengthUpTo[next] \in Nat
    BY <1>0, <2>1, Lengths
  <2>4. box' \in Boxes
    BY <2>2 DEF Holds, Boxes
  <2>5. next' > Len(legPoints) => BoxHoldsRoute'
    <3>1. SUFFICES ASSUME next' > Len(legPoints) PROVE HeldAhead(box')
      BY <1>0, HeldStays
    <3>2. LengthUpTo[next] >= LookAhead \/ next = Len(legPoints)
      BY <1>1, <2>1, <2>2, <3>1
    <3>3. QED
      BY <1>0, <2>1, <2>2, <3>2, HeldToTheEnd
  <2>6. BoxSoFar'
    <3>1. next' \in 1..(Len(legPoints) + 1) /\ travelled' \in Nat
      BY <1>1, <2>1, <2>2, <2>3
    <3>2. CASE LengthUpTo[next] >= LookAhead \/ next = Len(legPoints)
      <4>1. next' = Len(legPoints) + 1
        BY <1>1, <2>1, <2>2, <3>2
      <4>2. QED
        BY <1>0, <2>4, <3>1, <4>1 DEF BoxSoFar
    <3>3. CASE ~(LengthUpTo[next] >= LookAhead) /\ next # Len(legPoints)
      <4>1. /\ next' = next + 1 /\ next' > 1 /\ next' <= Len(legPoints) /\ next' - 1 = next
            /\ next' - 2 = next - 1 /\ travelled' < LookAhead
        BY <1>1, <2>1, <2>2, <2>3, <3>3
      <4>2. travelled' = LengthUpTo'[next' - 1]
        BY <1>2, <2>2, <4>1
      <4>3. Holds(box', legPoints'[next' - 1])
        BY <1>0, <2>2, <4>1
      <4>4. \A i \in 1..(next' - 2) : \A along \in 0..LegTo(i + 1)' : Holds(box', PointAt(i, along)')
        BY <1>2, <2>2, <4>1 DEF HeldUpTo
      <4>5. QED
        BY <1>0, <2>4, <3>1, <4>1, <4>2, <4>3, <4>4 DEF BoxSoFar, Holds
    <3>4. QED
      BY <3>2, <3>3
  <2>7. QED
    BY <1>0, <1>1, <2>5, <2>6
<1>5. QED
  <2>1. next = 1 \/ next > 1
    BY <1>0 DEF BoxSoFar
  <2>2. QED
    BY <1>3, <1>4, <2>1

LEMMA BesideLegs ==
    ASSUME RouteShape, NEW p
    PROVE  LegsBeside(p) \subseteq 1..(Len(legPoints) - 1) /\ Len(legPoints) \in Nat
  BY DEF LegsBeside, Legs, RouteShape

\* A place on a leg splits it in two.
LEMMA SplitLeg ==
    ASSUME NEW a \in Int \X Int, NEW b \in Int \X Int, NEW f \in Int \X Int,
           Along(a, b), Along(f, b), Between(f, a, b)
    PROVE  /\ LegLength(a, f) \in Nat /\ LegLength(f, b) \in Nat
           /\ LegLength(a, b) = LegLength(a, f) + LegLength(f, b)
           /\ f = <<a[1] + LegLength(a, f) * Heading(a, b)[1],
                    a[2] + LegLength(a, f) * Heading(a, b)[2]>>
           /\ LegLength(f, b) # 0 => Heading(f, b) = Heading(a, b)
<1>1. /\ a[1] \in Int /\ a[2] \in Int /\ b[1] \in Int /\ b[2] \in Int /\ f[1] \in Int /\ f[2] \in Int
      /\ f = <<f[1], f[2]>>
  OBVIOUS
<1>2. /\ Lower(a[1], b[1]) <= f[1] /\ f[1] <= Higher(a[1], b[1])
      /\ Lower(a[2], b[2]) <= f[2] /\ f[2] <= Higher(a[2], b[2])
  BY <1>1 DEF Between, Lower, Higher
<1> DEFINE h == Heading(a, b)
<1> DEFINE d == LegLength(a, f)
<1>3. \A x \in Int : x * 0 = 0 /\ x * 1 = x /\ x * (-1) = -x
  OBVIOUS
<1>4. /\ h[1] = Sign(b[1] - a[1]) /\ h[2] = Sign(b[2] - a[2])
      /\ Heading(f, b)[1] = Sign(b[1] - f[1]) /\ Heading(f, b)[2] = Sign(b[2] - f[2])
      /\ h = <<h[1], h[2]>> /\ Heading(f, b) = <<Heading(f, b)[1], Heading(f, b)[2]>>
  BY DEF Heading
<1>5. /\ d = Magnitude(a[1] - f[1]) + Magnitude(a[2] - f[2])
      /\ LegLength(f, b) = Magnitude(f[1] - b[1]) + Magnitude(f[2] - b[2])
      /\ LegLength(a, b) = Magnitude(a[1] - b[1]) + Magnitude(a[2] - b[2])
  BY DEF LegLength
<1> HIDE DEF h, d
<1>6. CASE a[1] = b[1]
  <2>1. f[1] = a[1]
    BY <1>1, <1>2, <1>6 DEF Lower, Higher
  <2>2. /\ h[1] = 0 /\ Heading(f, b)[1] = 0
        /\ d = Magnitude(a[2] - f[2]) /\ LegLength(f, b) = Magnitude(f[2] - b[2])
        /\ LegLength(a, b) = Magnitude(a[2] - b[2])
    BY <1>1, <1>4, <1>5, <1>6, <2>1 DEF Sign, Magnitude
  <2>3. CASE a[2] <= b[2]
    <3>1. /\ d = f[2] - a[2] /\ LegLength(f, b) = b[2] - f[2] /\ LegLength(a, b) = b[2] - a[2]
          /\ d \in Nat /\ LegLength(f, b) \in Nat
      BY <1>1, <1>2, <2>2, <2>3 DEF Magnitude, Lower, Higher
    <3>2. h[2] = IF b[2] = a[2] THEN 0 ELSE 1
      BY <1>1, <1>4, <2>3 DEF Sign
    <3>3. LegLength(f, b) # 0 => Heading(f, b)[2] = 1 /\ h[2] = 1
      BY <1>1, <1>2, <1>4, <2>3, <3>1, <3>2 DEF Sign, Lower, Higher
    <3>4. f[1] = a[1] + d * h[1] /\ f[2] = a[2] + d * h[2]
      BY <1>1, <1>2, <1>3, <2>1, <2>2, <2>3, <3>1, <3>2 DEF Lower, Higher
    <3>5. QED
      BY <1>1, <1>4, <2>2, <3>1, <3>3, <3>4 DEF h, d
  <2>4. CASE a[2] > b[2]
    <3>1. /\ d = a[2] - f[2] /\ LegLength(f, b) = f[2] - b[2] /\ LegLength(a, b) = a[2] - b[2]
          /\ d \in Nat /\ LegLength(f, b) \in Nat
      BY <1>1, <1>2, <2>2, <2>4 DEF Magnitude, Lower, Higher
    <3>2. h[2] = -1
      BY <1>1, <1>4, <2>4 DEF Sign
    <3>3. LegLength(f, b) # 0 => Heading(f, b)[2] = -1
      BY <1>1, <1>2, <1>4, <2>4, <3>1 DEF Sign, Lower, Higher
    <3>4. f[1] = a[1] + d * h[1] /\ f[2] = a[2] + d * h[2]
      BY <1>1, <1>3, <2>1, <2>2, <3>1, <3>2
    <3>5. QED
      BY <1>1, <1>4, <2>2, <3>1, <3>2, <3>3, <3>4 DEF h, d
  <2>5. QED
    BY <1>1, <2>3, <2>4
<1>7. CASE a[1] # b[1]
  <2>0. a[2] = b[2]
    BY <1>7 DEF Along
  <2>1. f[2] = a[2]
    BY <1>1, <1>2, <2>0 DEF Lower, Higher
  <2>2. /\ h[2] = 0 /\ Heading(f, b)[2] = 0
        /\ d = Magnitude(a[1] - f[1]) /\ LegLength(f, b) = Magnitude(f[1] - b[1])
        /\ LegLength(a, b) = Magnitude(a[1] - b[1])
    BY <1>1, <1>4, <1>5, <2>0, <2>1 DEF Sign, Magnitude
  <2>3. CASE a[1] < b[1]
    <3>1. /\ d = f[1] - a[1] /\ LegLength(f, b) = b[1] - f[1] /\ LegLength(a, b) = b[1] - a[1]
          /\ d \in Nat /\ LegLength(f, b) \in Nat
      BY <1>1, <1>2, <2>2, <2>3 DEF Magnitude, Lower, Higher
    <3>2. h[1] = 1
      BY <1>1, <1>4, <2>3 DEF Sign
    <3>3. LegLength(f, b) # 0 => Heading(f, b)[1] = 1
      BY <1>1, <1>2, <1>4, <2>3, <3>1 DEF Sign, Lower, Higher
    <3>4. f[1] = a[1] + d * h[1] /\ f[2] = a[2] + d * h[2]
      BY <1>1, <1>3, <2>1, <2>2, <3>1, <3>2
    <3>5. QED
      BY <1>1, <1>4, <2>2, <3>1, <3>2, <3>3, <3>4 DEF h, d
  <2>4. CASE a[1] > b[1]
    <3>1. /\ d = a[1] - f[1] /\ LegLength(f, b) = f[1] - b[1] /\ LegLength(a, b) = a[1] - b[1]
          /\ d \in Nat /\ LegLength(f, b) \in Nat
      BY <1>1, <1>2, <2>2, <2>4 DEF Magnitude, Lower, Higher
    <3>2. h[1] = -1
      BY <1>1, <1>4, <2>4 DEF Sign
    <3>3. LegLength(f, b) # 0 => Heading(f, b)[1] = -1
      BY <1>1, <1>2, <1>4, <2>4, <3>1 DEF Sign, Lower, Higher
    <3>4. f[1] = a[1] + d * h[1] /\ f[2] = a[2] + d * h[2]
      BY <1>1, <1>3, <2>1, <2>2, <3>1, <3>2
    <3>5. QED
      BY <1>1, <1>4, <2>2, <3>1, <3>2, <3>3, <3>4 DEF h, d
  <2>5. QED
    BY <1>1, <1>7, <2>3, <2>4
<1>8. QED
  BY <1>6, <1>7

LEMMA HeadingIsInt ==
    ASSUME NEW a \in Int \X Int, NEW b \in Int \X Int
    PROVE  Heading(a, b)[1] \in Int /\ Heading(a, b)[2] \in Int
<1>1. a[1] \in Int /\ a[2] \in Int /\ b[1] \in Int /\ b[2] \in Int
  OBVIOUS
<1>2. Heading(a, b)[1] = Sign(b[1] - a[1]) /\ Heading(a, b)[2] = Sign(b[2] - a[2])
  BY DEF Heading
<1>3. Sign(b[1] - a[1]) \in Int /\ Sign(b[2] - a[2]) \in Int
  BY <1>1 DEF Sign
<1>4. QED
  BY <1>2, <1>3

\* What is true of the lengths of any legs is true of those of the next state.
LEMMA LengthsHold ==
    RouteShape => /\ LengthUpTo[0] = 0
                  /\ \A i \in 0..Len(legPoints) : LengthUpTo[i] \in Nat
                  /\ \A i \in 1..Len(legPoints) : LengthUpTo[i] = LengthUpTo[i - 1] + LegTo(i)
  BY Lengths

LEMMA NextLengths ==
    (RouteShape => /\ LengthUpTo[0] = 0
                   /\ \A i \in 0..Len(legPoints) : LengthUpTo[i] \in Nat
                   /\ \A i \in 1..Len(legPoints) : LengthUpTo[i] = LengthUpTo[i - 1] + LegTo(i))'
  BY LengthsHold, PTL

\* The route once the scan begins from a later fix.
LEMMA NewFirstPoint ==
    ASSUME RouteShape, NEW fix \in Turns, BeginScan(fix)
    PROVE  /\ RouteShape' /\ Len(legPoints') = Len(legPoints)
           /\ legPoints'[1] = fix
           /\ \A i \in 2..Len(legPoints) : legPoints'[i] = legPoints[i]
<1>1. /\ legPoints' = [legPoints EXCEPT ![1] = fix] /\ Along(fix, legPoints[2])
      /\ legPoints \in Seq(Turns) /\ Len(legPoints) \in Nat /\ 1 \in 1..Len(legPoints)
      /\ Len(legPoints) >= 2
  BY DEF RouteShape, BeginScan
<1>2. /\ legPoints' \in Seq(Turns) /\ Len(legPoints') = Len(legPoints)
      /\ \A j \in 1..Len(legPoints) : legPoints'[j] = IF j = 1 THEN fix ELSE legPoints[j]
  BY <1>1, ExceptSeq
<1>3. legPoints'[1] = fix /\ \A i \in 2..Len(legPoints) : legPoints'[i] = legPoints[i]
  BY <1>1, <1>2
<1>4. ASSUME NEW i \in 1..(Len(legPoints) - 1) PROVE Along(legPoints'[i], legPoints'[i + 1])
  <2>1. i + 1 \in 2..Len(legPoints)
    BY <1>1
  <2>2. CASE i = 1
    BY <1>1, <1>3, <2>1, <2>2
  <2>3. CASE i # 1
    BY <1>1, <1>3, <2>1, <2>3 DEF RouteShape
  <2>4. QED
    BY <2>2, <2>3
<1>5. RouteShape'
  BY <1>1, <1>2, <1>4 DEF RouteShape
<1>6. QED
  BY <1>2, <1>3, <1>5

\* When the vessel went on along its leg, the legs behind it are so much nearer.
LEMMA RouteIsNearer ==
    ASSUME RouteShape, NEW fix \in Turns, BeginScan(fix), NEW gone \in Nat,
           LegTo(2) = gone + LegLength(fix, legPoints[2])
    PROVE  \A i \in 2..Len(legPoints) : LengthUpTo[i] = LengthUpTo'[i] + gone
<1> DEFINE m == Len(legPoints)
<1>1. /\ m \in Nat /\ m >= 2 /\ Len(legPoints') = m /\ legPoints'[1] = fix
      /\ \A i \in 2..m : legPoints'[i] = legPoints[i]
  BY NewFirstPoint DEF RouteShape
<1>2. /\ LengthUpTo[0] = 0 /\ \A i \in 0..m : LengthUpTo[i] \in Nat
      /\ \A i \in 1..m : LengthUpTo[i] = LengthUpTo[i - 1] + LegTo(i)
  BY Lengths
<1>3. /\ LengthUpTo'[0] = 0 /\ \A i \in 0..m : LengthUpTo'[i] \in Nat
      /\ \A i \in 1..m : LengthUpTo'[i] = LengthUpTo'[i - 1] + LegTo(i)'
  BY <1>1, NewFirstPoint, NextLengths
<1>4. /\ LegTo(1) = 0 /\ LegTo(1)' = 0 /\ LegTo(2)' = LegLength(fix, legPoints[2])
      /\ \A i \in 3..m : LegTo(i)' = LegTo(i)
  <2>1. LegTo(2)' = LegLength(legPoints'[1], legPoints'[2])
    BY DEF LegTo
  <2>2. ASSUME NEW i \in 3..m PROVE LegTo(i)' = LegTo(i)
    <3>1. i # 1 /\ i \in 2..m /\ i - 1 \in 2..m
      BY <1>1
    <3>2. LegTo(i)' = LegLength(legPoints'[i - 1], legPoints'[i])
      BY <3>1 DEF LegTo
    <3>3. QED
      BY <1>1, <3>1, <3>2 DEF LegTo
  <2>3. LegTo(1) = 0 /\ LegTo(1)' = 0
    BY DEF LegTo
  <2>4. QED
    BY <1>1, <2>1, <2>2, <2>3
<1> DEFINE S == {k \in Nat : k + 2 <= m => LengthUpTo[k + 2] = LengthUpTo'[k + 2] + gone}
<1> HIDE DEF m
<1>5. 0 \in S
  <2>1. /\ LengthUpTo[1] = LengthUpTo[1 - 1] + LegTo(1) /\ LengthUpTo[2] = LengthUpTo[2 - 1] + LegTo(2)
        /\ LengthUpTo'[1] = LengthUpTo'[1 - 1] + LegTo(1)'
        /\ LengthUpTo'[2] = LengthUpTo'[2 - 1] + LegTo(2)'
    BY <1>1, <1>2, <1>3
  <2>2. LengthUpTo[2] = LegTo(2) /\ LengthUpTo'[2] = LegTo(2)'
    <3>1. LengthUpTo[1] = 0 /\ LengthUpTo'[1] = 0
      BY <1>2, <1>3, <1>4, <2>1
    <3>2. LengthUpTo[2] \in Nat /\ LengthUpTo'[2] \in Nat /\ 2 \in 0..m
      BY <1>1, <1>2, <1>3
    <3>3. LengthUpTo[2] = 0 + LegTo(2) /\ LegTo(2) \in Nat
      <4>1. 2 \in 1..Len(legPoints)
        BY <1>1 DEF m
      <4>2. QED
        BY <2>1, <3>1, <4>1, LegShape
    <3>4. LegTo(2)' \in Nat
      <4>1. legPoints[2] \in Int \X Int /\ fix \in Int \X Int
        <5>1. 2 \in 1..Len(legPoints)
          BY <1>1 DEF m
        <5>2. QED
          BY <5>1, CorridorAssumption DEF RouteShape
      <4>2. LegLength(fix, legPoints[2]) \in Nat
        <5>1. /\ fix[1] \in Int /\ fix[2] \in Int /\ legPoints[2][1] \in Int /\ legPoints[2][2] \in Int
          BY <4>1
        <5>2. QED
          BY <5>1 DEF LegLength, Magnitude
      <4>3. QED
        BY <1>4, <4>2
    <3>5. QED
      BY <2>1, <3>1, <3>3, <3>4
  <2>3. 0 + 2 = 2
    OBVIOUS
  <2>4. LengthUpTo[2] = LengthUpTo'[2] + gone
    <3>1. LengthUpTo'[2] \in Nat /\ 2 \in 0..m
      BY <1>1, <1>3
    <3>2. QED
      BY <1>4, <2>2, <3>1
  <2>5. QED
    BY <2>3, <2>4
<1>6. ASSUME NEW k \in Nat, k \in S, (k + 1) + 2 <= m
      PROVE  LengthUpTo[(k + 1) + 2] = LengthUpTo'[(k + 1) + 2] + gone
  <2> DEFINE i == (k + 1) + 2
  <2>1. i \in 1..m /\ i \in 3..m /\ i - 1 = k + 2 /\ k + 2 <= m /\ k + 2 \in 0..m
    BY <1>1, <1>6
  <2>2. /\ LengthUpTo[i] = LengthUpTo[k + 2] + LegTo(i)
        /\ LengthUpTo'[i] = LengthUpTo'[k + 2] + LegTo(i)
    BY <1>2, <1>3, <1>4, <2>1
  <2>3. LengthUpTo[k + 2] = LengthUpTo'[k + 2] + gone /\ LengthUpTo'[k + 2] \in Nat
    BY <1>3, <1>6, <2>1
  <2>4. LegTo(i) \in Nat
    BY <2>1, LegShape DEF m
  <2> HIDE DEF i
  <2>5. LengthUpTo[i] = LengthUpTo'[i] + gone
    BY <2>2, <2>3, <2>4
  <2>6. QED
    BY <2>5 DEF i
<1>7. \A k \in Nat : k \in S => k + 1 \in S
  BY <1>6
<1> HIDE DEF S
<1>8. Nat \subseteq S
  BY <1>5, <1>7, SetInduction
<1>9. ASSUME NEW i \in 2..m PROVE LengthUpTo[i] = LengthUpTo'[i] + gone
  <2>1. i - 2 \in Nat /\ (i - 2) + 2 = i /\ i <= m
    BY <1>1
  <2>2. i - 2 \in S
    BY <1>8, <2>1
  <2>3. QED
    BY <2>1, <2>2 DEF S
<1>10. QED
  BY <1>9 DEF m

\* The box still holds the route as far as it was asked for.
LEMMA MovedOn ==
    ASSUME RouteShape, BoxHoldsRoute, asked = LookAhead, NEW fix \in Turns, BeginScan(fix)
    PROVE  BoxHoldsRoute' /\ asked' \in Int /\ LengthUpTo'[1] = 0
<1> DEFINE a == legPoints[1]
<1> DEFINE b == legPoints[2]
<1> DEFINE gone == LegLength(a, fix)
<1>1. /\ Len(legPoints) \in Nat /\ Len(legPoints) >= 2 /\ Len(legPoints') = Len(legPoints)
      /\ RouteShape' /\ legPoints'[1] = fix /\ box' = box
      /\ \A i \in 2..Len(legPoints) : legPoints'[i] = legPoints[i]
      /\ Along(fix, b)
      /\ asked' = IF Between(fix, a, b) THEN LookAhead - gone ELSE -1
  BY NewFirstPoint DEF RouteShape, BeginScan
<1>2. /\ a \in Int \X Int /\ b \in Int \X Int /\ fix \in Int \X Int /\ Along(a, b)
      /\ LegTo(2) = LegLength(a, b) /\ LookAhead \in Nat
  <2>1. 1 \in 1..(Len(legPoints) - 1) /\ 1 + 1 = 2
    BY <1>1
  <2>2. QED
    BY <2>1, LegHeading, CorridorAssumption
<1>3. /\ LengthUpTo'[0] = 0 /\ \A i \in 0..Len(legPoints) : LengthUpTo'[i] \in Nat
      /\ \A i \in 1..Len(legPoints) : LengthUpTo'[i] = LengthUpTo'[i - 1] + LegTo(i)'
  BY <1>1, NextLengths
<1>4. LengthUpTo'[1] = 0
  <2>1. LengthUpTo'[1] = LengthUpTo'[1 - 1] + LegTo(1)'
    BY <1>1, <1>3
  <2>2. LegTo(1)' = 0
    BY DEF LegTo
  <2>3. QED
    BY <1>3, <2>1, <2>2
<1>5. CASE ~Between(fix, a, b)
  <2>1. asked' = -1
    BY <1>1, <1>5
  <2>2. ASSUME NEW i \in 1..(Len(legPoints') - 1), NEW along \in 0..LegTo(i + 1)'
        PROVE  ~(LengthUpTo'[i] + along <= asked')
    <3>1. LengthUpTo'[i] \in Nat /\ along >= 0 /\ along \in Int
      BY <1>1, <1>3
    <3>2. QED
      BY <2>1, <3>1
  <2>3. BoxHoldsRoute'
    BY <2>2 DEF BoxHoldsRoute
  <2>4. QED
    BY <1>4, <2>1, <2>3
<1>6. CASE Between(fix, a, b)
  <2>1. /\ gone \in Nat /\ LegLength(fix, b) \in Nat /\ LegTo(2) = gone + LegLength(fix, b)
        /\ fix = PointAt(1, gone)
        /\ LegLength(fix, b) # 0 => Heading(fix, b) = Heading(a, b)
    BY <1>1, <1>2, <1>6, SplitLeg DEF PointAt
  <2>2. asked' = LookAhead - gone /\ asked' \in Int
    BY <1>1, <1>2, <1>6, <2>1
  <2>3. \A i \in 2..Len(legPoints) : LengthUpTo[i] = LengthUpTo'[i] + gone
    BY <2>1, RouteIsNearer
  <2>4. LengthUpTo[1] = 0
    <3>1. 1 \in 1..Len(legPoints)
      BY <1>1
    <3>2. LengthUpTo[1] = LengthUpTo[1 - 1] + LegTo(1) /\ LengthUpTo[0] = 0
      BY <3>1, Lengths
    <3>3. QED
      BY <3>2 DEF LegTo
  <2>5. ASSUME NEW i \in 1..(Len(legPoints) - 1), NEW along \in 0..LegTo(i + 1)',
               LengthUpTo'[i] + along <= asked'
        PROVE  Holds(box, PointAt(i, along)')
    <3>1. i \in 0..Len(legPoints) /\ i \in 1..Len(legPoints) /\ i + 1 \in 2..Len(legPoints)
          /\ LengthUpTo'[i] \in Nat
      BY <1>1, <1>3
    <3>2. along \in Nat
      OBVIOUS
    <3>3. CASE i = 1
      <4>1. LegTo(i + 1)' = LegLength(fix, b)
        BY <1>1, <3>1, <3>3 DEF LegTo
      <4>2. /\ gone + along \in 0..LegTo(1 + 1) /\ LengthUpTo[1] + (gone + along) <= asked
        <5>1. along <= LegLength(fix, b) /\ along <= asked'
          BY <1>4, <2>2, <2>5, <3>2, <3>3, <4>1
        <5> HIDE DEF a, b, gone
        <5>2. gone + along \in 0..LegTo(2) /\ gone + along <= LookAhead
          BY <1>2, <2>1, <2>2, <3>2, <5>1
        <5>3. LengthUpTo[1] + (gone + along) = gone + along
          BY <2>1, <2>4, <3>2
        <5>4. QED
          BY <5>2, <5>3
      <4>3. 1 \in 1..(Len(legPoints) - 1)
        BY <1>1
      <4>4. Holds(box, PointAt(1, gone + along))
        BY <4>2, <4>3 DEF BoxHoldsRoute
      <4>5. PointAt(1, along)' = PointAt(1, gone + along)
        <5> DEFINE h == Heading(a, b)
        <5>0. /\ Heading(fix, b)[1] \in Int /\ Heading(fix, b)[2] \in Int
              /\ h[1] \in Int /\ h[2] \in Int
          BY <1>2, HeadingIsInt
        <5>1. /\ PointAt(1, along)' = <<fix[1] + along * Heading(fix, b)[1],
                                        fix[2] + along * Heading(fix, b)[2]>>
              /\ PointAt(1, gone + along) = <<a[1] + (gone + along) * h[1],
                                              a[2] + (gone + along) * h[2]>>
              /\ fix = <<a[1] + gone * h[1], a[2] + gone * h[2]>>
          BY <1>1, <2>1, <3>1, <3>3 DEF PointAt
        <5>2. along * Heading(fix, b)[1] = along * h[1] /\ along * Heading(fix, b)[2] = along * h[2]
          <6>1. CASE LegLength(fix, b) = 0
            <7>1. along = 0
              BY <2>5, <4>1, <6>1
            <7>2. \A x \in Int : 0 * x = 0
              OBVIOUS
            <7>3. QED
              BY <5>0, <7>1, <7>2
          <6>2. QED
            BY <2>1, <6>1
        <5>4. a[1] \in Int /\ a[2] \in Int /\ gone \in Int /\ along \in Int
          BY <1>2, <2>1, <3>2
        <5>6. fix[1] = a[1] + gone * h[1] /\ fix[2] = a[2] + gone * h[2]
          BY <5>1
        <5> HIDE DEF a, b, gone, h
        <5> DEFINE g == Heading(fix, b)
        <5>3. g[1] \in Int /\ g[2] \in Int /\ fix[1] \in Int /\ fix[2] \in Int
          BY <1>2, <5>0
        <5>5. along * g[1] = along * h[1] /\ along * g[2] = along * h[2]
          BY <5>2
        <5> HIDE DEF g
        <5>7. ASSUME NEW axis \in {1, 2}
              PROVE  fix[axis] + along * g[axis] = a[axis] + (gone + along) * h[axis]
          <6> DEFINE x == h[axis]
          <6>1. /\ x \in Int /\ a[axis] \in Int /\ fix[axis] = a[axis] + gone * x
                /\ along * g[axis] = along * x
            BY <5>0, <5>4, <5>5, <5>6
          <6> HIDE DEF x
          <6>2. /\ (gone + along) * x = gone * x + along * x
                /\ gone * x \in Int /\ along * x \in Int
            BY <5>4, <6>1
          <6>3. QED
            BY <6>1, <6>2 DEF x
        <5>9. QED
          BY <5>1, <5>7 DEF g
      <4>6. QED
        BY <3>3, <4>4, <4>5
    <3>4. CASE i # 1
      <4>1. i \in 2..Len(legPoints) /\ i + 1 # 1 /\ i + 1 - 1 = i
        BY <3>1, <3>4
      <4>2. LegTo(i + 1)' = LegTo(i + 1) /\ PointAt(i, along)' = PointAt(i, along)
        BY <1>1, <3>1, <4>1 DEF LegTo, PointAt
      <4>3. LengthUpTo[i] = LengthUpTo'[i] + gone
        BY <2>3, <4>1
      <4>4. LengthUpTo[i] + along <= asked
        <5> DEFINE nearer == LengthUpTo'[i]
        <5>1. /\ nearer \in Int /\ along \in Int /\ gone \in Int /\ LookAhead \in Int
              /\ LengthUpTo[i] = nearer + gone /\ nearer + along <= LookAhead - gone
          BY <1>2, <2>1, <2>2, <2>5, <3>1, <3>2, <4>3
        <5> HIDE DEF nearer, gone
        <5>2. (nearer + gone) + along <= LookAhead
          BY <5>1
        <5>3. QED
          BY <5>1, <5>2
      <4>5. QED
        BY <4>2, <4>4 DEF BoxHoldsRoute
    <3>5. QED
      BY <3>3, <3>4
  <2>6. BoxHoldsRoute'
    BY <1>1, <2>5 DEF BoxHoldsRoute, Holds
  <2>7. QED
    BY <1>4, <2>2, <2>6
<1>7. QED
  BY <1>5, <1>6

LEMMA BeginScanKeeps ==
    ASSUME CorridorInv, NEW fix \in Turns, BeginScan(fix)
    PROVE  CorridorInv'
<1> USE DEF CorridorInv
<1>0. /\ phase = "box" /\ phase' = "scan" /\ next' = 1 /\ travelled' = 0 /\ UNCHANGED <<box, flagged>>
      /\ RouteShape /\ flagged = <<>> /\ BoxHoldsRoute /\ asked = LookAhead
  BY DEF BeginScan
<1>1. RouteShape' /\ BoxHoldsRoute' /\ asked' \in Int /\ LengthUpTo'[1] = 0
  BY <1>0, NewFirstPoint, MovedOn
<1>2. next' \in 1..Len(legPoints')
  BY <1>0, <1>1 DEF RouteShape
<1>3. \A p, i : i \in LegsBeside(p)' => ~(i < next')
  BY <1>0, <1>1 DEF LegsBeside, Legs, RouteShape
<1>4. DOMAIN flagged' = {}
  BY <1>0
<1>5. FlaggedBefore(next)'
  BY <1>3, <1>4 DEF FlaggedBefore
<1>6. QED
  BY <1>0, <1>1, <1>2, <1>5

-----------------------------------------------------------------------------
LEMMA ProductShape == \A x, y \in Int : x * y \in Int
  OBVIOUS

LEMMA ProjectionShape ==
    ASSUME RouteShape, NEW i \in 1..(Len(legPoints) - 1), NEW p \in Int \X Int
    PROVE  /\ Projection(legPoints[i], legPoints[i + 1], p) \in [along: Int, cross: Int]
           /\ OnLeg(i, p) \in [along: Int, cross: Int]
           /\ OnLeg(i, p) = [Projection(legPoints[i], legPoints[i + 1], p)
                                EXCEPT !.along = @ + LengthUpTo[i]]
<1> DEFINE a == legPoints[i]
<1> DEFINE h == Heading(legPoints[i], legPoints[i + 1])
<1>1. a[1] \in Int /\ a[2] \in Int /\ p[1] \in Int /\ p[2] \in Int
  BY LegHeading
<1>2. h[1] \in Int /\ h[2] \in Int
  BY SMTT(20), LegHeading, HeadingShape
<1>3. LengthUpTo[i] \in Nat
  BY Lengths, LegHeading
<1>4. Projection(a, legPoints[i + 1], p) =
         [along |-> (p[1] - a[1]) * h[1] + (p[2] - a[2]) * h[2],
          cross |-> (p[1] - a[1]) * h[2] - (p[2] - a[2]) * h[1]]
  BY DEF Projection
<1>5. OnLeg(i, p) = [Projection(a, legPoints[i + 1], p) EXCEPT !.along = @ + LengthUpTo[i]]
  BY DEF OnLeg
<1> HIDE DEF a, h
<1>6. /\ (p[1] - a[1]) * h[1] + (p[2] - a[2]) * h[2] \in Int
      /\ (p[1] - a[1]) * h[2] - (p[2] - a[2]) * h[1] \in Int
  <2> DEFINE x == p[1] - a[1]
  <2> DEFINE y == p[2] - a[2]
  <2> DEFINE u == h[1]
  <2> DEFINE v == h[2]
  <2>1. x \in Int /\ y \in Int /\ u \in Int /\ v \in Int
    BY <1>1, <1>2
  <2> HIDE DEF x, y, u, v
  <2>2. x * u \in Int /\ y * v \in Int /\ x * v \in Int /\ y * u \in Int
    BY <2>1, ProductShape
  <2>3. x * u + y * v \in Int /\ x * v - y * u \in Int
    BY <2>2
  <2>4. QED
    BY <2>3 DEF x, y, u, v
<1>7. Projection(a, legPoints[i + 1], p) \in [along: Int, cross: Int]
  BY <1>4, <1>6
<1>8. OnLeg(i, p) \in [along: Int, cross: Int]
  BY <1>3, <1>5, <1>7
<1>9. QED
  BY <1>5, <1>7, <1>8 DEF a

LEMMA NotWorseOrBetter ==
    ASSUME NEW a \in [along: Int, cross: Int], NEW b \in [along: Int, cross: Int],
           NEW c \in [along: Int, cross: Int]
    PROVE  /\ NotWorse(a, a)
           /\ NotWorse(a, b) /\ Better(a, c) => NotWorse(c, b)
           /\ ~Better(a, c) => NotWorse(a, c)
  BY DEF NotWorse, Better, Magnitude

\* The box goes on holding the route while neither changes.
LEMMA BoxStays ==
    ASSUME UNCHANGED <<legPoints, box, asked>>
    PROVE  BoxHoldsRoute' <=> BoxHoldsRoute
<1>1. UNCHANGED legPoints
  OBVIOUS
<1>2. /\ LengthUpTo' = LengthUpTo
      /\ \A i : LegTo(i)' = LegTo(i)
      /\ \A i, along : PointAt(i, along)' = PointAt(i, along)
  BY <1>1, RouteStays
<1>3. QED
  BY <1>2 DEF BoxHoldsRoute, Holds

\* What one leg adds to what is flagged.
LEMMA ScanLegKeeps ==
    ASSUME CorridorInv, ScanLeg
    PROVE  CorridorInv'
<1> USE DEF CorridorInv
<1> DEFINE from == legPoints[next]
<1> DEFINE to == legPoints[next + 1]
<1> DEFINE length == LegLength(from, to)
<1> DEFINE onRoute(p) == [Projection(from, to, p[1]) EXCEPT !.along = @ + travelled]
<1> DEFINE hit == IF length = 0 THEN {}
                  ELSE {p \in Poi : p[2] \in CorridorKinds
                                      /\ InCorridor(Projection(from, to, p[1]), length)}
<1> DEFINE taken == {p \in hit : p \in DOMAIN flagged => Better(flagged[p], onRoute(p))}
<1>0. /\ phase = "scan" /\ next < Len(legPoints) /\ next' = next + 1
      /\ UNCHANGED <<legPoints, phase, box, asked>> /\ RouteShape /\ BoxHoldsRoute
      /\ asked \in Int
      /\ next \in 1..Len(legPoints) /\ travelled = LengthUpTo[next] /\ FlaggedBefore(next)
      /\ Len(legPoints) \in Nat
  BY DEF ScanLeg, RouteShape
<1>1. /\ flagged' = [p \in DOMAIN flagged \cup taken |->
                        IF p \in taken THEN onRoute(p) ELSE flagged[p]]
      /\ travelled' = travelled + length
  BY DEF ScanLeg
<1>2. /\ next \in 1..(Len(legPoints) - 1) /\ next + 1 \in 1..Len(legPoints)
      /\ next \in 0..Len(legPoints) /\ LegTo(next + 1) = length /\ next + 1 - 1 = next
  BY <1>0, LegHeading
<1>3. RouteShape' /\ BoxHoldsRoute' /\ asked' \in Int
  BY <1>0, BoxStays, RouteStays
<1>4. travelled' = LengthUpTo'[next']
  <2>1. LengthUpTo[next + 1] = LengthUpTo[next + 1 - 1] + LegTo(next + 1)
    BY <1>0, <1>2, Lengths
  <2>2. LengthUpTo' = LengthUpTo
    BY <1>0, RouteStays
  <2>3. QED
    BY <1>0, <1>1, <1>2, <2>1, <2>2
<1>5. \A p \in Sea \X CorridorKinds : p[1] \in Int \X Int /\ p \in Poi /\ p[2] \in CorridorKinds
  BY CorridorAssumption DEF Poi
<1>6. \A p \in Poi : p[2] \in CorridorKinds => p \in Sea \X CorridorKinds
  BY DEF Poi
<1>7. \A p \in Sea \X CorridorKinds : onRoute(p) = OnLeg(next, p[1])
  BY <1>0 DEF OnLeg
<1>8. \A p \in Sea \X CorridorKinds : p \in hit <=> next \in LegsBeside(p[1])
  <2>1. \A p : next \in LegsBeside(p) <=>
                  LegTo(next + 1) > 0 /\ InCorridor(Projection(from, to, p), LegTo(next + 1))
    BY <1>2 DEF LegsBeside, Legs
  <2>2. length \in Nat
    BY <1>0, <1>2, LegShape
  <2>3. QED
    BY <1>2, <1>5, <2>1, <2>2
<1>9. hit \subseteq Sea \X CorridorKinds
  BY <1>6
<1> DEFINE before == {p \in Sea \X CorridorKinds : \E i \in LegsBeside(p[1]) : i < next}
<1>10. DOMAIN flagged = before
  BY <1>0 DEF FlaggedBefore
<1>11. \A p \in Sea \X CorridorKinds : \A i \in LegsBeside(p[1]) :
          i \in 1..(Len(legPoints) - 1) /\ OnLeg(i, p[1]) \in [along: Int, cross: Int]
  BY <1>0, <1>5, BesideLegs, ProjectionShape
<1>12. \A p \in before : /\ \E j \in LegsBeside(p[1]) : j < next /\ flagged[p] = OnLeg(j, p[1])
                         /\ \A i \in LegsBeside(p[1]) : i < next => NotWorse(flagged[p], OnLeg(i, p[1]))
                         /\ flagged[p] \in [along: Int, cross: Int]
  <2>1. SUFFICES ASSUME NEW p \in before
        PROVE  /\ \E j \in LegsBeside(p[1]) : j < next /\ flagged[p] = OnLeg(j, p[1])
               /\ \A i \in LegsBeside(p[1]) : i < next => NotWorse(flagged[p], OnLeg(i, p[1]))
               /\ flagged[p] \in [along: Int, cross: Int]
    OBVIOUS
  <2>2. p \in DOMAIN flagged /\ p \in Sea \X CorridorKinds
    BY <1>10
  <2>3. /\ \E j \in LegsBeside(p[1]) : j < next /\ flagged[p] = OnLeg(j, p[1])
        /\ \A i \in LegsBeside(p[1]) : i < next => NotWorse(flagged[p], OnLeg(i, p[1]))
    BY <1>0, <2>2 DEF FlaggedBefore
  <2>4. QED
    BY <1>11, <2>2, <2>3
<1>13. taken \subseteq hit /\ \A p \in hit : p \notin taken => p \in before /\ ~Better(flagged[p], onRoute(p))
  BY <1>10
<1>14. \A p \in taken : p \in before => Better(flagged[p], onRoute(p))
  BY <1>10
<1>15. DOMAIN flagged' = before \cup taken
       /\ \A p \in before \cup taken : flagged'[p] = IF p \in taken THEN onRoute(p) ELSE flagged[p]
  BY <1>1, <1>10
<1> HIDE DEF onRoute, hit, taken, from, to, length
<1>16. DOMAIN flagged' = {p \in Sea \X CorridorKinds : \E i \in LegsBeside(p[1]) : i < next + 1}
  <2>1. ASSUME NEW p \in Sea \X CorridorKinds
        PROVE  p \in before \cup taken <=> \E i \in LegsBeside(p[1]) : i < next + 1
    <3>1. (\E i \in LegsBeside(p[1]) : i < next + 1) <=>
             (\E i \in LegsBeside(p[1]) : i < next) \/ next \in LegsBeside(p[1])
      <4>1. next \in Int /\ \A i \in LegsBeside(p[1]) : i \in Int
        BY <1>0, <1>11
      <4>2. \A i \in LegsBeside(p[1]) : i < next + 1 <=> i < next \/ i = next
        BY <4>1
      <4>3. QED
        BY <4>2
    <3>2. p \in hit => p \in before \cup taken
      BY <1>13
    <3>3. QED
      BY <1>8, <1>13, <3>1, <3>2
  <2>2. before \cup taken \subseteq Sea \X CorridorKinds
    BY <1>9, <1>13
  <2>3. QED
    BY <1>15, <2>1, <2>2
<1>17. ASSUME NEW p \in DOMAIN flagged'
       PROVE  /\ \E j \in LegsBeside(p[1]) : j < next + 1 /\ flagged'[p] = OnLeg(j, p[1])
              /\ \A i \in LegsBeside(p[1]) : i < next + 1 => NotWorse(flagged'[p], OnLeg(i, p[1]))
  <2>1. p \in Sea \X CorridorKinds /\ p \in before \cup taken
    BY <1>15, <1>16, <1>17
  <2>2. \A i \in LegsBeside(p[1]) : i < next + 1 => i < next \/ i = next
    BY SMTT(20), <1>0, <1>11, <2>1
  <2>3. CASE p \in taken
    <3>1. next \in LegsBeside(p[1]) /\ flagged'[p] = OnLeg(next, p[1])
      BY <1>7, <1>8, <1>13, <1>15, <2>1, <2>3
    <3>2. OnLeg(next, p[1]) \in [along: Int, cross: Int]
      BY <1>11, <2>1, <3>1
    <3>3. ASSUME NEW i \in LegsBeside(p[1]), i < next
          PROVE  NotWorse(OnLeg(next, p[1]), OnLeg(i, p[1]))
      <4>1. p \in before
        BY <2>1, <3>3
      <4>2. NotWorse(flagged[p], OnLeg(i, p[1])) /\ flagged[p] \in [along: Int, cross: Int]
        BY <1>12, <3>3, <4>1
      <4>3. Better(flagged[p], OnLeg(next, p[1]))
        BY <1>7, <1>14, <2>1, <2>3, <4>1
      <4>4. OnLeg(i, p[1]) \in [along: Int, cross: Int]
        BY <1>11, <2>1
      <4>5. QED
        BY <3>2, <4>2, <4>3, <4>4, NotWorseOrBetter
    <3>4. NotWorse(OnLeg(next, p[1]), OnLeg(next, p[1]))
      BY <3>2, NotWorseOrBetter
    <3>5. next < next + 1
      BY <1>0
    <3>6. QED
      BY <2>2, <3>1, <3>3, <3>4, <3>5
  <2>4. CASE p \notin taken
    <3>1. p \in before /\ flagged'[p] = flagged[p]
      BY <1>15, <2>1, <2>4
    <3>2. PICK j \in LegsBeside(p[1]) : j < next /\ flagged[p] = OnLeg(j, p[1])
      BY <1>12, <3>1
    <3>3. j < next + 1
      BY <1>0, <1>11, <2>1, <3>2
    <3>4. ASSUME next \in LegsBeside(p[1]) PROVE NotWorse(flagged[p], OnLeg(next, p[1]))
      <4>1. ~Better(flagged[p], OnLeg(next, p[1]))
        BY <1>7, <1>8, <1>13, <2>1, <2>4, <3>4
      <4>2. flagged[p] \in [along: Int, cross: Int] /\ OnLeg(next, p[1]) \in [along: Int, cross: Int]
        BY <1>11, <1>12, <2>1, <3>1, <3>4
      <4>3. QED
        BY <4>1, <4>2, NotWorseOrBetter
    <3>5. QED
      BY <1>12, <2>2, <3>1, <3>2, <3>3, <3>4
  <2>5. QED
    BY <2>3, <2>4
<1>18. FlaggedBefore(next)'
  <2>1. /\ \A p : LegsBeside(p)' = LegsBeside(p)
        /\ \A i, p : OnLeg(i, p)' = OnLeg(i, p)
    BY <1>0, RouteStays
  <2>2. QED
    BY <1>0, <1>16, <1>17, <2>1 DEF FlaggedBefore, NotWorse
<1>19. next' \in 1..Len(legPoints') /\ phase' = "scan"
  BY <1>0, <1>2
<1>20. QED
  BY <1>3, <1>4, <1>18, <1>19

LEMMA EndScanKeeps ==
    ASSUME CorridorInv, EndScan
    PROVE  CorridorInv'
<1> USE DEF CorridorInv
<1> DEFINE ahead == {p \in DOMAIN flagged : WithinLookAhead(flagged[p].along)}
<1>0. /\ phase = "scan" /\ phase' = "done" /\ next = Len(legPoints) /\ asked' \in Int
      /\ UNCHANGED <<legPoints, next, travelled, box, asked>> /\ RouteShape
      /\ BoxHoldsRoute /\ FlaggedBefore(next) /\ flagged' = [p \in ahead |-> flagged[p]]
  BY DEF EndScan
<1>1. RouteShape' /\ BoxHoldsRoute'
  BY <1>0, BoxStays, RouteStays
<1>2. \A p : \A i \in LegsBeside(p) : i < next
  BY <1>0, BesideLegs
<1> DEFINE beside == {p \in Sea \X CorridorKinds : LegsBeside(p[1]) # {}}
<1>3. DOMAIN flagged = beside
  BY <1>0, <1>2 DEF FlaggedBefore
<1>4. \A p \in Sea \X CorridorKinds : \A i \in LegsBeside(p[1]) :
         OnLeg(i, p[1]) \in [along: Int, cross: Int]
  BY <1>0, CorridorAssumption, BesideLegs, ProjectionShape
<1>5. ASSUME NEW p \in beside
      PROVE  /\ \E j \in LegsBeside(p[1]) : IsNearest(j, p[1]) /\ flagged[p] = OnLeg(j, p[1])
             /\ \A i \in LegsBeside(p[1]) : IsNearest(i, p[1]) => OnLeg(i, p[1]).along = flagged[p].along
  <2>1. p \in DOMAIN flagged /\ p \in Sea \X CorridorKinds
    BY <1>3
  <2>2. PICK j \in LegsBeside(p[1]) : flagged[p] = OnLeg(j, p[1])
    BY <1>0, <2>1 DEF FlaggedBefore
  <2>3. \A i \in LegsBeside(p[1]) : NotWorse(OnLeg(j, p[1]), OnLeg(i, p[1]))
    BY <1>0, <1>2, <2>1, <2>2 DEF FlaggedBefore
  <2>4. ASSUME NEW i \in LegsBeside(p[1]), IsNearest(i, p[1])
        PROVE  OnLeg(i, p[1]).along = OnLeg(j, p[1]).along
    <3> DEFINE one == OnLeg(i, p[1])
    <3> DEFINE other == OnLeg(j, p[1])
    <3>1. one \in [along: Int, cross: Int] /\ other \in [along: Int, cross: Int]
      BY <1>4, <2>1
    <3>2. NotWorse(other, one) /\ NotWorse(one, other)
      BY <2>3, <2>4 DEF IsNearest
    <3> HIDE DEF one, other
    <3>3. one.along = other.along
      BY <3>1, <3>2 DEF NotWorse, Magnitude
    <3>4. QED
      BY <3>3 DEF one, other
  <2>5. QED
    BY <2>2, <2>3, <2>4 DEF IsNearest
<1>6. /\ \A p : LegsBeside(p)' = LegsBeside(p)
      /\ \A i, p : OnLeg(i, p)' = OnLeg(i, p)
  BY <1>0, RouteStays
<1>7. \A i, p : IsNearest(i, p)' <=> IsNearest(i, p)
  BY <1>6 DEF IsNearest, NotWorse
<1>8. DOMAIN flagged' = {p \in beside : flagged[p].along <= LookAhead}
      /\ \A p \in DOMAIN flagged' : flagged'[p] = flagged[p]
  BY <1>0, <1>3 DEF WithinLookAhead
<1>9. {p \in beside : flagged[p].along <= LookAhead} =
        {p \in Sea \X CorridorKinds :
           \E i \in LegsBeside(p[1]) : IsNearest(i, p[1]) /\ OnLeg(i, p[1]).along <= LookAhead}
  <2>1. ASSUME NEW p \in beside
        PROVE  flagged[p].along <= LookAhead <=>
                 \E i \in LegsBeside(p[1]) : IsNearest(i, p[1]) /\ OnLeg(i, p[1]).along <= LookAhead
    BY <1>5
  <2>2. \A p \in Sea \X CorridorKinds : LegsBeside(p[1]) # {} <=> p \in beside
    OBVIOUS
  <2> HIDE DEF beside
  <2>3. beside \subseteq Sea \X CorridorKinds
    BY DEF beside
  <2>4. QED
    BY <2>1, <2>2, <2>3
<1>10. ASSUME NEW p \in DOMAIN flagged'
       PROVE  \E i \in LegsBeside(p[1]) : IsNearest(i, p[1]) /\ flagged'[p] = OnLeg(i, p[1])
  BY <1>5, <1>8
<1> HIDE DEF beside, ahead
<1>11. ScanIsExact'
  BY <1>6, <1>7, <1>8, <1>9, <1>10 DEF ScanIsExact
<1>12. QED
  BY <1>0, <1>1, <1>11

LEMMA CorridorInvStep == CorridorInv /\ [CorridorNext]_corridorVars => CorridorInv'
<1>1. SUFFICES ASSUME CorridorInv, [CorridorNext]_corridorVars PROVE CorridorInv'
  OBVIOUS
<1>2. CASE BoxPoint
  BY <1>1, <1>2, BoxPointKeeps
<1>3. CASE \E fix \in Turns : BeginScan(fix)
  BY <1>1, <1>3, BeginScanKeeps
<1>4. CASE ScanLeg
  BY <1>1, <1>4, ScanLegKeeps
<1>5. CASE EndScan
  BY <1>1, <1>5, EndScanKeeps
<1>6. CASE UNCHANGED corridorVars
  <2>1. UNCHANGED <<legPoints, next, travelled, phase, box, flagged, asked>>
    BY <1>6 DEF corridorVars
  <2>2. /\ RouteShape' <=> RouteShape
        /\ LengthUpTo' = LengthUpTo
        /\ \A i : LegTo(i)' = LegTo(i)
        /\ \A i, along : PointAt(i, along)' = PointAt(i, along)
        /\ \A p : LegsBeside(p)' = LegsBeside(p)
        /\ \A i, p : OnLeg(i, p)' = OnLeg(i, p)
    BY <2>1, RouteStays
  <2>3. BoxHoldsRoute' <=> BoxHoldsRoute
    BY <2>1, <2>2 DEF BoxHoldsRoute, Holds
  <2>4. BoxSoFar' <=> BoxSoFar
    BY <2>1, <2>2 DEF BoxSoFar, Holds
  <2>5. \A k : FlaggedBefore(k)' <=> FlaggedBefore(k)
    BY <2>1, <2>2 DEF FlaggedBefore, NotWorse
  <2>6. FlaggedBefore(next)' <=> FlaggedBefore(next)
    BY <2>1, <2>2 DEF FlaggedBefore, NotWorse
  <2>7. ScanIsExact' <=> ScanIsExact
    BY <2>1, <2>2 DEF ScanIsExact, IsNearest, NotWorse
  <2>8. QED
    BY <1>1, <2>1, <2>2, <2>3, <2>4, <2>6, <2>7 DEF CorridorInv
<1>7. QED
  BY <1>1, <1>2, <1>3, <1>4, <1>5, <1>6 DEF CorridorNext

\* A place abeam of a point, no further off than the reach, lies in a box that holds the point.
LEMMA AbeamOfPoint ==
    ASSUME NEW x \in Int, NEW y \in Int, NEW m \in Int, NEW n \in Int,
           NEW west \in Int, NEW east \in Int, NEW south \in Int, NEW north \in Int, NEW reach \in Nat,
           \/ x = m /\ -reach <= y - n /\ y - n <= reach
           \/ y = n /\ -reach <= x - m /\ x - m <= reach,
           west <= m - reach, m + reach <= east, south <= n - reach, n + reach <= north
    PROVE  x \in west..east /\ y \in south..north
  OBVIOUS

LEMMA BesideIsHeld ==
    ASSUME RouteShape, BoxHoldsRoute, NEW p \in Sea, NEW i \in LegsBeside(p),
           OnLeg(i, p).along <= asked
    PROVE  InBox(p)
<1>1. p \in Int \X Int
  BY CorridorAssumption
<1>2. i \in 1..(Len(legPoints) - 1)
  BY BesideLegs
<1> DEFINE a == legPoints[i]
<1> DEFINE h == Heading(legPoints[i], legPoints[i + 1])
<1> DEFINE projection == Projection(legPoints[i], legPoints[i + 1], p)
<1>3. /\ LegTo(i + 1) > 0 /\ projection.along \in 0..LegTo(i + 1)
      /\ Magnitude(projection.cross) <= HalfWidth
  BY DEF LegsBeside, InCorridor
<1>4. /\ a \in Int \X Int
      /\ h \in {<<1, 0>>, <<-1, 0>>, <<0, 1>>, <<0, -1>>}
  BY <1>2, <1>3, LegHeading, HeadingShape
<1>5. /\ projection.along = (p[1] - a[1]) * h[1] + (p[2] - a[2]) * h[2]
      /\ projection.cross = (p[1] - a[1]) * h[2] - (p[2] - a[2]) * h[1]
  BY DEF Projection
<1>6. projection \in [along: Int, cross: Int] /\ OnLeg(i, p) = [projection EXCEPT !.along = @ + LengthUpTo[i]]
  BY <1>1, <1>2, ProjectionShape
<1>7. PointAt(i, projection.along) = <<a[1] + projection.along * h[1], a[2] + projection.along * h[2]>>
  BY DEF PointAt
<1>8. LegTo(i + 1) \in Nat /\ LengthUpTo[i] \in Nat
  BY <1>2, LegHeading, LegShape, Lengths
<1> HIDE DEF a, h, projection
<1>9. projection.along \in Nat /\ LengthUpTo[i] + projection.along <= asked
  <2>1. OnLeg(i, p).along = projection.along + LengthUpTo[i]
    BY <1>6
  <2>2. projection.along \in Nat
    BY <1>3, <1>8
  <2>3. QED
    BY <1>8, <2>1, <2>2
<1>10. Holds(box, PointAt(i, projection.along))
  BY <1>2, <1>3, <1>9 DEF BoxHoldsRoute
<1>11. box \in Boxes
  BY <1>10 DEF Holds, Boxes
<1> DEFINE d == projection.along
<1> DEFINE x == p[1]
<1> DEFINE y == p[2]
<1> DEFINE u == a[1]
<1> DEFINE v == a[2]
<1> DEFINE i1 == h[1]
<1> DEFINE i2 == h[2]
<1> DEFINE m == PointAt(i, projection.along)[1]
<1> DEFINE n == PointAt(i, projection.along)[2]
<1> DEFINE west == box.west
<1> DEFINE east == box.east
<1> DEFINE south == box.south
<1> DEFINE north == box.north
<1>12. /\ x \in Int /\ y \in Int /\ u \in Int /\ v \in Int /\ HalfWidth \in Nat /\ d \in Nat
       /\ west \in Int /\ east \in Int /\ south \in Int /\ north \in Int
  BY <1>1, <1>4, <1>9, <1>11, CorridorAssumption DEF Boxes
<1>13. i1 \in {-1, 0, 1} /\ i2 \in {-1, 0, 1} /\ ((i1 # 0 /\ i2 = 0) \/ (i1 = 0 /\ i2 # 0))
  BY <1>4
<1>14. d = (x - u) * i1 + (y - v) * i2 /\ Magnitude((x - u) * i2 - (y - v) * i1) <= HalfWidth
  BY <1>3, <1>5
<1>15. m = u + d * i1 /\ n = v + d * i2
  BY <1>7
<1>16. /\ west <= m - HalfWidth /\ m + HalfWidth <= east
       /\ south <= n - HalfWidth /\ n + HalfWidth <= north
  BY <1>10 DEF Holds
<1> HIDE DEF d, x, y, u, v, i1, i2, m, n, west, east, south, north
<1>17. /\ m \in Int /\ n \in Int
       /\ \/ x = m /\ -HalfWidth <= y - n /\ y - n <= HalfWidth
          \/ y = n /\ -HalfWidth <= x - m /\ x - m <= HalfWidth
  <2> DEFINE forth == x - u
  <2> DEFINE off == y - v
  <2>1. forth \in Int /\ off \in Int /\ d \in Int /\ x = u + forth /\ y = v + off
    BY <1>12
  <2>2. \A j \in Int : j * 0 = 0 /\ j * 1 = j /\ j * (-1) = -j
    OBVIOUS
  <2>3. d = forth * i1 + off * i2 /\ Magnitude(forth * i2 - off * i1) <= HalfWidth
    BY <1>14
  <2> HIDE DEF forth, off
  <2>4. CASE i1 = 1
    <3>1. /\ forth * i1 = forth /\ off * i2 = 0 /\ forth * i2 = 0 /\ off * i1 = off
          /\ d * i1 = d /\ d * i2 = 0
      BY <1>13, <2>1, <2>2, <2>4
    <3>2. d = forth /\ -HalfWidth <= off /\ off <= HalfWidth
      BY <1>12, <2>1, <2>3, <3>1 DEF Magnitude
    <3>3. QED
      BY <1>12, <1>15, <2>1, <3>1, <3>2
  <2>5. CASE i1 = -1
    <3>1. /\ forth * i1 = -forth /\ off * i2 = 0 /\ forth * i2 = 0 /\ off * i1 = -off
          /\ d * i1 = -d /\ d * i2 = 0
      BY <1>13, <2>1, <2>2, <2>5
    <3>2. d = -forth /\ -HalfWidth <= off /\ off <= HalfWidth
      BY <1>12, <2>1, <2>3, <3>1 DEF Magnitude
    <3>3. QED
      BY <1>12, <1>15, <2>1, <3>1, <3>2
  <2>6. CASE i1 = 0 /\ i2 = 1
    <3>1. /\ forth * i1 = 0 /\ off * i2 = off /\ forth * i2 = forth /\ off * i1 = 0
          /\ d * i1 = 0 /\ d * i2 = d
      BY <2>1, <2>2, <2>6
    <3>2. d = off /\ -HalfWidth <= forth /\ forth <= HalfWidth
      BY <1>12, <2>1, <2>3, <3>1 DEF Magnitude
    <3>3. QED
      BY <1>12, <1>15, <2>1, <3>1, <3>2
  <2>7. CASE i1 = 0 /\ i2 = -1
    <3>1. /\ forth * i1 = 0 /\ off * i2 = -off /\ forth * i2 = -forth /\ off * i1 = 0
          /\ d * i1 = 0 /\ d * i2 = -d
      BY <2>1, <2>2, <2>7
    <3>2. d = -off /\ -HalfWidth <= forth /\ forth <= HalfWidth
      BY <1>12, <2>1, <2>3, <3>1 DEF Magnitude
    <3>3. QED
      BY <1>12, <1>15, <2>1, <3>1, <3>2
  <2>8. QED
    BY <1>13, <2>4, <2>5, <2>6, <2>7
<1>18. x \in west..east /\ y \in south..north
  BY <1>12, <1>16, <1>17, AbeamOfPoint
<1>19. QED
  BY <1>18 DEF InBox, x, y, west, east, south, north

LEMMA CorridorInvSound == CorridorInv => CorridorSound
<1>1. SUFFICES ASSUME CorridorInv PROVE CorridorSound
  OBVIOUS
<1>2. phase = "done" => ScanIsExact
  BY <1>1 DEF CorridorInv
<1>3. phase # "box" \/ next > Len(legPoints) => RouteShape /\ BoxHoldsRoute
  BY <1>1 DEF CorridorInv
<1>4. ScanIsExact
  BY <1>2 DEF ScanIsExact
<1>5. BoxHoldsCorridor
  BY <1>3, BesideIsHeld DEF BoxHoldsCorridor
<1>6. QED
  BY <1>4, <1>5 DEF CorridorSound

\* Once a tick has scanned its route, the points it has flagged are those in the
\* corridor of some leg whose nearest leg passes them within the look-ahead, each by
\* that leg; and the box it asked for holds whatever the corridor held up to the end of
\* the look-ahead when it asked, less what the vessel went on along its leg meanwhile
\* (scanRouteCorridor, routeCorridorBbox and the filter of evaluate), for routes of any
\* length.
THEOREM CorridorIsScanned == CorridorSpec => []CorridorSound
<1>1. CorridorSpec => []CorridorInv
  BY CorridorInvInit, CorridorInvStep, PTL DEF CorridorSpec
<1>2. QED
  BY <1>1, CorridorInvSound, PTL
================================================================================
