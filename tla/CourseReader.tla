---------------------------- MODULE CourseReader ----------------------------
(***************************************************************************)
(* The course reader of the route-corridor scan (course-reader.ts): a      *)
(* cached polyline of the route being followed, re-resolved in the         *)
(* background whenever the Course API publishes a change.  A refresh       *)
(* awaits the course and then the route resource, so several can be out    *)
(* at once, and each may fail.  A generation number decides which one may  *)
(* write the cache.                                                        *)
(*                                                                         *)
(* The server is the environment: it changes the course, queues the deltas *)
(* that say so, and answers a question with the course of some moment      *)
(* between the call and the answer.                                        *)
(***************************************************************************)
EXTENDS Integers, Sequences, FiniteSets

CONSTANTS
    Routes,         \* the polylines a course can resolve to
    NoRoute,        \* no route is being followed
    NextPoint,      \* a delta on the nextPoint path
    MaxChanges      \* bound: deltas the server publishes

ASSUME RoutesAssumption == NoRoute \notin Routes /\ NextPoint \notin Routes \cup {NoRoute}
ASSUME ChangesAssumption == MaxChanges \in Nat

VARIABLES
    currentRoute, refreshGeneration, readerStopped,
    refreshes,      \* the refreshes whose continuation is still to run
    changed,        \* onRouteChange has been called: flips on each call
    course, deltas, published,  \* the server: its course, its queue, its count
    clearedAt,      \* history: the generation the last cleared-route delta took
    outcome         \* history: how the cache came by its value

cacheVars == <<currentRoute, refreshGeneration, readerStopped, refreshes, changed,
                clearedAt, outcome>>
serverVars == <<course, deltas, published>>
readerVars == <<cacheVars, serverVars>>

Courses == Routes \cup {NoRoute}

ReaderInit ==
    /\ currentRoute = NoRoute
    /\ refreshGeneration = 1
    /\ readerStopped = FALSE
    /\ refreshes = {[generation |-> 1, phase |-> "asked", course |-> NoRoute]}
    /\ changed = FALSE
    /\ course \in Courses
    /\ deltas = <<>>
    /\ published = 0
    /\ clearedAt = 0
    /\ outcome = "none"

-----------------------------------------------------------------------------
(* The server. *)

Publish(some) ==
    /\ published < MaxChanges
    /\ published' = published + 1
    /\ deltas' = deltas \o some
    /\ UNCHANGED cacheVars

\* A route is activated, or replaces the one followed.
Activate == \E r \in Routes : course' = r /\ Publish(<<r>>)

\* The passage advances to another leg, or the destination is published again.
NextLeg == course # NoRoute /\ (\E r \in Routes : course' = r) /\ Publish(<<NextPoint>>)

\* The route is finished or cancelled: both paths are cleared.
Cancel == course # NoRoute /\ course' = NoRoute /\ Publish(<<NoRoute, NextPoint>>)

-----------------------------------------------------------------------------
(* The cache. *)

\* Fault: any refresh may commit, in the order they resolve.
ApplyRefreshInAnyOrder(generation, newest, route, how) ==
    IF readerStopped
      THEN UNCHANGED <<currentRoute, changed, outcome>>
      ELSE /\ currentRoute' = route
           /\ changed' = IF route = currentRoute THEN changed ELSE ~changed
           /\ outcome' = how

\* applyRefresh: commit a result unless it has been superseded; tell of a change.
ApplyRefresh(generation, newest, route, how) ==
    IF readerStopped \/ generation # newest
      THEN UNCHANGED <<currentRoute, changed, outcome>>
      ELSE /\ currentRoute' = route
           /\ changed' = IF route = currentRoute THEN changed ELSE ~changed
           /\ outcome' = how

\* Fault: no new refresh while one is out.
ScheduleRefreshOnce ==
    /\ IF refreshes # {}
         THEN UNCHANGED <<refreshGeneration, refreshes>>
         ELSE /\ refreshGeneration' = refreshGeneration + 1
              /\ refreshes' = {[generation |-> refreshGeneration + 1, phase |-> "asked",
                                course |-> NoRoute]}
    /\ UNCHANGED <<currentRoute, changed, clearedAt, outcome>>

\* scheduleRefresh: a refresh runs up to its first await.
ScheduleRefresh ==
    /\ refreshGeneration' = refreshGeneration + 1
    /\ refreshes' = refreshes \cup
          {[generation |-> refreshGeneration + 1, phase |-> "asked", course |-> NoRoute]}
    /\ UNCHANGED <<currentRoute, changed, clearedAt, outcome>>

\* Fault: the cleared-route delta leaves the refreshes that are out valid.
ClearRouteSameGeneration ==
    /\ clearedAt' = refreshGeneration
    /\ ApplyRefresh(refreshGeneration, refreshGeneration, NoRoute, "resolved")
    /\ UNCHANGED <<refreshGeneration, refreshes>>

\* The cleared-route delta drops the route at once, and outdates every refresh.
ClearRoute ==
    /\ refreshGeneration' = refreshGeneration + 1
    /\ clearedAt' = refreshGeneration + 1
    /\ ApplyRefresh(refreshGeneration + 1, refreshGeneration + 1, NoRoute, "resolved")
    /\ UNCHANGED refreshes

\* A delta arrives: onActiveRouteDelta, or scheduleRefresh on the other path.
OnDelta ==
    /\ ~readerStopped
    /\ deltas # <<>>
    /\ deltas' = Tail(deltas)
    /\ IF Head(deltas) = NoRoute THEN ClearRoute ELSE ScheduleRefresh
    /\ UNCHANGED <<readerStopped, course, published>>

\* The server takes the course it will answer with.
ServerReads(f) ==
    /\ f.phase = "asked"
    /\ refreshes' = (refreshes \ {f}) \cup {[f EXCEPT !.phase = "answered", !.course = course]}
    /\ UNCHANGED <<currentRoute, refreshGeneration, readerStopped, changed, clearedAt,
                   outcome, serverVars>>

\* A refresh ends with a result.
Ends(f, route, how) ==
    /\ refreshes' = refreshes \ {f}
    /\ ApplyRefresh(f.generation, refreshGeneration, route, how)
    /\ UNCHANGED <<refreshGeneration, readerStopped, clearedAt, serverVars>>

\* getCourse resolves: with no route the refresh is over, else it asks on.
CourseResolves(f) ==
    /\ f.phase = "answered"
    /\ \/ f.course = NoRoute /\ Ends(f, NoRoute, "resolved")
       \/ /\ f.course # NoRoute
          /\ refreshes' = (refreshes \ {f}) \cup {[f EXCEPT !.phase = "fetching"]}
          /\ UNCHANGED <<currentRoute, refreshGeneration, readerStopped, changed,
                         clearedAt, outcome, serverVars>>

\* getResource resolves to the polyline of the route.
ResourceResolves(f) == f.phase = "fetching" /\ Ends(f, f.course, "resolved")

\* Either call rejects, or what it answered cannot be used.
RefreshFails(f) == Ends(f, NoRoute, "failed")

Continue == \E f \in refreshes :
                ServerReads(f) \/ CourseResolves(f) \/ ResourceResolves(f) \/ RefreshFails(f)

\* stop().
StopReader ==
    /\ ~readerStopped
    /\ readerStopped' = TRUE
    /\ currentRoute' = NoRoute
    /\ UNCHANGED <<refreshGeneration, refreshes, changed, clearedAt, outcome, serverVars>>

ReaderNext ==
    \/ Activate \/ NextLeg \/ Cancel
    \/ OnDelta
    \/ Continue
    \/ StopReader

\* Deltas are delivered, calls are answered and continuations run.
ReaderFairness == WF_readerVars(OnDelta) /\ WF_readerVars(Continue)

ReaderSpec == ReaderInit /\ [][ReaderNext]_readerVars /\ ReaderFairness

-----------------------------------------------------------------------------
\* The types of the state.
ReaderTypeOK ==
    /\ currentRoute \in Courses /\ course \in Courses
    /\ refreshGeneration \in Nat /\ clearedAt \in Nat /\ published \in 0..MaxChanges
    /\ readerStopped \in BOOLEAN /\ changed \in BOOLEAN
    /\ refreshes \subseteq [generation: 1..refreshGeneration,
                            phase: {"asked", "answered", "fetching"}, course: Courses]
    /\ deltas \in Seq(Courses \cup {NextPoint})
    /\ outcome \in {"none", "resolved", "failed"}

\* The refresh that may still write the cache.
Current == {f \in refreshes : f.generation = refreshGeneration}

\* Once every delta is in and the newest refresh is through without failing, the
\* cache is the course, whatever older refreshes answered and in which order.
CacheIsCourse ==
    ~readerStopped /\ deltas = <<>> /\ Current = {} /\ outcome = "resolved" =>
        currentRoute = course

\* A route comes into the cache only by a refresh that began after the last
\* cleared-route delta: a slow one cannot bring a cancelled route back.
NoResurrection ==
    [][currentRoute' \notin {currentRoute, NoRoute} =>
          \E f \in refreshes \ refreshes' :
              f.generation > clearedAt /\ f.generation = refreshGeneration]_readerVars

\* The cache settles on the course, or on nothing after a failed refresh.
Converges == <>[](readerStopped \/ outcome = "failed" \/ currentRoute = course)
=============================================================================
