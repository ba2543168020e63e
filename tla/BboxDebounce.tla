---------------------------- MODULE BboxDebounce ----------------------------
(***************************************************************************)
(* The stale-while-revalidate cache in front of a source's list requests   *)
(* (bbox-debounce.ts), with caching on.  Viewports are the tiles they snap *)
(* to.  An entry knows whether its first fetch is out, failed or           *)
(* succeeded, and the ages the code compares with its windows, each capped *)
(* where the comparison stops caring.  A fetch knows whether the entry it  *)
(* serves is still the one in the cache - it may have been evicted,        *)
(* replaced or cleared since - which readers await it, and its place among *)
(* the requests out for that entry (so that a second one would be seen).   *)
(***************************************************************************)
EXTENDS Integers, FiniteSets, SequencesExt

CONSTANTS
    Readers,        \* callers of get
    Tiles,          \* the snapped boxes
    Neighbours,     \* tile -> the tiles a view of it may be near to
    Capacity,       \* MAX_BBOX_CACHE_ENTRIES
    Ttl,            \* ttlMs
    DegradedTtl,    \* degradedTtlMs
    CoolDown,       \* FETCH_FAILURE_COOLDOWN_MS
    NoEntry

ASSUME NeighboursAssumption ==
    /\ Neighbours \in [Tiles -> SUBSET Tiles]
    /\ \A t \in Tiles : /\ t \notin Neighbours[t]
                         /\ IsFiniteSet(Neighbours[t]) /\ Cardinality(Neighbours[t]) < Capacity
ASSUME WindowsAssumption ==
    /\ Capacity \in Nat \ {0} /\ Ttl \in Nat \ {0} /\ CoolDown \in Nat \ {0}
    /\ DegradedTtl \in 1..Ttl

VARIABLES
    cache,      \* tile -> its entry
    recency,    \* the cached tiles, the last used first
    fetches     \* the requests out

cacheVars == <<cache, recency, fetches>>

\* GeoEntry: promise, value and ok; freshAt; failedAt; revalidating.
Entry == [state: {"fetching", "failed", "ok"}, age: 0..Ttl, failedAge: 0..CoolDown,
          revalidating: BOOLEAN]

ASSUME NoEntryAssumption == NoEntry \notin Entry

Fetch == [tile: Tiles, kind: {"first", "refresh"}, live: BOOLEAN,
          waiters: SUBSET Readers, nth: Nat \ {0}]

NewEntry == [state |-> "fetching", age |-> Ttl, failedAge |-> CoolDown,
             revalidating |-> FALSE]

CacheInit ==
    /\ cache = [t \in Tiles |-> NoEntry]
    /\ recency = <<>>
    /\ fetches = {}

-----------------------------------------------------------------------------
Cached(t) == cache[t] # NoEntry
Ok(t) == Cached(t) /\ cache[t].state = "ok"
Fresh(t) == Ok(t) /\ cache[t].age < Ttl
InFailureCoolDown(t) == cache[t].failedAge < CoolDown
Waits(r) == \E f \in fetches : r \in f.waiters

\* The other tiles, in their order.
Without(t) ==
    IF \E i \in DOMAIN recency : recency[i] = t
      THEN RemoveAt(recency, CHOOSE i \in DOMAIN recency : recency[i] = t)
      ELSE recency

\* Fault: a used tile keeps its old place too.
BumpedTwice(t) == <<t>> \o recency

Bumped(t) == <<t>> \o Without(t)

\* The cache after its tiles were used in this order, the last one first, their
\* entries are these, and fetches have started: the oldest tiles are evicted,
\* and what was fetched for an entry that is gone is fetched for nothing.
Use(order, entries, started) ==
    LET gone == {order[i] : i \in (Capacity + 1)..Len(order)}
        replaced == gone \cup {f.tile : f \in {x \in started : x.kind # "refresh"}}
    IN
    /\ recency' = IF Len(order) > Capacity THEN SubSeq(order, 1, Capacity) ELSE order
    /\ cache' = [t \in Tiles |-> IF t \in gone THEN NoEntry ELSE entries[t]]
    /\ fetches' = {[f EXCEPT !.live = @ /\ f.tile \notin replaced] : f \in fetches}
                    \cup {[f EXCEPT !.live = f.tile \notin gone] : f \in started}

Started(t, kind, waiters) ==
    [tile |-> t, kind |-> kind, live |-> TRUE, waiters |-> waiters,
     nth |-> Cardinality({f \in fetches : f.tile = t /\ f.live}) + 1]

\* get: a tile not known, or one that failed and has cooled down.
ReadMiss(r, t) ==
    /\ Cached(t) => cache[t].state = "failed" /\ ~InFailureCoolDown(t)
    /\ Use(Bumped(t), [cache EXCEPT ![t] = NewEntry], {Started(t, "first", {r})})

\* get: the first fetch of the tile is out.  The read joins it, also
\* that of a prefetch.
ReadJoins(r, t) ==
    /\ Cached(t) /\ cache[t].state = "fetching"
    /\ recency' = Bumped(t)
    /\ fetches' = {IF f.tile = t /\ f.live
                     THEN [f EXCEPT !.waiters = @ \cup {r}] ELSE f : f \in fetches}
    /\ UNCHANGED cache

\* Fault: a tile that failed is fetched again by every read.
ReplaysNothing(r, t) ==
    /\ Cached(t) /\ cache[t].state = "failed" /\ InFailureCoolDown(t)
    /\ Use(Bumped(t), [cache EXCEPT ![t] = NewEntry], {Started(t, "first", {r})})

\* get: the tile failed lately, and so does the read.
ReadReplays(r, t) ==
    /\ Cached(t) /\ cache[t].state = "failed" /\ InFailureCoolDown(t)
    /\ recency' = Bumped(t)
    /\ UNCHANGED <<cache, fetches>>

\* prefetchNeighbors: of the neighbours near the view, those nothing is known of.
Unknowns(near) == {n \in near : ~Cached(n)}

\* Fault: a refresh is started over the one that runs.
NeedsRefreshAgain(t) == ~Fresh(t) /\ ~InFailureCoolDown(t)

NeedsRefresh(t) == ~Fresh(t) /\ ~cache[t].revalidating /\ ~InFailureCoolDown(t)

\* get: a warm tile is served at once, and refreshed in the background when stale.
ReadWarm(t) ==
    /\ Ok(t)
    /\ \E near \in SUBSET Neighbours[t] :
          LET ahead == Unknowns(near)
              warmed == SetToSeq(ahead)
              entry == [cache[t] EXCEPT !.revalidating = @ \/ NeedsRefresh(t)]
          IN Use(warmed \o Bumped(t),
                 [n \in Tiles |-> IF n = t THEN entry
                                  ELSE IF n \in ahead THEN NewEntry ELSE cache[n]],
                 {Started(n, "first", {}) : n \in ahead}
                   \cup (IF NeedsRefresh(t) THEN {Started(t, "refresh", {})} ELSE {}))
Read(r, t) ==
    /\ ~Waits(r)
    /\ ReadMiss(r, t) \/ ReadJoins(r, t) \/ ReadReplays(r, t) \/ ReadWarm(t)

\* A refresh looks its entry up again, which counts as a use of the tile.
LookedUp(f) == IF f.kind = "refresh" /\ Cached(f.tile) THEN Bumped(f.tile) ELSE recency

\* Fault: the value is kept, and not the time it came.
NotStamped(degraded) == Ttl

\* stampResolved: a degraded value is given less of the window.
Stamped(degraded) == IF degraded THEN Ttl - DegradedTtl ELSE 0

\* The fetch resolves: its entry, if still there, takes the value.
Resolves(f, degraded) ==
    /\ fetches' = fetches \ {f}
    /\ recency' = LookedUp(f)
    /\ cache' = IF ~f.live THEN cache
                ELSE [cache EXCEPT ![f.tile] =
                        [state |-> "ok", age |-> Stamped(degraded), failedAge |-> CoolDown,
                         revalidating |-> FALSE]]

\* Fault: a failed refresh drops its tile.
FailsAndDrops(f) ==
    /\ fetches' = fetches \ {f}
    /\ IF ~f.live THEN UNCHANGED <<cache, recency>>
       ELSE IF f.kind = "refresh"
         THEN /\ cache' = [cache EXCEPT ![f.tile] = NoEntry]
              /\ recency' = Remove(recency, f.tile)
         ELSE /\ cache' = [cache EXCEPT ![f.tile].state = "failed", ![f.tile].failedAge = 0]
              /\ UNCHANGED recency

\* The fetch fails: a first one leaves a failed entry, a refresh the stale value.
Fails(f) ==
    /\ fetches' = fetches \ {f}
    /\ recency' = LookedUp(f)
    /\ cache' = IF ~f.live THEN cache
                ELSE IF f.kind = "refresh"
                  THEN [cache EXCEPT ![f.tile].failedAge = 0, ![f.tile].revalidating = FALSE]
                ELSE [cache EXCEPT ![f.tile].state = "failed", ![f.tile].failedAge = 0]

\* clear.
Clear ==
    /\ cache' = [t \in Tiles |-> NoEntry]
    /\ recency' = <<>>
    /\ fetches' = {[f EXCEPT !.live = FALSE] : f \in fetches}

Older(age, limit) == IF age < limit THEN age + 1 ELSE limit

Age ==
    /\ cache' = [t \in Tiles |-> IF ~Cached(t) THEN NoEntry
          ELSE [cache[t] EXCEPT !.age = Older(@, Ttl), !.failedAge = Older(@, CoolDown)]]
    /\ UNCHANGED <<recency, fetches>>

Ends(f) == Fails(f) \/ \E degraded \in BOOLEAN : Resolves(f, degraded)

CacheNext ==
    \/ \E r \in Readers, t \in Tiles : Read(r, t)
    \/ \E f \in fetches : Ends(f)
    \/ Clear
    \/ Age

\* Time passes and requests end (the client has its own timeout).  A tile is
\* read again and again, and its requests do not always fail.
CacheFairness ==
    /\ SF_cacheVars(Age)
    /\ WF_cacheVars(\E f \in fetches : f.waiters # {} /\ Ends(f))
    /\ \A t \in Tiles :
          /\ SF_cacheVars(\E r \in Readers : Read(r, t))
          /\ SF_cacheVars(\E f \in fetches, degraded \in BOOLEAN :
                            f.tile = t /\ f.live /\ Resolves(f, degraded))

CacheSpec == CacheInit /\ [][CacheNext]_cacheVars /\ CacheFairness

-----------------------------------------------------------------------------
\* The types of the state; the cache holds no more tiles than it may.
TypeOK ==
    /\ cache \in [Tiles -> Entry \cup {NoEntry}]
    /\ ToSet(recency) = {t \in Tiles : Cached(t)} /\ IsInjective(recency)
    /\ Len(recency) <= Capacity
    /\ fetches \subseteq Fetch

LiveFetches(t) == {f \in fetches : f.tile = t /\ f.live}

\* Readers that burst on a tile share one request: an entry has a request out
\* exactly when it says so, and never two.
SingleFlight ==
    \A t \in Tiles :
        /\ Cardinality(LiveFetches(t)) <= 1
        /\ LiveFetches(t) # {} <=>
              Cached(t) /\ (cache[t].state = "fetching" \/ cache[t].revalidating)

\* The two together, as the runs check them.
CacheSound == TypeOK /\ SingleFlight

\* A failing tile is not asked for again within the cool-down, by no path: a
\* read, a refresh, the prefetch of a neighbour's view.
RetriesSpaced ==
    [][\A t \in Tiles : Cached(t) /\ InFailureCoolDown(t) =>
          \A f \in fetches' : f.tile = t /\ f.live => f \in fetches]_cacheVars

\* A warm tile stays warm while it is cached: no failed refresh and no partial
\* result makes a later read of it wait.
WarmStaysWarm ==
    [][\A t \in Tiles : Ok(t) =>
          \/ Ok(t)'
          \/ ~Contains(recency', t) /\ (recency' = <<>> \/ Len(recency') = Capacity)]_cacheVars

\* The two together: what a failure may not do to the upstream, nor to the readers.
FailuresContained == RetriesSpaced /\ WarmStaysWarm

\* A tile that is read again and again is refreshed again and again.
Refreshed == \A t \in Tiles : []<>(Fresh(t))
=============================================================================
