---------------------------- MODULE SourceListing ----------------------------
(***************************************************************************)
(* The aggregate over the chart sources (input-registry.ts) with the       *)
(* sources that ask an upstream for each list, their bbox cache, and the   *)
(* status rows they all write (plugin-status.ts).                          *)
(*                                                                         *)
(* Each source has the one tile that is read.  The aggregate writes a row  *)
(* only once EVERY source of a poll has answered or timed out, so what a   *)
(* row says can be older than what the source knows; a source also writes  *)
(* its own row, for a skip, a stale serve, a failed layer, a background    *)
(* refresh that failed and a detail.  Promise continuations run before any *)
(* other event: while a poll is answered, nothing else happens (Answered). *)
(* The timers of one poll, started together, are taken to fire together.   *)
(***************************************************************************)
EXTENDS Integers, FiniteSets

CONSTANTS
    Sources,
    Polls,          \* the callers of the aggregate: the chart, the monitor
    Kind,           \* source -> "arcgis", "overpass" or "captain"
    Cached          \* the sources with a refresh window (refreshSeconds > 0)

ASSUME SourceListingAssumption ==
    /\ Kind \in [Sources -> {"arcgis", "overpass", "captain"}]
    /\ Cached \subseteq Sources

VARIABLES
    rows,       \* source -> its status row
    tile,       \* source -> its cached tile
    polls,      \* poll -> the answer of each source, or Idle
    late,       \* the sources a timed-out poll still observes
    details,    \* the sources with a detail request out
    inside      \* the vessel is in US waters, or has no fix yet

listVars == <<rows, tile, polls, late, details, inside>>

\* SourceState: apiReachable; lastSkip, which is a gate or a deferral.
Row == [reach: {"unknown", "yes", "no"}, skip: {"none", "gate", "wait"}]

\* GeoEntry: the fetch, and what the next read wants to know of its value.
Tile == [state: {"none", "fetching", "failed", "ok"}, fresh: BOOLEAN, cooling: BOOLEAN,
         revalidating: BOOLEAN, pending: BOOLEAN, background: BOOLEAN]

NoTile == [state |-> "none", fresh |-> FALSE, cooling |-> FALSE,
           revalidating |-> FALSE, pending |-> FALSE, background |-> FALSE]

\* What the list of a source comes to in a poll: still out, given up, rejected,
\* or a value with its provenance.
Answer == {"out", "timeout", "rejected", "fresh", "local", "stale", "skipped"}

Idle == [s \in Sources |-> "idle"]

ListInit ==
    /\ rows = [s \in Sources |-> [reach |-> "unknown", skip |-> "none"]]
    /\ tile = [s \in Sources |-> NoTile]
    /\ polls = [p \in Polls |-> Idle]
    /\ late = {}
    /\ details = {}
    /\ inside \in BOOLEAN

-----------------------------------------------------------------------------
(* The rows.                                                               *)

\* recordListFetch, recordDetailSuccess.
MarkReachable(row) == [reach |-> "yes", skip |-> "none"]
RecordDetailSuccess(row) == MarkReachable(row)

\* recordError.
RecordError(row) == [reach |-> "no", skip |-> "none"]

\* recordStaleServe.
RecordStaleServe(row) == [reach |-> "no", skip |-> "none"]

\* recordSkipped: a skip says why nothing was asked, not how the source is.
RecordSkipped(row, transient) == [row EXCEPT !.skip = IF transient THEN "wait" ELSE "gate"]

-----------------------------------------------------------------------------
(* The sources.                                                            *)

\* shouldSkipOutsideUsWaters, shared by the sources on the ArcGIS base.
SkipsOutsideUsWaters(s) == Kind[s] = "arcgis" /\ ~inside

\* The sources that rebuild a list from their detail cache when the fetch fails.
HasFallback(s) == Kind[s] # "captain"

\* get: the tile after a read of it.
TileRead(s) ==
    LET t == tile[s] IN
    IF SkipsOutsideUsWaters(s) THEN t
    ELSE IF s \notin Cached THEN [NoTile EXCEPT !.state = "fetching"]
    ELSE CASE t.state = "ok" /\ t.fresh -> [t EXCEPT !.pending = FALSE]
           [] t.state = "ok" /\ ~t.fresh -> [t EXCEPT !.revalidating = @ \/ ~t.cooling]
           [] t.state = "none" \/ (t.state = "failed" /\ ~t.cooling) ->
                 [NoTile EXCEPT !.state = "fetching"]
           [] OTHER -> t

\* Fault: a warm tile is always local, also when its refresh has just landed.
ProvenanceLocal(t) == "local"

\* get: only the first read of a refreshed tile proves its upstream reachable.
ProvenanceOf(t) == IF t.fresh /\ t.pending THEN "fresh" ELSE "local"

\* A rejected list is served from the detail cache when that holds something in
\* the box (fetchListWithOfflineFallback).
OfflineFallback(s, found) == IF s \in found /\ HasFallback(s) THEN "stale" ELSE "rejected"

\* listPointsOfInterest of a source, as far as it goes without waiting.
FirstAnswer(s, found) ==
    IF SkipsOutsideUsWaters(s) THEN "skipped"
    ELSE CASE s \in Cached /\ tile[s].state = "ok" -> ProvenanceOf(tile[s])
           [] s \in Cached /\ tile[s].state = "failed" /\ tile[s].cooling ->
                 OfflineFallback(s, found)
           [] OTHER -> "out"

RowAfter(row, answer) ==
    CASE answer = "skipped" -> RecordSkipped(row, FALSE)
      [] answer = "stale" -> RecordStaleServe(row)
      [] OTHER -> row

Out(p, s) == polls[p][s] = "out"
Answered(p) == polls[p] # Idle /\ \A s \in Sources : ~Out(p, s)
Quiet == \A p \in Polls : ~Answered(p)

\* A poll asks every source at once.
BeginPoll(p) ==
    /\ polls[p] = Idle
    /\ \E found \in SUBSET {s \in Sources : HasFallback(s)} :
          LET answers == [s \in Sources |-> FirstAnswer(s, found)] IN
          /\ polls' = [polls EXCEPT ![p] = answers]
          /\ rows' = [s \in Sources |-> RowAfter(rows[s], answers[s])]
    /\ tile' = [s \in Sources |-> TileRead(s)]
    /\ UNCHANGED <<late, details, inside>>

-----------------------------------------------------------------------------
(* The end of a list fetch.                                                *)

Awaited(s) == s \in late \/ \E p \in Polls : Out(p, s)

\* The tile when its fetch has brought a value.
TileFilled(s) ==
    IF s \notin Cached THEN NoTile
    ELSE [NoTile EXCEPT !.state = "ok", !.fresh = TRUE,
                        !.pending = tile[s].background /\ ~Awaited(s)]

TileFailed(s) ==
    IF s \notin Cached THEN NoTile ELSE [NoTile EXCEPT !.state = "failed", !.cooling = TRUE]

AnswerWaiters(s, answer) ==
    polls' = [p \in Polls |-> IF Out(p, s) THEN [polls[p] EXCEPT ![s] = answer] ELSE polls[p]]

\* Fault: nobody observes a list that comes late.
ObserveNothing(s, row) == row

\* The observer a timed-out poll has left: a fresh list that comes late counts.
ObserveLate(s, row) == IF s \in late THEN MarkReachable(row) ELSE row

\* The fetch resolves; some layers of an ArcGIS source may have failed, each
\* with an error of its own.
FetchResolves(s, partial) ==
    LET row == IF partial THEN RecordError(rows[s]) ELSE rows[s] IN
    /\ tile[s].state = "fetching"
    /\ partial => Kind[s] = "arcgis"
    /\ AnswerWaiters(s, "fresh")
    /\ rows' = [rows EXCEPT ![s] = ObserveLate(s, row)]
    /\ tile' = [tile EXCEPT ![s] = TileFilled(s)]
    /\ late' = late \ {s}
    /\ UNCHANGED <<details, inside>>

\* The fetch rejects.  A list that is served stale records that itself, also
\* when it comes late; a late rejection is not recorded.
FetchRejects(s, found) ==
    LET answer == OfflineFallback(s, found)
        row == IF Kind[s] = "arcgis" THEN RecordError(rows[s]) ELSE rows[s]
    IN
    /\ tile[s].state = "fetching"
    /\ AnswerWaiters(s, answer)
    /\ rows' = [rows EXCEPT ![s] = IF Awaited(s) THEN RowAfter(row, answer) ELSE row]
    /\ tile' = [tile EXCEPT ![s] = TileFailed(s)]
    /\ late' = late \ {s}
    /\ UNCHANGED <<details, inside>>

\* A background refresh lands, or fails and says so.
RefreshResolves(s, partial) ==
    /\ tile[s].state = "ok" /\ tile[s].revalidating
    /\ partial => Kind[s] = "arcgis"
    /\ tile' = [tile EXCEPT ![s] = [NoTile EXCEPT !.state = "ok", !.fresh = TRUE, !.pending = TRUE]]
    /\ rows' = IF partial THEN [rows EXCEPT ![s] = RecordError(@)] ELSE rows
    /\ UNCHANGED <<polls, late, details, inside>>

RefreshRejects(s) ==
    /\ tile[s].state = "ok" /\ tile[s].revalidating
    /\ tile' = [tile EXCEPT ![s].revalidating = FALSE, ![s].cooling = TRUE]
    /\ rows' = [rows EXCEPT ![s] = RecordError(@)]
    /\ UNCHANGED <<polls, late, details, inside>>

\* prefetchNeighbors: the tile is warmed from a read of the one beside it.
Prefetch(s) ==
    /\ s \in Cached /\ tile[s].state = "none"
    /\ tile' = [tile EXCEPT ![s] = [NoTile EXCEPT !.state = "fetching", !.background = TRUE]]
    /\ UNCHANGED <<rows, polls, late, details, inside>>

\* The tile is pushed out of the cache by others.
Evict(s) ==
    /\ tile[s].state \in {"failed", "ok"} /\ ~tile[s].revalidating
    /\ tile' = [tile EXCEPT ![s] = NoTile]
    /\ UNCHANGED <<rows, polls, late, details, inside>>

\* The freshness window or the cool-down runs out.
WindowEnds(s) ==
    /\ \/ tile[s].fresh /\ tile' = [tile EXCEPT ![s].fresh = FALSE]
       \/ tile[s].cooling /\ tile' = [tile EXCEPT ![s].cooling = FALSE]
    /\ UNCHANGED <<rows, polls, late, details, inside>>

-----------------------------------------------------------------------------
(* The end of a poll.                                                      *)

\* The sources still out are given up, and observed.
Timeout(p) ==
    /\ \E s \in Sources : Out(p, s)
    /\ polls' = [polls EXCEPT ![p] =
                   [s \in Sources |-> IF Out(p, s) THEN "timeout" ELSE @[s]]]
    /\ late' = late \cup {s \in Sources : Out(p, s)}
    /\ UNCHANGED <<rows, tile, details, inside>>

\* The aggregate records the answers; what is local, stale or skipped has been
\* recorded by the source.
Recorded(row, answer) ==
    CASE answer = "fresh" -> MarkReachable(row)
      [] answer = "timeout" -> RecordSkipped(row, TRUE)
      [] answer = "rejected" -> RecordError(row)
      [] OTHER -> row

EndPoll(p) ==
    /\ Answered(p)
    /\ rows' = [s \in Sources |-> Recorded(rows[s], polls[p][s])]
    /\ polls' = [polls EXCEPT ![p] = Idle]
    /\ UNCHANGED <<tile, late, details, inside>>

-----------------------------------------------------------------------------
(* Details: a record that is not in the detail cache is asked for.         *)

ArcGisDetail(s) == Kind[s] = "arcgis" /\ ~SkipsOutsideUsWaters(s)
OverpassDetail(s) == Kind[s] = "overpass"
CaptainDetail(s) == Kind[s] = "captain"

\* shouldSkipOutsideUsWaters records its skip for a detail too.
DetailSkipped(s) ==
    /\ s \notin details /\ SkipsOutsideUsWaters(s)
    /\ rows' = [rows EXCEPT ![s] = RecordSkipped(@, FALSE)]
    /\ UNCHANGED <<tile, polls, late, details, inside>>

DetailAsked(s) ==
    /\ s \notin details
    /\ ArcGisDetail(s) \/ OverpassDetail(s) \/ CaptainDetail(s)
    /\ details' = details \cup {s}
    /\ UNCHANGED <<rows, tile, polls, late, inside>>

\* fetchDetailRecorded, onLoadSuccess, onLoadError: an answer that the record
\* does not exist is an answer.
DetailEnds(s, ok) ==
    /\ s \in details
    /\ rows' = [rows EXCEPT ![s] = IF ok THEN RecordDetailSuccess(@) ELSE RecordError(@)]
    /\ details' = details \ {s}
    /\ UNCHANGED <<tile, polls, late, inside>>

\* The vessel enters or leaves US waters.
Crosses ==
    /\ inside' = ~inside
    /\ UNCHANGED <<rows, tile, polls, late, details>>

-----------------------------------------------------------------------------
SourceStep(s) ==
    \/ \E partial \in BOOLEAN : FetchResolves(s, partial) \/ RefreshResolves(s, partial)
    \/ \E found \in SUBSET {s} : FetchRejects(s, found)
    \/ RefreshRejects(s)
    \/ Prefetch(s) \/ Evict(s) \/ WindowEnds(s)
    \/ DetailSkipped(s) \/ DetailAsked(s)
    \/ \E ok \in BOOLEAN : DetailEnds(s, ok)

ListNext ==
    \/ \E p \in Polls : EndPoll(p)
    \/ /\ Quiet
       /\ \/ \E p \in Polls : BeginPoll(p) \/ Timeout(p)
          \/ \E s \in Sources : SourceStep(s)
          \/ Crosses

\* The chart and the monitor go on polling, the timer of a poll fires, windows
\* end, and an upstream is not out of order for ever.
RarePollFairness ==
    /\ \A p \in Polls :
          /\ WF_listVars(EndPoll(p))
          /\ WF_listVars(Quiet /\ Timeout(p))
          /\ SF_listVars(Quiet /\ BeginPoll(p))
    /\ \A s \in Sources :
          /\ SF_listVars(Quiet /\ WindowEnds(s))
          /\ SF_listVars(Quiet /\ FetchResolves(s, FALSE))
          /\ SF_listVars(Quiet /\ RefreshResolves(s, FALSE))
          /\ WF_listVars(Quiet /\ \E ok \in BOOLEAN : DetailEnds(s, ok))

\* The polls come faster than the windows end: what the refreshes of a tile
\* bring is not for ever stale again before it is read.
ReadInTime(s) == tile[s].pending /\ tile[s].fresh /\ \E p \in Polls : BeginPoll(p)

ListFairness ==
    /\ RarePollFairness
    /\ \A s \in Sources : []<>(tile[s].pending) => []<><<ReadInTime(s)>>_listVars

ListSpec == ListInit /\ [][ListNext]_listVars /\ ListFairness
RarePollSpec == ListInit /\ [][ListNext]_listVars /\ RarePollFairness

-----------------------------------------------------------------------------
\* The types of the state.
ListTypeOK ==
    /\ rows \in [Sources -> Row]
    /\ tile \in [Sources -> Tile]
    /\ polls \in [Polls -> [Sources -> Answer] \cup {Idle}]
    /\ late \cup details \subseteq Sources /\ inside \in BOOLEAN

Held(s, answer) == \E p \in Polls : polls[p][s] = answer

\* A source that is shown as waiting is one whose list is still to come: it is
\* being fetched, or it has failed or was dropped since, or it is there and the
\* row is about to say so.  The row is never left waiting beside markers that
\* are on the chart.
WaitingHasReason ==
    \A s \in Sources : rows[s].skip = "wait" =>
        \/ tile[s].state # "ok"
        \/ tile[s].pending
        \/ Held(s, "fresh")

\* An outage that ends is seen to end: while the vessel is where the source is
\* asked, its row says reachable again and again, although most reads are served
\* from the cache and prove nothing.
OutageEndShows ==
    \A s \in Sources : (Kind[s] = "arcgis" => <>[]inside) => []<>(rows[s].reach = "yes")

Failure(s) ==
    \/ FetchResolves(s, TRUE) \/ RefreshResolves(s, TRUE) \/ RefreshRejects(s)
    \/ DetailEnds(s, FALSE)
    \/ \E found \in SUBSET {s} : FetchRejects(s, found)

\* A row says whether the source's most recent request succeeded or failed
\* (plugin-status.ts): when all of them succeed, it comes to say reachable.
\* (Not so under RarePollSpec.)
RowTellsRequests ==
    \A s \in Sources :
        (Kind[s] # "arcgis" /\ <>[][~Failure(s)]_listVars) => []<>(rows[s].reach = "yes")
=============================================================================
