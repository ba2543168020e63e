# Crow's Nest: a TLA+ model

Crow's Nest is a Signal K server plugin. It imports points of interest from
eight public sources (ActiveCaptain, OpenSeaMap over Overpass, the USCG Light
List, NOAA ENC, NOAA CO-OPS, the USCG Local Notice to Mariners, the World Port
Index and the USACE inventory), merges duplicates, serves them as `notes`
resources to chart plotters, and raises three kinds of alarm: the vessel is
close to a hazard, the active route runs past one, a bridge ahead is lower than
the mast. This directory models the parts of it whose state can go wrong in
ways a unit test hardly reaches, checks them with TLC and proves most of their
safety properties, for every value of the constants, with TLAPS. Paths below are relative to the repository; the
implementation is under `src/`.

Contents: [the system](#the-system) · [modules](#modules-and-code) ·
[runs](#the-runs) · [bounds](#bounds) · [fairness](#fairness) ·
[proofs](#the-proofs) · [findings](#findings) ·
[not modelled](#what-is-not-modelled) · [plan](#plan)

## The system

Everything runs on one Node.js event loop. A handler or the part of an async
function between two awaits is atomic; every `await` lets any other handler in.
So the interleavings that matter are those of awaits, timers, deltas and the
plugin's own start and stop, and the models put their action boundaries exactly
there.

```
 position deltas            course deltas
      |                          |
 position-monitor  <--scan--  course-reader
      |  \                       |
      |   evaluate      route of the tick
      |     \                    |
 list |   proximity-alarms   route-hazard-alarms   bridge-clearance-alarms
      |     \________ alarm-retention + notification-tracker ____/   |
      v                                                   bridge-clearance-resolver
 input-registry (aggregate, race per source, dedupe)                 |
      |                                                          details
 eight sources:  bbox-debounce -> http-client / one-shot HTTP
                 index stores (Light List, CO-OPS, LNM) <- refresh-scheduler
                 whole set (WPI), detail stores and caches
```

### Components, their state, and what makes them correct

| component | state | operations | correct when | modules |
|---|---|---|---|---|
| proximity alarms `outputs/proximity-alarm` | tracker of active alarms, wire | evaluate (list or replay), stop | wire and tracker agree; hysteresis; an incomplete list neither clears nor prolongs an alarm | AlarmRetention, ProximityAlarms |
| route alarms `outputs/route-hazard` | route of the tick, tracker | buildFetchBox, evaluate, scanRouteCorridor, stop | the alarms are those of the route being followed, and of its corridor | RouteHazardScan, RouteCorridor |
| bridge alarms `outputs/bridge-air-draft` | tracker, warmed list | evaluate, warm, stop | no alarm cleared because a clearance is unknown for a while | BridgeClearanceAlarms |
| bridge clearance resolver | TTL cache, failure memory, in-flight set | clearanceMeters, settle, timeout, close | one fetch per bridge, spaced retries, late answers dropped | BridgeClearanceResolver |
| position monitor `monitoring/position-monitor.ts` | in-flight flag, forced scan, throttle, last list, last evaluation | fix, scan request, list answer or failure, finally, stop | one request, none forgotten, newest fix with newest list, throttled | PositionMonitor, MonitoredProximity |
| scan cadence `monitoring/scan-cadence.ts` | none (derived gates) | derive | no alarm zone fits between two evaluations | ScanCadence |
| course reader `course-reader.ts` | route, refresh generation | delta, refresh, resolve, fail, stop | the cache is the newest course; a cancelled route never comes back | CourseReader |
| request queue `inputs/http-client.ts` | slots, waiters, timers, retries | run, pump, fetch, retry, abort, close | no slot leaks, every request settles | RequestQueue |
| one-shot HTTP `http-one-shot.ts`, `http-conditional-get.ts` | connection, decoder, timer, listener | request, and its racers | settles once, lets go of everything | OneShotHttp |
| ArcGIS queries `arcgis-query.ts` | verified identity, pages | verify, page, split, merge | complete, each feature once, never from another layer | ArcgisQuery |
| Overpass failover `overpass-client.ts` | endpoint, budget | query | bounded time, no mirror skipped | OverpassClient |
| bbox cache `shared/bbox-debounce.ts` | LRU of entries with a promise, a value and windows | get, revalidate, prefetch, clear | one request per tile, spaced failures, warm stays warm | BboxDebounce |
| input registry, plugin status `input-registry.ts`, `plugin-status.ts` | late observers, a row per source | list all sources, details, record | a slow or failing source hides no other; rows tell the truth | SourceListing |
| de-duplication `dedupe-pois.ts` | none | merge | exhaustive, nothing lost, credits and clearances kept | DedupePois |
| World Port Index `inputs/wpi` | one downloaded set | list, refresh, hydrate | single flight, cool-down, never blank | WholeSetSource |
| Light List store `light-list-store.ts` | pages, records by number, dirty sets, disk | load, refresh, upsert, prune, flush, close | disk metadata never ahead of pages; a 304 never keeps missing data | LightListStore |
| CO-OPS and LNM stores, refresh scheduler | an index by family, a pass | load, repair, refresh, flush, close | an index claims what its file holds; no family is blanked | IndexStore |
| detail stores and caches `detail-store.ts`, `poi-cache.ts` | mirror, debounced file, cache | set, flush, hydrate, fetch, close | the file follows the mirror; lapsed details still answer | DetailStore, PoiDetailCache |
| renderings `*-sections.ts`, `*-renderer.ts`, templates | none | render twice | the two say the same | ChartDetails, MarinaDetails, PoiDetails |
| boxes `position-utilities.ts`, `longitude.ts` and their users | none | union, clamp, snap, split | a tick's box holds its zones, across the antimeridian | BoundingBoxes |
| configuration panel `panel/` | form state | normalise, edit, save, discard | what is shown is what runs | SettingsPanel |
| plugin lifecycle `plugin/plugin.ts` | started components, latch, status line | start, stop | teardown complete in order, failures isolated | PluginLifecycle |

### How they interact

* `plugin.ts` starts the aggregate source, then the enabled outputs, then the
  position monitor; the teardown stops the monitor first, then every output,
  the resolver and the source. A stop can reach a component at any await.
* A **fix** reaches the monitor, which asks its contributors (outputs) for fetch
  boxes, requests one list from the aggregate source and hands the answer to
  every contributor's `evaluate` at the newest fix; between two requests it
  replays the last list to the contributors that have an alarm zone.
* A **course delta** reaches the course reader, which re-resolves the route
  over two awaits and, when the route changed, asks the monitor for a scan.
* A **list request** reaches each source: from its bbox cache, over the queued or
  the one-shot HTTP client, or from an index the refresh scheduler keeps current
  on disk. The aggregate races each source against five seconds.
* The **bridge alarms** ask the resolver synchronously at the rate of the fixes;
  it answers from its cache and fetches details in the background.

### Which behaviours are hard

Overlapping ticks and deferred fixes; answers that arrive after a newer request,
a stop or a timeout; partial lists that omit a live hazard; replays that must
not count as reports; retries against a dead upstream, at the rate of a fix or
a chart poll; slots and in-flight marks on every exit path; write order and
crashes between the files of a store; a stop with requests, timers and writes
outstanding; two renderings of one record by two modules; boxes across the
antimeridian. `PROJECT.json` lists each at the line where it bites ("hazards"),
with the properties that cover it.

## Modules and code

`PROJECT.json` maps every definition to its lines. Operators whose comment
starts with "Fault:" are mutated forms of the definition after them; no
specification uses them. They state which plausible bug each property rules out.

### How the MC modules are put together
A component is specified in a module of its own, over its own variables. The
`MC*` modules group components that one question concerns into a suite: a
variable `part`, chosen initially and never changed, says which of them this
behaviour is about, the others' variables stay as they began (and begin in one
way only), and every property is that of its part. A suite is therefore the
union of its components' state graphs, never their product: nothing is
composed by it. Compositions of components that do interact are modules:
`MonitoredProximity`, `RouteHazardScan`, `BridgeClearanceAlarms`, `SourceListing`,
`DetailStore` (runs of the plugin that share a file).

An MC module `EXTENDS` the modules of its parts, so that their constants are given
in the `.cfg` and a theorem about a module is about what the run checks; only
where two parts have variables of one name is a part an `INSTANCE` instead
(`SourceListing` in MCPlugin).

| suite | parts | of |
|---|---|---|
| MCProximity | `alarms`, `cadence` | ProximityAlarms; ScanCadence |
| MCPositionMonitor | - | MonitoredProximity: PositionMonitor with ProximityAlarms |
| MCRoute | `reader`, `scan`, `corridor` | CourseReader; RouteHazardScan; RouteCorridor |
| MCRouteHazardScan | - | RouteHazardScan beside another output's box |
| MCBridgeClearanceAlarms | - | BridgeClearanceAlarms with BridgeClearanceResolver |
| MCBboxDebounce | - | BboxDebounce |
| MCStores | `lights`, `index`, `details`, `cache` | LightListStore; IndexStore; DetailStore; PoiDetailCache |
| MCRequests | `queue`, `oneshot` | RequestQueue; OneShotHttp |
| MCSources | `listing`, `overpass`, `arcgis`, `dedupe`, `chart`, `marina` | SourceListing; OverpassClient; ArcgisQuery; DedupePois; PoiDetails, a half at a time |
| MCPlugin | `lifecycle`, `ports`, `listing`, `settings`, `boxes` | PluginLifecycle; WholeSetSource; SourceListing; SettingsPanel; BoundingBoxes |

### AlarmRetention, ProximityAlarms
`alarm-retention.ts`, `shared/notification-tracker.ts`, `proximity-alarms.ts`.
`AlarmRetention` holds operators only: the circle test with its exit margin,
`Completed` (`completeWithRetained`: a list plus the active alarms it omits),
`NextTracker` and `NextWire` (raise, refresh, clear with the reason the entry
holds). `ProximityAlarms` applies them in `Evaluate`, which is one
synchronous `evaluate(position, pois, listFetchedAt)`. Its caller is the
environment: `ListLands` brings any list, with any point missing, moved or
unplaceable; `Replay` evaluates the last one at a new fix. `wire` is what the
server shows at each notification path, including the two wordings of a clear,
because a property tells them apart. `reported` and `departed` are histories.

### PositionMonitor
`position-monitor.ts`, every handler. The state keeps the code's names. `OnPosition` and
`RequestScan` run to the await of `source.listPointsOfInterest`; `requests` holds
the awaits outstanding (a sequence, so that a second one would be seen);
`Answered`/`Failed` are the continuation up to its `finally`, `Finally` the
block that frees the slot and starts the deferred tick. `settling` keeps any
other handler out between the two, since no await separates them. Positions
are integers on a line, and the distances the cadence derives are constants.
`TickWithoutBox` is the tick for which no contributor offers a box.

### MonitoredProximity
Composes `PositionMonitor` with the alarms as `plugin.ts` wires them, and shows
that it implements `ProximityAlarms!Spec` under a refinement mapping (the
alarms' list is the monitor's `lastList`, their vessel the fix of its last
evaluation). So everything checked or proved of the alarms under an arbitrary
caller holds under the real one.

### CourseReader
`course-reader.ts`. A refresh is a record with its generation and the await it
is at; `ServerReads` separates the moment the server takes its answer from the
moment the answer arrives, so answers can be outdated and reordered.
`ApplyRefresh` is the one writer of the cache. The server (`Activate`,
`NextLeg`, `Cancel`) is the environment; cancelling clears two paths, as the
Course API does, and queues a delta for each.

### RouteHazardScan, RouteCorridor
`RouteHazardScan` is `route-hazard-output.ts` and `route-hazard-alarms.ts`
between the two components they join: instances of `PositionMonitor` and
`CourseReader` share the step in which a changed route requests a scan.
`tickRoute` is the route read in `buildFetchBox` and used again by `evaluate`;
which hazards lie on which route is a constant there. `RouteCorridor` is the
geometry it leaves out: the box of the tick, one step per point of the route up
to the end of the look-ahead (`routeCorridorBbox`); the list comes back, and the
scan starts from the latest fix, anywhere in line with the first leg
(`BeginScan`); then one step per leg of `scanRouteCorridor`
(`route-corridor.ts`), with the projection on the leg and the nearest of several;
and what is flagged beyond the look-ahead is left out (`EndScan`). The sea is flat
and legs lie along its axes.

### ScanCadence
`scan-cadence.ts`, with its numbers in centimetres and tenths of a second, and a
vessel sampled by the gates it derives under uneven fixes.

### RequestQueue, OneShotHttp, ArcgisQuery, OverpassClient
`RequestQueue` is `http-client.ts`. A request goes new -> waiting -> scheduled
(pacing timer) -> fetching -> backoff -> ... -> settled. `Pump`, `Release`,
`Submit`, `Close` are the code's functions; the caller's abort and the close can
come at any phase. `OneShotHttp` is one request of `http-one-shot.ts` under the
callers that read its answer: head, chunks, decompression, size cap, deadline and
signal, in any order. `ArcgisQuery` (`arcgis-query.ts` with its two clients)
verifies a layer once for the session (another name, or an answer without one,
bars it; no answer does not), splits a box over the antimeridian, pages
each part by what was received, and merges them; a feature is its number on the
side of the antimeridian it lies on. `OverpassClient` tries the
endpoints in their order, each with the retries of `http-client.ts`, in units of
ten seconds. Each attempt waits for a slot first (`SlotComes`), and a full queue may
drop it before the endpoint is asked (`PushedOut`).

### BridgeClearanceResolver, BridgeClearanceAlarms
`bridge-clearance-resolver.ts` and `bridge-clearance-alarms.ts`. In the resolver
`Lookup` is one pass asking about a set of bridges; an attempt whose race was
lost (`lost`) still settles later; time is kept as the ages the code compares.
The alarms instance it: `Evaluate` is one pass, with the air draft of the
moment, the completed list, the bridges it resolves (`Asked`: the whole list the
first time it is seen, then those in range) and `AlarmRetention`'s tracker. The
route output asks the same resolver (`RouteAsks`). `told` is a history of what the
upstream last said of a bridge, which the resolver's cache is compared with. A
report of the list carries a clearance or none, also of a bridge that has
details: a merged duplicate may have brought it, and the resolver takes it first.

### LightListStore, IndexStore
`LightListStore` is `light-list-store.ts` and the refresh of
`uscg-light-list-source.ts`, over `shared/atomic-write-json.ts` and
`shared/concurrency.ts`. The disk is a function from files to contents, written
by rename; `Publish` changes a page upstream; `Answer` is a conditional request
answered with a page or a 304; `Crash` loses what was in memory and may damage a
file; `Reopen` is a plugin restart, whose predecessor may still be writing
(`late`). `IndexStore` is the two sources with one index file, CO-OPS and LNM,
told apart where their code differs (which entries are dropped on load and
whether the validator goes with them, what a blank answer means), with the passes of `refresh-scheduler.ts`. `published` is
the history of what upstream has listed.

### DetailStore, PoiDetailCache
`DetailStore` is `detail-store.ts` with `hydrated-detail-cache.ts` over runs of
the plugin that share the file: debounced whole-file writes, hydration, cap,
close, and the promises of a stopped run. `PoiDetailCache` is the cache before
it (`poi-cache.ts`, over the fetch of `lru-cache`, which is external), with the
outcomes that `active-captain-source.ts` records.

### BboxDebounce, SourceListing, WholeSetSource
`BboxDebounce` is `bbox-debounce.ts` with caching on: entries, the LRU order,
the fetches out and who awaits them; `live` says whether a fetch still serves
the entry in the cache, which is the code's identity test of entries.
`SourceListing` is the aggregate of `input-registry.ts` over sources with one
tile each: the race against five seconds, the late observer, provenance of a
read (fresh, joined, cached, stale), the recording of a poll once every source
is in, and everything else that writes a row. `Answered` polls run to their end
before any other event, as promise continuations do. `WholeSetSource` is the
World Port Index, with one download that lists and details join. A list is of a
viewport, the ports that lie in it; it is given up with its viewport (`late`), so
that a failure is known to be told or not.

### DedupePois, ChartDetails, MarinaDetails, PoiDetails, BoundingBoxes, SettingsPanel
Algorithms, each checked against a definition of what it is to compute.
`DedupePois` steps through both loops of `dedupe-pois.ts` over a grid on a small
globe; a point is its place in the list of one poll, and the sweep of the nine cells
is an order of the points (`MetBefore`), of which the code takes the first that matches. `ChartDetails` and `MarinaDetails` build up a record a field at a time and
compare its HTML description with its structured sections, as sets of facts;
`PoiDetails` is the two together, what a client is shown of any point.
`BoundingBoxes` unites circles into the box of a tick and follows that box
through the tile cache, the clamp of Overpass and the split of ArcGIS. A circle
clear of the poles has a square for its box; of one that reaches a pole both
corners are projected past it, as in the code, and what comes of it is no box
of the circle. Numbers are whole, so its ASSUME wants an even limit of the clamp, whose half is taken; a
globe that is a whole number of tiles round; and no circle that reaches round it.
`SettingsPanel` follows a configuration through the panel's reducer, the host
and the plugin's own reading of it. The interval of the notices may be set to 0,
which the plugin takes for its default.

### PluginLifecycle
`plugin.ts` and `output-registry.ts`: starts over starts, outputs and a monitor
that fail, sources that are made before one that throws, stops that throw, the
latch that protects an error on the status line, and a list request that outlives
its run. An output that fails to start leaves nothing of its own: the course reader
drops the subscription it had made before it throws (`course-reader.ts:441`).

## The runs

Nine runs pass; three show a disagreement between the code and one of its own
comments ([findings](#findings)).

* **proximity** asks whether the alarms fit the water around the vessel, for any
  caller: `ClearJustified` (nothing but geometry, the window or a stop clears an
  alarm), `AlarmsSound` (none is missing after a pass, replays do not extend a
  hold, and server and tracker agree) and `NoChatter`. Sampled: `CadenceCovers`,
  that the derived gates leave no zone between two evaluations up to all of the
  covered speed at a steady second, but for the speeds lost to the distance floor
  (`LostToFloor`: a second falls short of it, and a second more passes the chord),
  and up to half of it, or what the floor leaves of the chord, under uneven fixes;
  and that each output's box holds its zone.
* **monitor** has the proximity alarms behind it and asks what fixes, scan requests,
  answers, failures and a stop do in every order. `MonitorSound`: one request, and
  neither a deferred fix nor a deferred scan is forgotten on any exit;
  `RequestsThrottled`: a failing upstream is not hammered; `EvaluatesNewest`: an
  answer is never evaluated at the fix its request started from; `Refines`: every
  step is one of the alarms' own specification, or none of theirs; and
  `FixesAreChecked`: no fix near a hazard falls in the crack between a request and
  its answer.
* **route** reorders, delays and fails refreshes against a changing course
  (`CacheIsCourse`, `NoResurrection`, `ReaderConverges`); composes reader, monitor
  and alarms (`AlarmsFollowRoute`: an outdated route has a scan bound to come, a
  scan leaves that route's alarms alone, and the server shows these and none after
  the teardown, whatever was out); and scans corridors (`CorridorSound`:
  what is handed on is what lies in the corridor and is passed nearest within the
  look-ahead, by that leg, and the box held all of it while the vessel keeps to its
  leg).
* **bridge** checks the bridge alarms over their resolver: an alarm clears
  because of what was told of the bridge, never because its clearance is being
  asked for again (`ClearJustified`; the exception is a list that comes without the
  merged duplicate which alone had told a clearance); every pass leaves the alarms as the last
  clearance told has it (`LowBridgesAlarm`); a timed-out fetch does not overwrite
  the answer of its retry (`NoLateOverwrite`), retries are spaced whoever asks
  (`RetriesSpaced`), and no bridge is in flight for ever (`Released`).
* **tiles** checks that an entry has one request out exactly when it says so
  (`CacheSound`) over evictions, prefetches, joins and clears, that failures are
  spaced and keep a warm tile warm (`FailuresContained`), and that a tile that is
  read is refreshed again and again (`Refreshed`).
* **stores** crashes, damages files, restarts over writes in progress and fails
  single writes. `PagesSound`: a 304 never keeps a page that lost its records,
  and the metadata on disk is never ahead of the pages; `LightsConverge`: once
  upstream is quiet the map is what it publishes. `IndexKept`: what is held of a
  family is an answer of upstream's, validators with it, but for a file of notices
  of which the load dropped records: that one holds a part of an answer under the
  validator of all of it. No blank answer empties a family. `StoreKept`: the detail file is whole, bounded, written by
  the run that is up. `StaleAnswers`: a failed refetch is answered with what is
  held, and a stopped run touches neither store nor row.
* **requests** ends requests in every way: `SlotsSound` (slots and places are
  conserved, none idles while a request waits, a close leaves nothing to start),
  `RequestSound` (a one-shot request settles with no timer or listener left, nor a
  connection but that of a body that could not be decoded
  (`http-one-shot.ts:221`), and never with a cut or oversized body),
  `RequestsSettle`.
* **sources** asks whether the chart shows what the upstreams said.
  `WaitingHasReason`: no row waits beside markers that are there. `QueryBounded`:
  a chain of mirrors ends in time, but for its last wait in the queue, which
  nothing bounds, passes over none but those the full queue dropped it before, and
  answers with nobody's outage. `QueryComplete`: a paged, split query is whole unless
  an error answer cut it short, no query of a layer resolves once its name was wrong
  or missing, and an unreachable service bars no layer.
  `DedupeSound`: every point is handed on or merged into one that is, within its
  radius, with its credits and its lowest clearance. `DetailsAgree`: both
  renderings say the same, but for the exceptions it names.
* **plugin**: `LifecycleSound` (nothing of a former run stays open but what
  refused to stop and the sources of a start that threw while it made them, no
  outcome of it shows, a failed start never reads healthy), `SettingsSound` (what is
  saved is what the plugin takes, an interval left at 0 being the default's),
  `BoxesSound` (the box holds its zones that are clear of the poles and every request
  made of it covers them or is clamped about its middle; a chart's place and
  distance make no taller box than a chart may state), `PortsKept` (a list has every
  port of its viewport that is held, and a failed download leaves the row
  saying so when it was told to a call or to a late list with a port to show), and
  `OutageEndShows`: an outage that ends is seen to end.
* **route_cancelled**, **light_list_shared**, **start_error**: see the findings.

## Bounds

Every bound is a constant of the module it bounds; its value is in the `.cfg`
or in the `INSTANCE` of the MC module.

| part | bounds | why they are enough |
|---|---|---|
| alarms | one hazard, places 0, 5, 6, 7 against radii 5 and 6, window 1, `MaxTime` 4 | hazards do not interact in the code; the places lie on both circles, between and beyond; four ticks let a hold start, run out and start again |
| cadence | every subset of the radii 3, 6, 20, 800 m; 0, 2.2, 4.9, 12 and 24 m/s; fix gaps .4, .9, 1 s | a radius in each regime: floor over the chord, floor binding, half the chord, cap |
| monitor | places 0, 1, 4 against radii 2 and 3, a hazard that is listed or not, intervals of one and two, `MaxTime` 3 | two requests with a replay while one is out; a jump past the chord and out of the covered water |
| reader | two routes, `MaxChanges` 3 | three deltas give three overlapping refreshes with two generations outdated; unfinished refreshes are not bounded otherwise |
| scan | one position, two routes with a hazard each, `MaxChanges` 2, `MaxTime` 1 | the monitor's own run covers motion; a change during the request of a change needs two |
| corridor | routes of two to four of six places, half-width 2, look-ahead 7, every place around them, a fix of the scan at any place in line with the first leg | a bend, a leg passed in part or left before the list came, a leg cut by the look-ahead, a route that comes back over itself |
| bridge | one bridge (either kind) that lies still (`LyingStill`), a vessel at 0, 6 and 7 from it against radii 5 and 6, two clearances around one air draft, on the list or by the detail, windows of 2, timeout 1, `MaxTime` 2 for the alarms' clock | bridges share nothing but the caches, which do not evict here; an attempt can be lost, cooled off and retried before the first settles; a hold can run out. The resolver's time is not bounded |
| tiles | two readers, three tiles, capacity two, one neighbour | an eviction, a join and a prefetch at once |
| lights | two pages and a retired one, two versions, one restart | each page can change while the other is fetched or written; concurrency of two as in the code |
| index | one family, two records, `MaxVersions` 3, `MaxDamage` 1 | families share the file's write only, which an answer of the same one can overlap |
| details | three entries, two of one record, room for two, two runs | the cap evicts, a value is replaced, a stopped run meets its successor |
| cache | three callers, one point | one starts the load, one joins it, one comes later |
| queue | four requests, two slots, one place, one retry | both slots held, the place taken and one more to drop a waiter |
| oneshot | a cap of two of four chunks | below, at and above the cap, also before the decoder |
| listing | a cached and an uncached source and one caller (`sources`); a cached one and two callers (`plugin`) | a late answer meets the next poll; two polls overlap on one tile |
| overpass | up to three endpoints, three retries, a budget of 90 s, a wait in the queue of none or 40 s | the budget ends within the first, between two, or not at all |
| arcgis | two queries that share the identity, four features on three sides, two to a page, three pages | a page that is full, short or empty, and one feature on both sides; queries are symmetric |
| dedupe | three points of four sources, a globe of sixteen degrees | a chain of three, a survivor that is merged itself, a short parallel, the antimeridian |
| chart, marina | records of three fields, points of interest of two | guards look at two fields of a record at a time, or three |
| lifecycle | two starts, two outputs | a start over a failed one, with a request out from the first |
| ports | two callers, two ports that can be placed and one that cannot, in two viewports | a list, a detail and a late list on one download; a late list whose viewport has no port in the set, beside one that has |
| settings | a group of fields of one kind at a time, numbers at and around their bounds | fields of different kinds do not meet in the code |
| boxes | twenty-four degrees of longitude, twelve of latitude, three zones | each union meets each side of the seam, a circle that reaches a pole and a box wider than half the globe |

Ages are capped where the code's comparison stops caring (`Older`), which bounds
the state without bounding time; only `MaxTime`, `MaxChanges`, `MaxVersion(s)`,
`MaxDamage`, `MaxRuns`, `MaxStarts` and `MaxRestarts` cut behaviours off.
Deadlock is allowed (`CHECK_DEADLOCK FALSE`) only where a bound ends the
behaviour, or a stopped plugin, a settled request or a computed result has
nothing left to do. The arcgis part is symmetric in its two queries and the
overpass part in the two mirrors (`SYMMETRY`); no liveness property is in that run.

## Fairness

Safety needs none. For liveness:

* position monitor (route_cancelled): `WF(Settle)`, `WF(Finally)`. The aggregate
  races every source against a timeout (`input-registry.ts`), so a list request
  settles, and the runtime runs continuations. That fixes come is never assumed.
* course reader: deltas queued are delivered, server calls settle.
* request queue: time passes; timers and back-offs fire; a fetch is aborted by its
  own timeout at worst, so `Settles` per request. That it succeeds is not assumed.
* one-shot requests: the call begins and its deadline fires. Nothing of the
  upstream.
* bridge alarms: time passes and the timeout of the race fires. The upstream may
  never answer.
* Light List: `SF(Refresh)`: the vessel is in US waters again and again (the
  refresh is gated on it); `SF(Answer(p))`: a page asked for again and again is answered
  in the end. Writes may fail for ever: what converges is the map in memory.
* tiles: a tile is read again and again and its requests do not always fail;
  without either nothing can promise a refresh.
* status rows: the chart and the monitor go on polling, timers and windows end,
  and the upstream is not out of order for ever. One assumption more,
  `ReadInTime`: of the background refreshes that succeed, some are followed by a
  read within the fresh window. It holds where polls come faster than windows
  end, as they do with the defaults. `RarePollSpec` is the specification without
  it, which violates `RowTellsRequests` (findings).


## The proofs

Eight modules hold theorems; `tlapm <module>.tla` checks them to the last leaf.
They assume nothing but the named `ASSUME`s of the modules they are about (or,
for modules that are instantiated and for the lifecycle and the Light List, a
predicate on the constants in the hypothesis), which TLC evaluates in every run
that extends the module. Each goes through an inductive invariant, with one
lemma per action where there are many. `PROJECT.json` lists the theorems with
the property each one states. Of the invariants and action properties that the
passing runs check, all are theorems; only liveness is left to TLC alone.

| module | inductive invariant | shows, for every value of the constants |
|---|---|---|
| ProximityProofs | `Inv`: types, `WireMatchesTracker`, `HeldFromLastReport`, `ListIsReported` | the alarms follow the geometry (`AlarmsSound`), only geometry, the window or a stop clears one (`ClearJustified`), raise and clear lie on either side of the band (`NoChatter`) |
| MonitoredProofs | `Inv`: types, `OneRequestInFlight`, `NoScanForgotten`, `TicksKeepUp`; `InHand` (the list in hand was answered, and evaluated somewhere) and `Sampled` (a fix that was not evaluated is a sampling distance from the last one at most) | `MonitorSound`, `RequestsThrottled`, `EvaluatesNewest`; the monitor with the alarms behind it implements the monitor (`MonitorStaysItself`) and the alarms' specification (`Refines`), step by step; from that and the alarms' own theorem, `FixesAreChecked` |
| RouteProofs, the reader | `CacheInv`: `ClearHasItsOwn` (no refresh has the generation a clear took), `ClearsAreFollowed` (the last delta of a change is not the clear), `NewestIsToldTheCourse` | `NoResurrection`, `CacheIsCourse` |
| RouteProofs, the scan | `ScanInv`: `Slot`, `BeforeFirstFix`, `OutdatedRouteIsRescanned`, `AlarmsOfTick` (the alarms are those the list in hand gives for the route of its tick); `AlarmsAreShown`, inductive as it stands | `AlarmsFollowRoute`; that the output implements the reader (`OutputRefinesReader`) and the monitor (`OutputRefinesMonitor`), step by step, so that what is proved of each alone holds of the two joined |
| RouteProofs, the corridor | `CorridorInv`: `BoxSoFar` (the box holds the legs behind it), `BoxHoldsRoute`, `FlaggedBefore` (what is flagged is what the legs scanned so far flag, each point by the nearest of them) | `CorridorSound`, for routes of any length |
| BridgeClearanceProofs, the resolver | `ResolverInv`: `OneRacing` (one attempt of a bridge at most still races its timeout, and it is the last begun), `CoolOffRuns` (a failure is no older than its attempt) | `NoLateOverwrite`, `RetriesSpaced` |
| BridgeClearanceProofs, the alarms | `AlarmInv`: `WireIsTracker`, `TrackedAsReported`, `ListIsReported`, `CacheIsTold` (the clearance held is the one last told) | `ClearJustified`, `LowBridgesAlarm` |
| UpstreamProofs | `QueueInv`: `Accounts` (the counter of slots is the number of requests in a phase that holds one, the queue that of those that wait), `WorkConserving`, `ClosedIsQuiet` | `SlotsSound` |
| | `HttpInv`: `Standing` (what a request that is settled has left open), `Streamed`, `Outcome` | `RequestSound` |
| | `CacheInv`: the entries, the order of use, and `Coherent` (these fetches and no others are out for these entries) | `CacheSound`, `FailuresContained` |
| | `BoxInv`: the shape of a box, and `BoxCoversZones` | `BoxesSound`, for a globe, tiles and spans of any size |
| StoresProofs | `StoreInv`: page by page, what memory holds (`MemoryOf`), what the disk holds (`DiskOf`), and how dirty marks tie the two (`LinkOf`); what a flush has yet to write (`WritesSound`, `PassSound`) | `PagesSound`, where no two pages share a number |
| | `IndexInv`: what is held of a family is an answer, whole, or counts more than it holds (`HeldSound`, `DiskSound`) | `IndexKept` |
| | `DetailStoreInv`: a write is scheduled for the open run only, and with none due or failed the mirror is in the file | `StoreKept` |
| | `CacheInv`: nothing is fresh while a load is out | `StaleAnswers` |
| SourceProofs | `ListInv`: who awaits a tile that is being fetched, poll by poll | `WaitingHasReason` |
| | `QueryInv`: the time spent is within the budget and the rounds of the endpoint at hand | `QueryBounded` |
| | `PagesInv`: what came of a part is a prefix of what is stored, all of it once the part is over | `QueryComplete` |
| | `DetailsInv`: what a record of ActiveCaptain may carry | `DetailsAgree`, for records with any number of fields |
| | `DedupeInv`: `MergesSound` (what is dropped was merged into a point that stays; each point that stays has the least clearance and the credits of its group so far), `KeptApart` (the points behind the loop are apart from those they are merged with), `LoopsSound` (what is behind the loop is handed on or dropped, and not both) | `DedupeSound`, for any poll, radii and scale of the parallels |
| PluginProofs | `LifecycleInv`: `LifecycleSound` with the runs that opened anything, latched anything or list, all among those started | `LifecycleSound` |
| | `WholeSetHonest`, inductive as it stands: somebody waits exactly while a download is out, and the set, its rows and what was listed agree | `PortsKept` |
| | `SettingsInv`: `SavedRuns` (what was saved is stored, runs, and was resolved when it was saved) | `SettingsSound` |
| | `CadenceInv`: `Behind`, `Steady` (how far a fix that did not evaluate can be from the last that did), `GapCovered` | `CadenceCovers` |

Why the invariants have to be stronger than what they show:

* From list to list a hold is bounded only because the alarm's last report is kept
  when a list omits the point, and because a replay brings the list's time and not
  its own: `HeldFromLastReport` and `ListIsReported` say so together. While no list
  lands nothing bounds it (observations).
* That a scan is never forgotten needs the flag of the slot and the requests
  outstanding to agree at every await, between an answer and its `finally` included.
* The monitor maps to a caller of the alarms only while the list it replays is one
  that was answered: `InHand` tells a replay from a first list. The fixes between
  two evaluations are then near one that the alarms were sound at.
* An outdated refresh is dropped by its generation, which helps only if a clear
  takes a generation of its own, and brings the cache to the course only if the
  clear is never the last delta of a change.
* That the alarms are those of the route needs to remember what the tick read:
  between the request and the answer route, cache and alarms may all differ, and
  what keeps them together is that a scan is then bound to come. That the server
  shows no alarm after the teardown is about the answers that come in later: a
  monitor that has stopped evaluates none of them.
* A box that holds the two ends of a leg holds the leg, and one that is widened
  holds what it held; but the look-ahead may end at a waypoint, and the legs that
  lie beyond it without a length lie at that waypoint as well. Of the flagged
  points it takes both that each has the projection of some leg and that none of
  the legs behind is nearer. A vessel that went on along its leg has as much less of
  the look-ahead asked for as it went (`asked`), which makes what is left of the route
  that much shorter (`RouteIsNearer`).
* The slots need a count, so the queue's proof rests on lemmas about the
  cardinality of a set that gains or loses one request.
* The order of use is an injective sequence of just the tiles that are known; a
  tile is dropped or moved to the end, and the fetch of one that was dropped
  serves no entry, so that its answer may not touch the one that came after it.
* Of a bridge only the last attempt still races, as it holds the bridge in flight.
  So until the stop the cache holds the clearance last told (`CacheIsTold`), and
  with it an alarm that stands is of a bridge that was told to be too low.
* On disk, an index is written after its pages, and a page may be written anew
  after it: so a page is no older than its metadata, never equal to it. In
  memory a page that is not dirty is backed by its file, and one that is dirty
  has a validator no older than the disk's. Both survive a crash because a page
  that does not match its metadata is loaded without a validator. `PagesApart`,
  that no number is listed by two pages, is a hypothesis; `light_list_shared`
  shows what happens without it.
* An entry of an index that was cut still carries its validator and its count. That
  the count exceeds what is left is what makes the load drop the validator, so it
  has to be an invariant of the file.
* Two renderings agree record by record because each takes its fields one by one:
  lemmas say of every helper that it reads the union of two sets of fields as it
  reads each, so a record with any fields is settled by its groups of fields.
* That nine cells are enough is an argument on products and quotients
  (`ClosePointsMeet`): a cell is as wide as the widest radius, a degree of a
  parallel is no shorter anywhere in the poll than at the latitude the grid is laid
  out for, and two numbers no further apart than a cell lie in cells that touch. Each
  loop applies it to the points behind it, so what it left apart has to be
  remembered (`KeptApart`). A point that the first loop keeps may be dropped by the
  second; no credit is lost with it, because nothing was merged into a point before
  it was handed on (`MergesSound`, `LoopsSound`).
* On the circle of longitudes, boxes are compared as arcs that start in the west and
  lie a turn or none away (`OnArc`). Wrapping moves an arc by a turn
  (`IntervalWraps`), whatever the two ends do. That the union is the narrowest rests
  on the shift between two arcs within a third being one of the three the code tries.

Induction over data is out of the prover's reach where the induction theorems take
an operator. The proofs of the cadence and of the corridor do with sets instead:
a set of numbers with a least element (`WFMin`) suffices to add up the legs of a
route, which exist as a function because every shorter one does.

What is checked by TLC alone is liveness (`ReaderConverges`, `Released`,
`Refreshed`, `LightsConverge`, `RequestsSettle`, `OutageEndShows`), which is beyond
the prover; and the three runs that expect a violation.

What was changed to reason about the models, without changing what they do: the
assumptions on the constants have names, and say no more than the types and the
signs of the code's own constants (a positive interval, a window of some length,
a sentinel that is no value); sums of legs are a recursive function; cases are
disjoint; the features of an ArcGIS answer are numbers on each side; the sweep of
the de-duplication takes the first match of an order instead of sorting; and
`StartTime` lets the alarms begin at any time, as they do behind the monitor.

## Findings

Three have a run, whose property the code violates:

* `route_cancelled` (`CancelledRouteClears`). A tick forced by a cancelled route is
  spent when its request goes out. If another output wants a box, that request
  may fail (`position-monitor.ts:367`), no evaluation follows, and a vessel at
  rest keeps the alarms of a route that is gone; the comment on
  `forcedTickPending` (`position-monitor.ts:153`) promises that a cancellation
  takes effect while the vessel is stationary.
* `light_list_shared` (`PagesKeptApart`). An aid that moves between two pages of
  the Light List, the new one refreshed first, is deleted when the old one is
  refreshed (`light-list-store.ts:365`), and the new page then answers 304; the
  comment at the head of the file says that the two are not confused.
* `start_error` (`StartErrorStays`). A list request of the former run that settles
  after a new start has failed writes its healthy line over the error
  (`plugin.ts:189`), since the latch belongs to one start; the comment at
  `plugin.ts:184` says that the error stays until the next start.

Nineteen were met on the way. The formula that would state what the document or
comment says is kept beside the property that holds, and is in no run, since
the code does not satisfy it; checked in place of that property, TLC finds the
counterexample. Where the property that holds has an exception, it is this one.

| formula | module | the code |
|---|---|---|
| `PromisedPassIsKept` | ScanCadence | reports a covered speed at which the distance floor puts two evaluations further apart than the chord |
| `NearRouteIsFlagged` | RouteCorridor | has no corridor on the outer side of a turn |
| `AheadIsFlagged` | RouteCorridor | discards a hazard inside the look-ahead that a leg beyond it passes nearer |
| `FirstLegWasAsked` | RouteCorridor | scans from a newer fix than the one the box was made for |
| `KnownClearanceIsServed` | BridgeClearanceAlarms | forgets a clearance that came with a merged duplicate when a list lacks the duplicate |
| `LossIsRefetched` | IndexStore | keeps the validators of a file of notices of which the load dropped records |
| `MirrorAnswers` | OverpassClient | spends the budget of the mirrors on one that hangs |
| `FailsOverWhenAsked` | OverpassClient | passes over an endpoint that the full queue kept from being asked |
| `ErrorAnswerRejects` | ArcgisQuery | ends a query as if complete on an error sent with status 200 |
| `OnlyRenumberedBarred` | ArcgisQuery | bars a layer for the session on such an error in answer to its name |
| `SweepIsExhaustive` | DedupePois | keeps both twins across the antimeridian |
| `MarinaLockstep` | MarinaDetails | makes a section of a mooring's flag alone, and no paragraph |
| `MarinaHtmlMirrored` | MarinaDetails | says when a point was last updated in the description alone |
| `SectionsMirrorHtml` | ChartDetails | has fields that one rendering shows and the other does not |
| `CirclesEnclosed` | BoundingBoxes | projects the corners of a circle at a pole past it |
| `RowTellsRequests` | SourceListing | never shows the successes of a source polled less often than its window |
| `FailureStands` | WholeSetSource | records no failure of a late list whose viewport has no port in the set |
| `ShownIsUsed` | SettingsPanel | runs an absent flag as off and shows it as on |
| `NothingLeaks` | PluginLifecycle | leaves the sources made before one that throws open |

`PROJECT.json` quotes both sides of each.

Observations, smaller or open to argument:

* An alarm given up as unreported is cleared with a message saying that the
  vessel has not moved clear (`proximity-alarms.ts:107`); the mark is set on the
  age of the last report alone (`alarm-retention.ts:148`).
* `scan-cadence.ts:85` reads as if the coverage move were measured from the last
  list; it is measured from the last request, failed or not (`position-monitor.ts:207`).
* In an outage no list lands, so `position-monitor.ts:317` replays the old one with
  the old time and no hold expires, while `position-monitor.ts:280` and
  `alarm-retention.ts:32` say that an outage expires a held alarm too. The models
  state the window between lists, as the code has it.
* `bridge-clearance-alarms.ts:203` says that the resolver does not suppress the
  fetches of an unresolvable bridge; it does, for a minute
  (`bridge-clearance-resolver.ts:220`), as `RetriesSpaced` has it.
* The speed `scan-cadence.ts:178` reports as covered is for steady fixes, the floor
  aside (`PromisedPassIsKept`); for uneven ones half of it is (`CadenceCovers`).
* Retries inside a slot (`http-client.ts:446`) do not wait for the start spacing
  described at `http-client.ts:21`.
* The late observer of a source records its outcome when it comes, also over a
  newer detail's; a late rejection is logged and leaves the row alone.
* A source that hangs and is polled rarely never shows an error on its row, and a
  list that fails late in the same run replaces an error that was latched.

## What is not modelled

* Parsing of wire records, light characters, types, scale bands, rating and year
  filters, the table of LNM layers and its geometries; the text of queries,
  messages and notes. Pure conversions, without state.
* Floating-point geodesy. Where a model depends on a distance it takes whole
  steps, on a line, a flat sea or a small globe, on which a circle away from the poles
  is as wide in degrees of longitude as it is tall. The curvature by which a real box
  falls short of its circle on two sides (`position-utilities.ts:173`), some thirty
  meters in ten kilometers at sixty degrees of latitude, is left out with it.
* The lengths of request spacing, back-off and `Retry-After`, beyond their order
  and, for the mirrors, units of ten seconds.
* Eviction from the resolver's caches (they are far larger than a corridor) and
  the age at which stored details are pruned on load.
* Status counts, times and error texts, and the router that serves them; the
  panel's drawing, its units and its polling of the status.
* Timers that fall due in the same millisecond in an order the runtime does not
  define; a load that outlasts the half minute before the first pass; a write
  of a failed Light List flush that outlasts the hours to the next.

## Plan

What is left, in order of weight:

1. Eviction in the resolver, and the bridges' verdicts in the route scan.
2. `RouteHazardScan` shown to implement the alarms' own specification, as
   `MonitoredProximity` does.
3. The mapping of wire records to points as relations between sets of fields,
   and the panel's polling of the status.
