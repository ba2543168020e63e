--------------------------- MODULE WholeSetSource ---------------------------
(***************************************************************************)
(* The World Port Index source (wpi-source.ts, wpi-client.ts): no boxes, no *)
(* pages, no scheduler.  The first list or detail that finds the set stale *)
(* downloads all of it, whoever comes meanwhile joins that download, and a *)
(* failed one is not repeated within the cool-down.  A set is the ports it *)
(* holds, and is replaced as a whole; a port without usable coordinates    *)
(* can be looked up but makes no row.  A viewport is the ports that lie in *)
(* it.                                                                     *)
(***************************************************************************)
EXTENDS Integers, FiniteSets

CONSTANTS
    Callers,        \* those who list or ask for a detail
    Ports,          \* the ports of the index
    Unplaced,       \* those whose coordinates are unusable
    Views           \* the viewports that are listed

ASSUME WholeSetConstants == Unplaced \subseteq Ports /\ Views \subseteq SUBSET Ports

VARIABLES
    cache,      \* the ports of the detail cache
    listed,     \* summaryRows: the ports of the last good dump
    dump,       \* the download: "none", "out", or "cooling" after a failed one
    fresh,      \* datasetIsFresh
    calls,      \* caller -> what it waits for
    late,       \* the viewports of the lists that were given up and are still observed
    left,       \* history: all that the failed download of this cool-down left
    row,        \* the status row: apiReachable, and whether it says waiting
    shown       \* history: caller -> what its last call came to

wholeVars == <<cache, listed, dump, fresh, calls, late, left, row, shown>>

Usable(ports) == ports \ Unplaced

\* What a call waits for the download as.
Idle == [kind |-> "none", view |-> {}]
Asking == [kind |-> "detail", view |-> {}]
ListOf(view) == [kind |-> "list", view |-> view]
LateOf(view) == [kind |-> "late", view |-> view]

\* What a list of a viewport comes to.
Rows(view, ports) == [view |-> view, ports |-> ports \cap view]
Nothing == [view |-> {}, ports |-> {}]

WholeInit ==
    /\ cache \in SUBSET Ports       \* hydrated from the disk, or empty
    /\ listed = {}
    /\ dump = "none"
    /\ fresh = FALSE
    /\ calls = [c \in Callers |-> Idle]
    /\ late = {} /\ left = {}
    /\ row = [reach |-> "unknown", wait |-> FALSE]
    /\ shown = [c \in Callers |-> Nothing]

Reachable == [reach |-> "yes", wait |-> FALSE]
Failed == [reach |-> "no", wait |-> FALSE]

InFailureCoolDown == dump = "cooling"

\* ensureFresh has nothing to wait for.
NothingToDo == fresh \/ InFailureCoolDown

-----------------------------------------------------------------------------
\* Fault: a list of the cool-down reads the rows of this session only.
FromRows == listed

\* listPointsOfInterest when no download is due: the rows of the last dump, or
\* what was hydrated when this session has had none.
Quietly ==
    IF listed = {} /\ cache # {} THEN Usable(cache) ELSE listed

List(c, view) ==
    /\ calls[c] = Idle
    /\ IF NothingToDo
         THEN /\ shown' = [shown EXCEPT ![c] = Rows(view, Quietly)]
              /\ UNCHANGED <<calls, dump>>
         ELSE /\ calls' = [calls EXCEPT ![c] = ListOf(view)]
              /\ dump' = "out"
              /\ UNCHANGED shown
    /\ UNCHANGED <<cache, listed, fresh, late, left, row>>

\* Fault: the cool-down does not hold for a detail.
AsksWhenStale(c) == ~fresh

\* A detail of a port that is not cached asks for the set, unless that would do
\* nothing: a no-op proves no upstream reachable.
AsksForSet(c) == ~NothingToDo

\* getDetails of a port: a hit answers, also with an upstream that is down.
Detail(c, port) ==
    /\ calls[c] = Idle
    /\ IF port \notin Usable(cache) /\ AsksForSet(c)
         THEN /\ calls' = [calls EXCEPT ![c] = Asking]
              /\ dump' = "out"
         ELSE UNCHANGED <<calls, dump>>
    /\ UNCHANGED <<cache, listed, fresh, late, left, row, shown>>

\* The aggregate gives a list up after its five seconds and keeps an observer.
GivesUp(c) ==
    /\ calls[c].kind = "list"
    /\ calls' = [calls EXCEPT ![c] = Idle]
    /\ late' = late \cup {calls[c].view}
    /\ row' = [row EXCEPT !.wait = TRUE]
    /\ shown' = [shown EXCEPT ![c] = Nothing]
    /\ UNCHANGED <<cache, listed, dump, fresh, left>>

Waiting == {c \in Callers : calls[c] # Idle}

\* refreshDataset: the dump replaces the whole set once it is known to be usable.
\* A list answers fresh, a detail proves the upstream reachable too.
DumpArrives(ports) ==
    /\ dump = "out"
    /\ ports # {} => Usable(ports) # {}
    /\ cache' = ports
    /\ listed' = Usable(ports)
    /\ fresh' = TRUE
    /\ dump' = "none"
    /\ row' = Reachable
    /\ calls' = [c \in Callers |-> Idle]
    /\ late' = {}
    /\ shown' = [c \in Callers |-> IF calls[c].kind = "list"
                                   THEN Rows(calls[c].view, Usable(ports)) ELSE shown[c]]
    /\ UNCHANGED left

\* The download fails, or is of no use: each list is served from the cache what lies in its
\* viewport, or fails when that is nothing; a late list that fails is not recorded.
DumpFails ==
    /\ dump = "out"
    /\ dump' = "cooling"
    /\ calls' = [c \in Callers |-> Idle]
    /\ late' = {}
    /\ left' = {calls[c] : c \in Waiting} \cup {LateOf(view) : view \in late}
    /\ shown' = [c \in Callers |-> IF calls[c].kind = "list"
                                   THEN Rows(calls[c].view, Usable(cache)) ELSE shown[c]]
    /\ row' = IF Waiting # {} \/ \E view \in late : Usable(cache) \cap view # {}
                THEN Failed ELSE row
    /\ UNCHANGED <<cache, listed, fresh>>

\* The window of the set, or the cool-down, runs out.
WindowEnds ==
    /\ \/ fresh /\ fresh' = FALSE /\ UNCHANGED <<dump, left>>
       \/ InFailureCoolDown /\ dump' = "none" /\ left' = {} /\ UNCHANGED fresh
    /\ UNCHANGED <<cache, listed, calls, late, row, shown>>

WholeNext ==
    \/ \E c \in Callers : \/ \E view \in Views : List(c, view)
                          \/ GivesUp(c)
                          \/ \E port \in Ports : Detail(c, port)
    \/ \E ports \in SUBSET Ports : DumpArrives(ports)
    \/ DumpFails
    \/ WindowEnds

WholeSpec == WholeInit /\ [][WholeNext]_wholeVars

-----------------------------------------------------------------------------
Calls == {Idle, Asking} \cup {ListOf(view) : view \in Views}

WholeTypeOK ==
    /\ cache \in SUBSET Ports /\ listed \in SUBSET Ports
    /\ dump \in {"none", "out", "cooling"} /\ fresh \in BOOLEAN
    /\ calls \in [Callers -> Calls] /\ late \in SUBSET Views
    /\ left \in SUBSET (Calls \cup {LateOf(view) : view \in Views})
    /\ row \in [reach: {"unknown", "yes", "no"}, wait: BOOLEAN]
    /\ shown \in [Callers -> [view: SUBSET Ports, ports: SUBSET Ports]]

\* Somebody waits exactly while a download is out, be it the observer of a late list.
OneDownload == (Waiting # {} \/ late # {}) <=> dump = "out"

\* The index never goes blank: a list answers with every usable port of its viewport
\* there is in the cache, be it hydrated, within the cool-down of a failed download, or
\* after a download that was of no use.
NeverBlank ==
    [][\A c \in Callers :
          shown'[c] # shown[c] /\ shown'[c] # Nothing =>
              shown'[c] = Rows(shown'[c].view, Usable(cache'))]_wholeVars

\* Within the cool-down of a failed download nothing is asked, whoever calls, and
\* nothing is recorded.
CoolDownHolds ==
    [][InFailureCoolDown => dump' # "out" /\ row' = row]_wholeVars

\* The failure has come to somebody: to a call that still waited, or to a late list that
\* has a port to show.
FailureTold == \E call \in left : call.kind # "late" \/ Usable(cache) \cap call.view # {}

\* Somebody waits exactly while a download is out, so that one failure is told to
\* all who joined it; the rows of the lists are those of the cached set; and in the
\* cool-down of a failed download that anybody was told of, no row says reachable.
WholeSetHonest ==
    /\ WholeTypeOK
    /\ OneDownload
    /\ fresh \/ listed # {} => listed = Usable(cache)
    /\ InFailureCoolDown /\ FailureTold => row.reach = "no"

\* The recorded failure stands in every cool-down, as the comment above ensureFresh has
\* it, whoever the failed download left.
FailureStands == InFailureCoolDown => row.reach = "no"

\* The three together: the state, what a list shows, and what a failure may cost.
PortsKept == []WholeSetHonest /\ NeverBlank /\ CoolDownHolds
=============================================================================
