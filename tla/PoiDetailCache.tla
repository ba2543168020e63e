--------------------------- MODULE PoiDetailCache ---------------------------
(***************************************************************************)
(* The details of one ActiveCaptain point of interest: the cache that      *)
(* loads them (poi-cache.ts, over the fetch of lru-cache), the store it    *)
(* hydrates from and mirrors to (poi-store.ts), and the source that wires  *)
(* its outcomes to the status row (active-captain-source.ts).  Loads of a  *)
(* run that has been stopped go on to resolve.                             *)
(***************************************************************************)
EXTENDS Integers, FiniteSets

CONSTANTS Callers

VARIABLES
    mem,        \* the cached details: "none", "fresh" or "stale"
    kept,       \* the store holds the details
    load,       \* who awaits the load that is out, the first of them first, or NoLoad
    open,       \* the source has not been closed
    reach,      \* the status row
    got         \* caller -> what its last call came to

detailVars == <<mem, kept, load, open, reach, got>>

NoLoad == [first |-> {}, joined |-> {}]
Awaiting(c) == c \in load.first \cup load.joined

\* Hydrated details keep their age: stale when they are older than the window.
DetailInit ==
    /\ kept \in BOOLEAN
    /\ mem \in IF kept THEN {"fresh", "stale"} ELSE {"none"}
    /\ load = NoLoad
    /\ open = TRUE
    /\ reach = "unknown"
    /\ got = [c \in Callers |-> "nothing"]

\* get: fresh details answer, else the call joins the load that is out, or
\* starts one.
Get(c) ==
    /\ open /\ ~Awaiting(c)
    /\ CASE mem = "fresh" -> got' = [got EXCEPT ![c] = "details"] /\ UNCHANGED load
         [] mem # "fresh" /\ load # NoLoad -> load' = [load EXCEPT !.joined = @ \cup {c}] /\ UNCHANGED got
         [] OTHER -> load' = [NoLoad EXCEPT !.first = {c}] /\ UNCHANGED got
    /\ UNCHANGED <<mem, kept, open, reach>>

\* Fault: a load that resolves after the close is written all the same.
PersistsAlways == TRUE

\* The wrapper of the store drops what comes after the close.
Persists == open

LoadSucceeds ==
    /\ load # NoLoad
    /\ mem' = "fresh"
    /\ kept' = (kept \/ Persists)
    /\ reach' = IF open THEN "yes" ELSE reach
    /\ got' = [c \in Callers |-> IF Awaiting(c) THEN "details" ELSE got[c]]
    /\ load' = NoLoad
    /\ UNCHANGED open

\* Fault: the stale details are dropped with the load.
DroppedStale == "none"

\* noDeleteOnFetchRejection.
KeptStale == mem

\* Fault: every caller is told of the failure of the load.
Told(c) == "failed"

\* allowStaleOnFetchRejection: stale details beat no answer.  With none, the call
\* that made the load has its error, one that joined it a general one.
ServedOnFailure(c) ==
    CASE mem = "stale" -> "details"
      [] mem # "stale" /\ c \in load.first -> "failed"
      [] OTHER -> "no details"

\* The load fails; an answer that there is no such point counts as an answer.
LoadFails(notFound) ==
    /\ load # NoLoad
    /\ mem' = KeptStale
    /\ reach' = IF ~open THEN reach ELSE IF notFound THEN "yes" ELSE "no"
    /\ got' = [c \in Callers |-> IF Awaiting(c) THEN ServedOnFailure(c) ELSE got[c]]
    /\ load' = NoLoad
    /\ UNCHANGED <<kept, open>>

\* The window of the details ends, or others push them out of the cache.
Ages ==
    /\ mem = "fresh" /\ mem' = "stale"
    /\ UNCHANGED <<kept, load, open, reach, got>>

Evicted ==
    /\ mem # "none" /\ load = NoLoad /\ mem' = "none"
    /\ UNCHANGED <<kept, load, open, reach, got>>

CloseSource ==
    /\ open /\ open' = FALSE
    /\ UNCHANGED <<mem, kept, load, reach, got>>

DetailNext ==
    \/ \E c \in Callers : Get(c)
    \/ LoadSucceeds
    \/ \E notFound \in BOOLEAN : LoadFails(notFound)
    \/ Ages \/ Evicted \/ CloseSource

DetailSpec == DetailInit /\ [][DetailNext]_detailVars

-----------------------------------------------------------------------------
\* Details that are cached, however old, answer every call also when the upstream
\* is down, and stay for the next; and a run that has been stopped touches
\* neither the store nor the row of the one that follows.
StaleAnswers ==
    [][/\ mem # "none" /\ got' # got => \A c \in Callers : got'[c] # got[c] => got'[c] = "details"
       /\ mem # "none" /\ load' # load => mem' # "none"
       /\ ~open => kept' = kept /\ reach' = reach]_detailVars
=============================================================================
