----------------------- MODULE BridgeClearanceResolver -----------------------
(***************************************************************************)
(* The resolver of bridge clearances (bridge-clearance-resolver.ts).  The  *)
(* alarm passes ask it for the clearance of a bridge, synchronously and at *)
(* the fix rate; it answers from its cache and starts detail fetches in    *)
(* the background, one per bridge, raced against a timeout and held back   *)
(* after a failure.                                                        *)
(*                                                                         *)
(* Time is kept as the ages the code compares, each capped where the       *)
(* comparison stops caring.  The caches are large enough not to evict.     *)
(* BridgeClearanceAlarms and its environment take these steps.             *)
(***************************************************************************)
EXTENDS Integers

CONSTANTS
    Bridges,        \* bridges whose clearance only a detail fetch can tell
    Clearances,     \* the clearances an upstream may report
    Unknown,        \* null
    Ttl,            \* ttlMs
    RetryWindow,    \* FAILED_FETCH_RETRY_MS
    FetchTimeout    \* fetchTimeoutMs

\* What the properties need of the constants.
ConstantsFit ==
    /\ Unknown \notin Clearances
    /\ Ttl \in Nat \ {0} /\ RetryWindow \in Nat \ {0} /\ FetchTimeout \in Nat \ {0}
    /\ FetchTimeout <= RetryWindow

VARIABLES
    cache,      \* bridge -> its clearance and the age of it
    failed,     \* bridge -> the age of the start of its last failed attempt
    inFlight,   \* the bridges with a fetch out
    attempts,   \* the detail promises that have not settled
    closed,
    lastStart,  \* history: the age of the last attempt of each bridge
    overtaken   \* history: an attempt's value replaced that of a later one

resolverVars == <<cache, failed, inFlight, attempts, closed, lastStart, overtaken>>

\* A cached clearance; Unknown is a detail that had none.
NotCached == [clearance |-> Unknown, age |-> Ttl, cached |-> FALSE]

Init ==
    /\ cache = [b \in Bridges |-> NotCached]
    /\ failed = [b \in Bridges |-> RetryWindow]
    /\ inFlight = {}
    /\ attempts = {}
    /\ closed = FALSE
    /\ lastStart = [b \in Bridges |-> RetryWindow]
    /\ overtaken = FALSE

-----------------------------------------------------------------------------
Older(age, limit) == IF age < limit THEN age + 1 ELSE limit

Fresh(b) == cache[b].cached /\ cache[b].age < Ttl

CoolingOff(b) == failed[b] < RetryWindow

\* clearanceMeters, its answer: stale or not, what is known is served.
Clearance(b) == cache[b].clearance

\* Fault: nothing holds a failed bridge back.
NeedsFetchAtOnce(b) == ~closed /\ ~Fresh(b) /\ b \notin inFlight

NeedsFetch(b) == ~closed /\ ~Fresh(b) /\ ~CoolingOff(b) /\ b \notin inFlight

\* clearanceMeters, its effect, for the bridges a pass asks about: startFetch.
Lookup(bridges) ==
    LET started == {b \in bridges : NeedsFetch(b)} IN
    /\ inFlight' = inFlight \cup started
    /\ attempts' = attempts \cup {[bridge |-> b, age |-> 0, lost |-> FALSE] : b \in started}
    /\ lastStart' = [b \in Bridges |-> IF b \in started THEN 0 ELSE lastStart[b]]
    /\ UNCHANGED <<cache, failed, closed, overtaken>>

\* Fault: the cache is written when the detail comes, race or no race.
ResolvesUnraced(a, clearance) ==
    /\ attempts' = attempts \ {a}
    /\ IF closed
         THEN UNCHANGED <<cache, failed, overtaken>>
         ELSE /\ cache' = [cache EXCEPT ![a.bridge] =
                              [clearance |-> clearance, age |-> 0, cached |-> TRUE]]
              /\ failed' = [failed EXCEPT ![a.bridge] = RetryWindow]
              /\ overtaken' = (overtaken \/ a.age > lastStart[a.bridge])
    /\ inFlight' = inFlight \ {a.bridge}
    /\ UNCHANGED <<closed, lastStart>>

\* The detail comes: it is cached unless the race is lost or the run is over.
Resolves(a, clearance) ==
    /\ attempts' = attempts \ {a}
    /\ IF a.lost \/ closed
         THEN UNCHANGED <<cache, failed, overtaken>>
         ELSE /\ cache' = [cache EXCEPT ![a.bridge] =
                              [clearance |-> clearance, age |-> 0, cached |-> TRUE]]
              /\ failed' = [failed EXCEPT ![a.bridge] = RetryWindow]
              /\ overtaken' = (overtaken \/ a.age > lastStart[a.bridge])
    /\ inFlight' = IF a.lost THEN inFlight ELSE inFlight \ {a.bridge}
    /\ UNCHANGED <<closed, lastStart>>

\* The attempt is over without a value: the cool-off runs from its start.
FailedSince(a) ==
    /\ failed' = [failed EXCEPT ![a.bridge] = a.age]
    /\ inFlight' = inFlight \ {a.bridge}
    /\ UNCHANGED <<cache, closed, lastStart, overtaken>>

\* The detail fails; once the race is lost nobody listens.
Rejects(a) ==
    /\ attempts' = attempts \ {a}
    /\ IF a.lost
         THEN UNCHANGED <<cache, failed, inFlight, closed, lastStart, overtaken>>
         ELSE FailedSince(a)

\* Fault: a timeout does not release the bridge.
TimesOutPinned(a) ==
    /\ a.age = FetchTimeout /\ ~a.lost /\ ~closed
    /\ attempts' = (attempts \ {a}) \cup {[a EXCEPT !.lost = TRUE]}
    /\ failed' = [failed EXCEPT ![a.bridge] = a.age]
    /\ UNCHANGED <<cache, inFlight, closed, lastStart, overtaken>>

\* The timeout wins the race; the detail stays out.  close() dropped the timers.
TimesOut(a) ==
    /\ a.age = FetchTimeout /\ ~a.lost /\ ~closed
    /\ attempts' = (attempts \ {a}) \cup {[a EXCEPT !.lost = TRUE]}
    /\ FailedSince(a)

\* close().
Close ==
    /\ ~closed
    /\ closed' = TRUE
    /\ cache' = [b \in Bridges |-> NotCached]
    /\ failed' = [b \in Bridges |-> RetryWindow]
    /\ inFlight' = {}
    /\ UNCHANGED <<attempts, lastStart, overtaken>>

\* Time passes, but not past a timeout that is due.
Age ==
    /\ \A a \in attempts : a.age < FetchTimeout \/ a.lost \/ closed
    /\ cache' = [b \in Bridges |-> [cache[b] EXCEPT !.age = Older(@, Ttl)]]
    /\ failed' = [b \in Bridges |-> Older(failed[b], RetryWindow)]
    /\ lastStart' = [b \in Bridges |-> Older(lastStart[b], RetryWindow)]
    /\ attempts' = {[a EXCEPT !.age = Older(@, RetryWindow)] : a \in attempts}
    /\ UNCHANGED <<inFlight, closed, overtaken>>

Settle == \E a \in attempts :
              Rejects(a) \/ TimesOut(a) \/ \E c \in Clearances \cup {Unknown} : Resolves(a, c)
-----------------------------------------------------------------------------
\* An unresolvable bridge costs one attempt per window, whatever the pass rate:
\* a new one within the window of the last only follows a value.
RetriesSpaced ==
    [][\A b \in Bridges :
          lastStart'[b] = 0 /\ b \in inFlight' \ inFlight /\ ~cache[b].cached =>
             lastStart[b] = RetryWindow]_resolverVars

\* A detail that lost its race never overwrites what a later attempt brought.
NoLateOverwrite == ~overtaken

\* A hung detail fetch does not pin its bridge.
Released == \A b \in Bridges : b \in inFlight ~> b \notin inFlight
=============================================================================
