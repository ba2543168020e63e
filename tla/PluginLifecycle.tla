--------------------------- MODULE PluginLifecycle ---------------------------
(***************************************************************************)
(* Starts and stops of the plugin (plugin.ts, output-registry.ts) and the  *)
(* one line the server keeps for it, which the last writer wins.  A start  *)
(* first tears down what an earlier one left; outputs and the monitor may  *)
(* fail to start and anything may throw as it stops.  A list request of    *)
(* the notes output (notes-resource-output.ts) outlives the run it was     *)
(* made in, and writes the line and its run's recorder when it settles.    *)
(***************************************************************************)
EXTENDS Integers

CONSTANTS
    Outputs,    \* the output modules
    Notes,      \* the one that registers the resource provider
    StopOrder,  \* the rank of each resource in the teardown
    MaxStarts   \* bound: starts of the plugin

Resources == Outputs \cup {"monitor", "resolver", "source"}

LifecycleConstants ==
    /\ Notes \in Outputs /\ Outputs \cap {"monitor", "resolver", "source"} = {}
    /\ StopOrder \in [Resources -> Nat]
    /\ MaxStarts \in Nat

VARIABLES
    starts,     \* starts so far; a run bears its number
    runtime,    \* the run that is up, or 0
    open,       \* <<run, resource>>: what is subscribed, scheduled or held
    latched,    \* the runs whose guarded app suppresses healthy writes
    lists,      \* the runs that have a list request out
    line,       \* the server's line: what it says, and which run wrote it
    rows,       \* whose outcomes the snapshot shows
    refused,    \* history: what threw when it was stopped
    forsaken    \* history: the runs whose sources could not all be made

lifecycleVars == <<starts, runtime, open, latched, lists, line, rows, refused, forsaken>>

LifecycleInit ==
    /\ starts = 0 /\ runtime = 0
    /\ open = {} /\ latched = {} /\ lists = {} /\ rows = {} /\ refused = {} /\ forsaken = {}
    /\ line = [says |-> "nothing", run |-> 0]

-----------------------------------------------------------------------------
Held == {o \in open : o[1] = runtime}

\* Fault: a stop that throws ends the teardown.
AbandonedAt(throwing) ==
    {o \in Held : \E t \in throwing : StopOrder[t[2]] <= StopOrder[o[2]]}

\* teardown: every resource of the run is stopped, whichever of them throw.
LeftOpen(throwing) == throwing

\* The runtime and its recorder are replaced before anything is stopped: run is
\* the next one, which has opened some, or 0.
Replaced(run, opened) ==
    \E throwing \in SUBSET Held :
        /\ runtime' = run
        /\ rows' = {}
        /\ open' = ((open \ Held) \cup LeftOpen(throwing)) \cup opened
        /\ refused' = refused \cup throwing

Stop ==
    /\ Replaced(0, {})
    /\ UNCHANGED <<starts, latched, lists, line, forsaken>>

\* The data directory cannot be had, or createSource throws.  The server reports it.  The
\* sources made before the one that throws are held by nobody, so that nothing closes them.
StartThrows ==
    /\ starts < MaxStarts
    /\ starts' = starts + 1
    /\ \E made \in SUBSET {"source"} :
          /\ Replaced(0, {starts'} \X made)
          /\ forsaken' = IF made = {} THEN forsaken ELSE forsaken \cup {starts'}
    /\ line' = [says |-> "error", run |-> starts']
    /\ UNCHANGED <<latched, lists>>

\* What a start has opened when these have failed: startEnabled isolates an
\* output that throws, and the monitor has a try of its own.
Opened(enabled, failed) ==
    {starts + 1} \X ((enabled \cup {"monitor", "resolver", "source"}) \ failed)

\* start: "Ready" when nothing failed, otherwise the latch and an error.
Start(enabled, failed) ==
    /\ starts < MaxStarts
    /\ starts' = starts + 1
    /\ Replaced(starts', Opened(enabled, failed))
    /\ latched' = IF failed = {} THEN latched ELSE latched \cup {starts'}
    /\ line' = [says |-> IF failed = {} THEN "healthy" ELSE "error", run |-> starts']
    /\ UNCHANGED <<lists, forsaken>>

Starts == \E enabled \in {on \in SUBSET Outputs : Notes \in on} :
            \E failed \in SUBSET (enabled \cup {"monitor"}) : Start(enabled, failed)

-----------------------------------------------------------------------------
(* listResources, up to its await and after it. *)

\* The server drops the provider when it stops the plugin.
ListAsked ==
    /\ <<runtime, Notes>> \in Held
    /\ lists' = lists \cup {runtime}
    /\ UNCHANGED <<starts, runtime, open, latched, line, rows, refused, forsaken>>

\* Fault: one recorder, emptied for each run.
RecordedAnywhere(run) == rows \cup {run}

\* An outcome goes to the recorder of its own run, shown or not.
Recorded(run) == IF run = runtime THEN rows \cup {run} ELSE rows

\* Fault: the outputs get the app itself.
UnguardedStatus(run) == [says |-> "healthy", run |-> run]

\* setPluginStatus of the guarded app.
GuardedStatus(run) == IF run \in latched THEN line ELSE [says |-> "healthy", run |-> run]

ListAnswered(run) ==
    /\ line' = GuardedStatus(run)
    /\ rows' = Recorded(run)

\* Every source failed, or closing them cut the request short.
ListFailed(run) ==
    /\ line' = [says |-> "error", run |-> run]
    /\ rows' = Recorded(run)

ListSettles ==
    \E run \in lists :
        /\ lists' = lists \ {run}
        /\ ListAnswered(run) \/ ListFailed(run)
        /\ UNCHANGED <<starts, runtime, open, latched, refused, forsaken>>

LifecycleNext == Stop \/ StartThrows \/ Starts \/ ListAsked \/ ListSettles

LifecycleSpec == LifecycleInit /\ [][LifecycleNext]_lifecycleVars

-----------------------------------------------------------------------------
\* What a start that threw had made of its sources.
MadeInVain(o) == o[1] \in forsaken /\ o[2] = "source"

\* Whatever throws on the way down, and however a start follows: nothing of a
\* former run stays open but what refused to stop and the sources of a start that
\* threw; the run that is up holds its source, and the snapshot shows no outcome of a
\* former run, though its list requests settle later.  A run whose start failed writes
\* nothing healthy.
LifecycleSound ==
    /\ \A o \in open : o[1] = runtime \/ o \in refused \/ MadeInVain(o)
    /\ runtime # 0 => <<runtime, "source">> \in open
    /\ rows \subseteq {runtime} \ {0}
    /\ line.says = "healthy" => line.run \notin latched

\* No throw can leave anything of a former run but what refused to stop, as the comment
\* above teardown has it.
NothingLeaks == \A o \in open : o[1] = runtime \/ o \in refused

\* "A start-time failure latches a plugin error that must stay visible until the
\* next start": the line of a run that failed to start says so.
StartErrorStays == runtime \in latched => line.says = "error"
=============================================================================
