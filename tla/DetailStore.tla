----------------------------- MODULE DetailStore -----------------------------
(***************************************************************************)
(* The file a source keeps its details in (detail-store.ts) and the cache  *)
(* hydrated from it (hydrated-detail-cache.ts), over runs of the plugin    *)
(* that share the file: a run is stopped by a restart of the plugin, or    *)
(* the process ends, and the promises of a stopped run still resolve.      *)
(* The mirror of a run is the sequence of its entries, the oldest first;   *)
(* a value is a reference, so a record that was fetched again is another.  *)
(***************************************************************************)
EXTENDS Integers, FiniteSets, SequencesExt

CONSTANTS
    Entries,        \* what may be fetched: a record, and one of its values
    MaxEntries,     \* entries the file may hold
    MaxRuns         \* bound: runs of the plugin

ASSUME DetailStoreAssumption ==
    /\ IsFiniteSet(Entries)
    /\ MaxEntries \in Nat \ {0} /\ MaxRuns \in Nat \ {0}

VARIABLES
    run,        \* the run that has last been started
    up,         \* that run has not been stopped
    mirror,     \* run -> its entries
    timer,      \* the runs with a write scheduled
    failed,     \* the runs whose last write failed
    file        \* what is on disk: entries, and the run that wrote them

detailStoreVars == <<run, up, mirror, timer, failed, file>>

Runs == 1..MaxRuns
Keys(entries) == {entries[i].record : i \in DOMAIN entries}

\* A file that is not there, not readable, or of another version reads as empty.
Unreadable == [by |-> 0, entries |-> <<>>]

StoreInit ==
    /\ run = 1 /\ up = TRUE
    /\ mirror = [r \in Runs |-> <<>>]
    /\ timer = {} /\ failed = {}
    /\ file = Unreadable

-----------------------------------------------------------------------------
\* Fault: an entry that is stored again is stored twice.
StoredAgain(entries, entry) == Append(entries, entry)

\* An object names a record once.
Dropped(entries, record) ==
    LET at == {i \in DOMAIN entries : entries[i].record = record}
    IN IF at = {} THEN entries ELSE RemoveAt(entries, CHOOSE i \in at : TRUE)

Stored(entries, entry) == Append(Dropped(entries, entry.record), entry)

\* Fault: a stopped run may still persist.
AnyRun == 1..run

\* The runs whose store takes a persist: close drops the store.
OpenRuns == IF up THEN {run} ELSE {}

\* persist: the value already there is not written again.
Persist(r, entry) ==
    /\ r \in OpenRuns
    /\ entry \notin Range(mirror[r])
    /\ mirror' = [mirror EXCEPT ![r] = Stored(@, entry)]
    /\ timer' = timer \cup {r}
    /\ UNCHANGED <<run, up, failed, file>>

\* replaceAll: every entry has the same time, and each record one.
ReplaceSnapshot(r, entries) ==
    /\ r \in OpenRuns
    /\ Cardinality({e.record : e \in entries}) = Cardinality(entries)
    /\ mirror' = [mirror EXCEPT ![r] = SetToSeq(entries)]
    /\ timer' = timer \cup {r}
    /\ UNCHANGED <<run, up, failed, file>>

\* Fault: the newest entries are dropped.
DropNewest(entries) == IF Len(entries) > MaxEntries THEN SubSeq(entries, 1, MaxEntries) ELSE entries

\* pruneToCap: the oldest entries past the cap are dropped, from the mirror too.
PruneToCap(entries) ==
    IF Len(entries) <= MaxEntries THEN entries
    ELSE SubSeq(entries, Len(entries) - MaxEntries + 1, Len(entries))

\* The temporary file is written and renamed, or one of the two fails and the
\* file stays as it was.
WriteFile(r, ok) ==
    /\ mirror' = [mirror EXCEPT ![r] = PruneToCap(@)]
    /\ file' = IF ok THEN [by |-> r, entries |-> PruneToCap(mirror[r])] ELSE file
    /\ failed' = IF ok THEN failed \ {r} ELSE failed \cup {r}

\* flush, by the timer.  A failed write is swallowed, and not tried again before
\* the next change.
Flush(r, ok) ==
    /\ r \in timer
    /\ timer' = timer \ {r}
    /\ WriteFile(r, ok)
    /\ UNCHANGED <<run, up>>

\* close: what is scheduled is written at once, and the store let go.
Close(ok) ==
    /\ up
    /\ up' = FALSE
    /\ IF run \in timer THEN WriteFile(run, ok) /\ timer' = timer \ {run}
       ELSE UNCHANGED <<mirror, file, failed, timer>>
    /\ UNCHANGED run

\* Fault: the entries are written over the file, not beside it.
CutShort == [by |-> run, entries |-> <<>>]

\* A write cut short leaves a temporary file, which nobody reads.
CutWrite == file

\* The process ends, perhaps in the middle of a write: what was scheduled is lost.
EndProcess ==
    /\ up
    /\ up' = FALSE
    /\ timer' = {}
    /\ mirror' = [mirror EXCEPT ![run] = <<>>]
    /\ file' = IF run \in timer THEN CutWrite ELSE file
    /\ UNCHANGED <<run, failed>>

\* A run is started: load drops what is too old, the oldest entries first.  The
\* cache of the run is hydrated from the same entries.
StartRun ==
    /\ ~up /\ run < MaxRuns
    /\ run' = run + 1 /\ up' = TRUE
    /\ \E expired \in 0..Len(file.entries) :
          mirror' = [mirror EXCEPT ![run + 1] =
                       SubSeq(file.entries, expired + 1, Len(file.entries))]
    /\ UNCHANGED <<timer, failed, file>>

StoreNext ==
    \/ \E r \in 1..run :
          \/ \E entry \in Entries : Persist(r, entry)
          \/ \E entries \in SUBSET Entries : ReplaceSnapshot(r, entries)
          \/ \E ok \in BOOLEAN : Flush(r, ok)
    \/ \E ok \in BOOLEAN : Close(ok)
    \/ EndProcess
    \/ StartRun

StoreSpec == StoreInit /\ [][StoreNext]_detailStoreVars

-----------------------------------------------------------------------------
StoreTypeOK ==
    /\ run \in Runs /\ up \in BOOLEAN
    /\ timer \cup failed \subseteq Runs
    /\ \A r \in Runs : mirror[r] \in Seq(Entries)
    /\ file.by \in 0..MaxRuns /\ file.entries \in Seq(Entries)

\* The file never outgrows its cap and names a record once.
FileBounded ==
    /\ Len(file.entries) <= MaxEntries
    /\ Cardinality(Keys(file.entries)) = Len(file.entries)

\* With no write scheduled, and none failed, what a run has been given is on
\* disk, and nobody but that run has written since.
NothingForgotten ==
    up /\ run \notin timer \cup failed /\ mirror[run] # <<>> =>
        Range(mirror[run]) \subseteq Range(file.entries)

StoreSafe == StoreTypeOK /\ FileBounded /\ NothingForgotten

\* Only a finished write changes the file, and it brings it up to date: no crash
\* and no stopped run leaves it with less, or with older entries.  What a write
\* leaves out for want of room is older than all that it keeps.
WritesAreWhole ==
    [][file' # file =>
          /\ file'.by = run
          /\ file'.by \in timer
          /\ file'.entries = mirror'[run]
          /\ IsSuffix(file'.entries, mirror[run])
          /\ \/ file'.entries = mirror[run]
             \/ Len(file'.entries) = MaxEntries]_detailStoreVars

\* The two together: what the file holds, and how it comes to.
StoreKept == []StoreSafe /\ WritesAreWhole
=============================================================================
