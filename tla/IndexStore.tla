----------------------------- MODULE IndexStore -----------------------------
(***************************************************************************)
(* The two sources that keep a whole data set as one index file, refreshed *)
(* in the background and served from memory: NOAA CO-OPS stations          *)
(* (inputs/noaa-coops) by station type, and USCG Local Notices (inputs/    *)
(* uscg-lnm) by file.  A run loads the file, and its scheduler             *)
(* (refresh-scheduler.ts) starts passes that download each family with the *)
(* validators of its last answer and end by writing the index; a stop or a *)
(* crash may come at any point.  The load is over before the first pass,   *)
(* which waits for 30 seconds.                                             *)
(***************************************************************************)
EXTENDS Integers, FiniteSets, SequencesExt

CONSTANTS
    Kinds,          \* the sources: "coops", "lnm"
    Families,       \* station types, or pinned files
    Records,        \* what a family may list
    Unusable,       \* an entry that cannot be parsed
    MaxVersions,    \* bound: how often upstream changes a family
    MaxDamage       \* bound: how often an entry of the file becomes unusable

ASSUME IndexAssumption ==
    /\ Kinds \subseteq {"coops", "lnm"} /\ Unusable \notin Records /\ IsFiniteSet(Records)
    /\ MaxVersions \in Nat \ {0} /\ MaxDamage \in Nat

VARIABLES
    kind,
    published,  \* per family, what upstream has listed: the last entry is current
    onDisk,     \* the index file: a family -> what is held of it
    held,       \* the index in memory
    dirty,
    running,
    enabled,    \* the families of this run: enabled types, or the pinned catalog
    refresh,    \* the pass: "idle", "downloading" or "writing"
    left,       \* the families it has not asked for yet
    writing     \* <<>> or the index being written

indexVars == <<kind, published, onDisk, held, dirty, running, enabled, refresh, left, writing>>

\* What is held of a family.  Its validator is the version it was answered with, 0
\* without one; the count is what CO-OPS notes beside the records.  An entry is intact
\* (history) while it is what upstream answered.
Entry == [records : SUBSET Records, count : 0..Cardinality(Records), validator : 0..MaxVersions,
          intact : BOOLEAN]

IndexInit ==
    /\ kind \in Kinds
    /\ published = [f \in Families |-> <<{}>>]
    /\ onDisk = <<>> /\ held = <<>> /\ dirty = FALSE /\ running = FALSE
    /\ enabled = {} /\ refresh = "idle" /\ left = {} /\ writing = <<>>

Without(index, families) == [f \in DOMAIN index \ families |-> index[f]]
With(index, f, entry) == [g \in DOMAIN index \cup {f} |-> IF g = f THEN entry ELSE index[g]]

-----------------------------------------------------------------------------
(* The environment. *)

\* Upstream lists a family anew.
PublishFamily(f) ==
    /\ Len(published[f]) < MaxVersions
    /\ \E list \in SUBSET (Records \cup {Unusable}) :
          published' = [published EXCEPT ![f] = Append(@, list)]
    /\ UNCHANGED <<kind, onDisk, held, dirty, running, enabled, refresh, left, writing>>

\* An entry of the file fails validation from here on: it was cut, or a later version
\* of the plugin asks for more.
Damage(f) ==
    /\ ~running /\ f \in DOMAIN onDisk
    /\ Cardinality({g \in DOMAIN onDisk : ~onDisk[g].intact}) < MaxDamage
    /\ \E r \in onDisk[f].records :
          onDisk' = [onDisk EXCEPT ![f].records = @ \ {r}, ![f].intact = FALSE]
    /\ UNCHANGED <<kind, published, held, dirty, running, enabled, refresh, left, writing>>

-----------------------------------------------------------------------------
(* The store. *)

\* Fault: the validators of a family that lost an entry are kept.
Unrepaired(entry) == entry

\* CO-OPS load: a family with fewer records than it counts is asked for in full.
CoopsLoaded(entry) ==
    IF Cardinality(entry.records) = entry.count THEN entry ELSE [entry EXCEPT !.validator = 0]

\* LNM load: what is left of a file is taken with its validators.
LnmLoaded(entry) == entry

Loaded(entry) == IF kind = "coops" THEN CoopsLoaded(entry) ELSE LnmLoaded(entry)

\* load, at the start of a run.
StartIndex ==
    /\ ~running /\ running' = TRUE
    /\ enabled' \in SUBSET Families
    /\ held' = [f \in DOMAIN onDisk |-> Loaded(onDisk[f])]
    /\ dirty' = (held' # onDisk)
    /\ refresh' = "idle" /\ left' = {}
    /\ UNCHANGED <<kind, published, onDisk, writing>>

\* close, or the end of the process: a write that has not been renamed yet never is.
StopIndex ==
    /\ running /\ running' = FALSE
    /\ held' = <<>> /\ dirty' = FALSE /\ refresh' = "idle" /\ left' = {} /\ writing' = <<>>
    /\ enabled' = {}
    /\ UNCHANGED <<kind, published, onDisk>>

WholeAnswer(records, validator) ==
    [records |-> records, count |-> Cardinality(records), validator |-> validator, intact |-> TRUE]

\* CO-OPS upsertType: what is the same is not replaced, its validators are.
CoopsUpsert(f, records, validator) ==
    IF f \in DOMAIN held /\ held[f].records = records
      THEN /\ held' = [held EXCEPT ![f].validator = validator]
           /\ dirty' = (dirty \/ held[f].validator # validator)
      ELSE held' = With(held, f, WholeAnswer(records, validator)) /\ dirty' = TRUE

\* LNM upsertFile
LnmUpsert(f, records, validator) ==
    held' = With(held, f, WholeAnswer(records, validator)) /\ dirty' = TRUE

\* CO-OPS pruneTypes
CoopsPruned(index) == Without(index, Families \ enabled)

\* LNM pruneFiles
LnmPruned(index) == Without(index, Families \ enabled)

\* flush: an index that has not changed is not written.
FlushIndex(changed) ==
    IF changed THEN refresh' = "writing" /\ writing' = held' ELSE refresh' = "idle" /\ UNCHANGED writing

-----------------------------------------------------------------------------
(* A pass. *)

\* Fault: a tick begins a pass while the last one writes.
OverlapsWrite == refresh \in {"idle", "writing"}

\* startRefreshScheduler: a tick is skipped while a pass is under way.
MayRefresh == refresh = "idle"

\* refreshAll, up to the first download: what the run has no more is dropped, before
\* the gates that may end the pass.
BeginRefresh ==
    /\ running /\ MayRefresh
    /\ held' = IF kind = "coops" THEN CoopsPruned(held) ELSE LnmPruned(held)
    /\ dirty' = (dirty \/ held' # held)
    /\ \/ enabled = {} /\ FlushIndex(dirty') /\ UNCHANGED left
       \/ enabled # {} /\ refresh' = "downloading" /\ left' = enabled /\ UNCHANGED writing
       \/ enabled # {} /\ UNCHANGED <<refresh, left, writing>>      \* outside US waters
    /\ UNCHANGED <<kind, published, onDisk, running, enabled>>

\* Fault: entries that are all unusable are an empty list.
BlankIsEmpty(list) == TRUE

\* downloadStations, downloadLayerPage: a list of which no entry can be parsed is a
\* failure, not an empty one.
CoopsAccepts(list) == list = {} \/ list \ {Unusable} # {}
LnmAccepts(list) == list = {} \/ list \ {Unusable} # {}
Accepts(list) == IF kind = "coops" THEN CoopsAccepts(list) ELSE LnmAccepts(list)

\* parseStation, parseFeature: an entry without what a record needs is left out.
CoopsParsed(list) == list \ {Unusable}
LnmParsed(list) == list \ {Unusable}
Parsed(list) == IF kind = "coops" THEN CoopsParsed(list) ELSE LnmParsed(list)

\* refreshOneType, refreshOnePage: the answer is taken whole.
Downloaded(f) ==
    /\ refresh = "downloading" /\ f \in left
    /\ Accepts(Last(published[f]))
    /\ \E validator \in {0, Len(published[f])} :
          LET records == Parsed(Last(published[f]))
          IN IF kind = "coops" THEN CoopsUpsert(f, records, validator)
             ELSE LnmUpsert(f, records, validator)
    /\ left' = left \ {f}
    /\ UNCHANGED <<kind, published, onDisk, running, enabled, refresh, writing>>

\* The family has not changed since its validator was sent, or it cannot be had.
NotTaken(f) ==
    /\ refresh = "downloading" /\ f \in left
    /\ left' = left \ {f}
    /\ UNCHANGED <<kind, published, onDisk, held, dirty, running, enabled, refresh, writing>>

\* refreshAll, after the last download: whatever was had is written.
EndDownloads ==
    /\ refresh = "downloading" /\ left = {}
    /\ UNCHANGED held
    /\ FlushIndex(dirty)
    /\ UNCHANGED <<kind, published, onDisk, dirty, running, enabled, left>>

AfterWrite == IF refresh = "writing" THEN "idle" ELSE refresh

\* atomicWriteJson: the check of the run and the rename are one.
Commit ==
    /\ writing # <<>> \/ refresh = "writing"
    /\ onDisk' = writing /\ dirty' = FALSE
    /\ writing' = <<>> /\ refresh' = AfterWrite
    /\ UNCHANGED <<kind, published, held, running, enabled, left>>

\* The write fails: the index stays to be written by the next pass.
IndexWriteFails ==
    /\ refresh = "writing"
    /\ writing' = <<>> /\ refresh' = "idle"
    /\ UNCHANGED <<kind, published, onDisk, held, dirty, running, enabled, left>>

IndexNext ==
    \/ StartIndex \/ StopIndex \/ BeginRefresh \/ EndDownloads \/ Commit \/ IndexWriteFails
    \/ \E f \in Families : PublishFamily(f) \/ Damage(f) \/ Downloaded(f) \/ NotTaken(f)

IndexSpec == IndexInit /\ [][IndexNext]_indexVars

-----------------------------------------------------------------------------
\* An LNM file of which the load has dropped a record.
LostOnLoad(f) == kind = "lnm" /\ ~held[f].intact

\* What is held of a family is one answer of upstream, whole; the validator sent with
\* the next request is of just that answer, so that "not modified" is true of what is
\* held, and CO-OPS sends none of a family that lost an entry on the disk; and an index
\* that is not to be written is on the disk.  With one exception: an LNM file that lost
\* records on the disk keeps its validator over the rest of them.
IndexHonest ==
    running =>
        /\ \A f \in DOMAIN held :
              /\ held[f].intact => \E v \in DOMAIN published[f] : held[f].records = Parsed(published[f][v])
              /\ held[f].validator # 0 =>
                    LET answered == Parsed(published[f][held[f].validator])
                    IN IF LostOnLoad(f) THEN held[f].records \subseteq answered
                       ELSE held[f].records = answered
        /\ ~dirty => held = onDisk

\* Without the exception: a record that the load dropped can come back, since the next
\* request of its family is not answered "not modified" over what is left.  Violated by
\* the LNM store.
LossIsRefetched ==
    running => \A f \in DOMAIN held :
        held[f].validator # 0 => held[f].records = Parsed(published[f][held[f].validator])

\* A family is never emptied but by an empty list of upstream's.
FamilyNeverBlanked ==
    [][\A f \in DOMAIN held \cap DOMAIN held' :
          running' /\ held[f].records # {} /\ held'[f].records = {} => Last(published[f]) = {}]_indexVars

\* The two together: what is held of a family is an answer of upstream's (or, of an LNM
\* file cut on the disk, a part of one), and is let go of only for another.
IndexKept == []IndexHonest /\ FamilyNeverBlanked
=============================================================================
