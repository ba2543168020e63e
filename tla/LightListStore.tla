--------------------------- MODULE LightListStore ---------------------------
(***************************************************************************)
(* The store of the USCG Light List (light-list-store.ts) and the refresh  *)
(* passes that fill it (uscg-light-list-source.ts): conditional downloads  *)
(* of the pinned pages, a few at a time, an index in memory, and a flush   *)
(* that writes the changed pages before the metadata file listing them.    *)
(* The process may crash, and the plugin may be restarted over the same    *)
(* directory, between any two of the steps.                                *)
(*                                                                         *)
(* A record is known by its number (llnr) and by the page and the version  *)
(* of the page it came from; a version stands for the validators the       *)
(* upstream sends with it.  The tile index, which always holds the records *)
(* of the map, is one with it here.  The load is one step: it ends well    *)
(* within the half minute before the first pass.                           *)
(***************************************************************************)
EXTENDS Naturals, Sequences, FiniteSets

CONSTANTS
    Table,          \* DISTRICT_PAGES, a sequence of pages
    Retired,        \* pages an older version of the plugin stored
    Llnrs,          \* the light list numbers
    Listings,       \* page -> the sets of numbers it may list
    Concurrency,    \* REFRESH_CONCURRENCY
    MaxVersion,     \* bound on the versions of a page
    MaxRestarts,    \* bound on the crashes and restarts
    IndexFile,      \* index.json
    NoFile, NotListed, NoRecord, NoValidator

Pinned == {Table[i] : i \in 1..Len(Table)}
Pages == Pinned \cup Retired

ASSUME TableAssumption ==
    /\ Table \in Seq(Pinned) /\ Pinned \cap Retired = {}
    /\ \A i, j \in 1..Len(Table) : Table[i] = Table[j] => i = j
    /\ IndexFile \notin Pages
ASSUME ListingsAssumption ==
    Listings \in [Pages -> SUBSET SUBSET Llnrs] /\ \A p \in Pages : Listings[p] # {}
ASSUME BoundsAssumption ==
    Concurrency \in Nat \ {0} /\ MaxVersion \in Nat \ {0} /\ MaxRestarts \in Nat

VARIABLES
    upstream,       \* page -> the listing NAVCEN publishes and its version
    disk,           \* file -> what it holds
    districts,      \* page -> its metadata: the numbers listed, the validator
    records,        \* number -> where its record came from
    dirtyPages, removedPages, metadataDirty,
    pass,           \* what the refresh pass is at
    cursor,         \* the next entry of the table
    flight,         \* the downloads out, with the validators sent
    writes,         \* the writes of this run not yet renamed into place
    late,           \* those a closed run left behind
    restarts

storeVars == <<districts, records, dirtyPages, removedPages, metadataDirty>>
vars == <<upstream, disk, districts, records, dirtyPages, removedPages, metadataDirty,
          pass, cursor, flight, writes, late, restarts>>

Meta == [llnrs: SUBSET Llnrs, validator: 1..MaxVersion \cup {NoValidator}]
Origin == [page: Pages, version: 1..MaxVersion]
PageContent == SUBSET [llnr: Llnrs, origin: Origin]

\* What stands for the absence of something is none of it.
ASSUME AbsentAssumption ==
    /\ \A content \in PageContent : content # NoFile
    /\ \A index \in [Pages -> Meta \cup {NotListed}] : index # NoFile
    /\ NotListed \notin Meta /\ NoRecord \notin Origin /\ NoValidator \notin 1..MaxVersion

-----------------------------------------------------------------------------
\* readPageFile, on the disk d: a page that cannot be read has no records.
PageRecords(d, p) == IF d[p] = NoFile THEN {} ELSE d[p]

PageLlnrs(d, p) == {record.llnr : record \in PageRecords(d, p)}

\* load(): the pages that index.json lists; without a usable index, none.
Listed(d) == IF d[IndexFile] = NoFile THEN {}
             ELSE {p \in Pages : d[IndexFile][p] # NotListed}

Mismatched(d, p) == PageLlnrs(d, p) # d[IndexFile][p].llnrs

\* Fault: a page that does not match its metadata keeps its validators.
LoadedMetaUnrepaired(d, p) ==
    IF p \notin Listed(d) THEN NotListed
    ELSE [llnrs |-> PageLlnrs(d, p), validator |-> d[IndexFile][p].validator]

LoadedMeta(d, p) ==
    IF p \notin Listed(d) THEN NotListed
    ELSE IF Mismatched(d, p) THEN [llnrs |-> PageLlnrs(d, p), validator |-> NoValidator]
    ELSE d[IndexFile][p]

Found(d, r) ==
    {record.origin : record \in {x \in UNION {PageRecords(d, p) : p \in Listed(d)} : x.llnr = r}}

\* Of a number that two pages hold, the record of the page read last stays.
LoadedRecords(d) ==
    {loaded \in [Llnrs -> {NoRecord} \cup UNION {Found(d, r) : r \in Llnrs}] :
        \A r \in Llnrs : IF Found(d, r) = {} THEN loaded[r] = NoRecord ELSE loaded[r] \in Found(d, r)}

\* The load, and its sweep of the pages that no metadata lists.
Load(d) ==
    /\ districts' = [p \in Pages |-> LoadedMeta(d, p)]
    /\ records' \in LoadedRecords(d)
    /\ dirtyPages' = {}
    /\ removedPages' = {}
    /\ metadataDirty' = (\E p \in Listed(d) : Mismatched(d, p))
    /\ disk' = IF d[IndexFile] = NoFile THEN d
               ELSE [f \in DOMAIN d |-> IF f \in Pages \ Listed(d) THEN NoFile ELSE d[f]]

-----------------------------------------------------------------------------
Idle == pass = "idle"

\* A first run, over what the older version left: the retired pages.
Init ==
    /\ upstream \in {u \in [Pages -> [llnrs: SUBSET Llnrs, version: {1}]] :
                        \A p \in Pages : u[p].llnrs \in Listings[p]}
    /\ districts = [p \in Pages |->
          IF p \in Retired THEN [llnrs |-> upstream[p].llnrs, validator |-> 1] ELSE NotListed]
    /\ records = [r \in Llnrs |->
          IF \E p \in Retired : r \in upstream[p].llnrs
            THEN [page |-> CHOOSE p \in Retired : r \in upstream[p].llnrs, version |-> 1]
            ELSE NoRecord]
    /\ disk = [f \in Pages \cup {IndexFile} |->
          IF f = IndexFile THEN districts
          ELSE IF f \in Retired
            THEN {[llnr |-> r, origin |-> [page |-> f, version |-> 1]] : r \in upstream[f].llnrs}
            ELSE NoFile]
    /\ dirtyPages = {} /\ removedPages = {} /\ metadataDirty = FALSE
    /\ pass = "idle" /\ cursor = 1 /\ flight = {}
    /\ writes = {} /\ late = {} /\ restarts = 0

\* NAVCEN publishes a page anew.
Publish(p) ==
    /\ upstream[p].version < MaxVersion
    /\ \E l \in Listings[p] :
          upstream' = [upstream EXCEPT ![p] = [llnrs |-> l, version |-> @.version + 1]]
    /\ UNCHANGED <<disk, storeVars, pass, cursor, flight, writes, late, restarts>>

\* Fault: the prune does not look at the table.
PruneAll ==
    LET gone == {p \in Pages : districts[p] # NotListed} IN
    /\ districts' = [p \in Pages |-> NotListed]
    /\ records' = [r \in Llnrs |-> NoRecord]
    /\ dirtyPages' = {}
    /\ removedPages' = removedPages \cup gone
    /\ metadataDirty' = (metadataDirty \/ gone # {})

\* pruneDistricts: the pages that left the table go, with their records.
Prune ==
    LET gone == {p \in Pages \ Pinned : districts[p] # NotListed} IN
    /\ districts' = [p \in Pages |-> IF p \in gone THEN NotListed ELSE districts[p]]
    /\ records' = [r \in Llnrs |->
          IF \E p \in gone : r \in districts[p].llnrs THEN NoRecord ELSE records[r]]
    /\ dirtyPages' = dirtyPages \ gone
    /\ removedPages' = removedPages \cup gone
    /\ metadataDirty' = (metadataDirty \/ gone # {})

\* refreshAll, outside US waters: the prune alone.
RefreshAway ==
    /\ Idle
    /\ Prune
    /\ UNCHANGED <<upstream, disk, pass, cursor, flight, writes, late, restarts>>

\* refreshAll: the scheduler starts no pass while one runs.
Refresh ==
    /\ Idle
    /\ Prune
    /\ pass' = "pages" /\ cursor' = 1
    /\ UNCHANGED <<upstream, disk, flight, writes, late, restarts>>

\* mapWithConcurrency: a worker takes the next page and sends its validators.
Request ==
    /\ pass = "pages" /\ cursor <= Len(Table) /\ Cardinality(flight) < Concurrency
    /\ LET p == Table[cursor] IN
         flight' = flight \cup {[page |-> p,
            sent |-> IF districts[p] = NotListed THEN NoValidator ELSE districts[p].validator]}
    /\ cursor' = cursor + 1
    /\ UNCHANGED <<upstream, disk, storeVars, pass, writes, late, restarts>>

Previous(p) == IF districts[p] = NotListed THEN {} ELSE districts[p].llnrs

\* upsertDistrict.
Upsert(p, listing, version) ==
    /\ records' = [r \in Llnrs |->
          IF r \in listing THEN [page |-> p, version |-> version]
          ELSE IF r \in Previous(p) THEN NoRecord ELSE records[r]]
    /\ districts' = [districts EXCEPT ![p] = [llnrs |-> listing, validator |-> version]]
    /\ dirtyPages' = dirtyPages \cup {p}
    /\ removedPages' = removedPages \ {p}
    /\ metadataDirty' = TRUE

\* refreshOnePage, answered: Not Modified, or the page as it now is.
Answer(p) ==
    /\ \E f \in flight :
          /\ f.page = p
          /\ flight' = flight \ {f}
          /\ IF f.sent = upstream[p].version
               THEN UNCHANGED storeVars
               ELSE Upsert(p, upstream[p].llnrs, upstream[p].version)
    /\ UNCHANGED <<upstream, disk, pass, cursor, writes, late, restarts>>

\* refreshOnePage, failed: the pass goes on with the others.
DownloadFails(p) ==
    /\ \E f \in flight : f.page = p /\ flight' = flight \ {f}
    /\ UNCHANGED <<upstream, disk, storeVars, pass, cursor, writes, late, restarts>>

-----------------------------------------------------------------------------
\* The records of a page, found again through the numbers it lists.
Reconstituted(p) ==
    {[llnr |-> r, origin |-> records[r]] : r \in {x \in Previous(p) : records[x] # NoRecord}}

\* Fault: the metadata file does not wait for the pages.
BeginFlushAtOnce ==
    /\ pass = "pages" /\ cursor > Len(Table) /\ flight = {} /\ writes = {}
    /\ IF ~metadataDirty /\ dirtyPages = {}
         THEN pass' = "idle" /\ UNCHANGED writes
         ELSE /\ pass' = "writing"
              /\ writes' = {[file |-> p, value |-> Reconstituted(p)] : p \in dirtyPages}
                              \cup {[file |-> IndexFile, value |-> districts]}
    /\ UNCHANGED <<upstream, disk, storeVars, cursor, flight, late, restarts>>

\* flush(): nothing to write, or the changed pages.  What a failed flush was still
\* writing has ended in the hours since then.
BeginFlush ==
    /\ pass = "pages" /\ cursor > Len(Table) /\ flight = {} /\ writes = {}
    /\ IF ~metadataDirty /\ dirtyPages = {}
         THEN pass' = "idle" /\ UNCHANGED writes
         ELSE /\ pass' = "writing"
              /\ writes' = {[file |-> p, value |-> Reconstituted(p)] : p \in dirtyPages}
    /\ UNCHANGED <<upstream, disk, storeVars, cursor, flight, late, restarts>>

\* Every page is in place: the metadata file.
WriteIndex ==
    /\ pass = "writing" /\ writes = {}
    /\ pass' = "index"
    /\ writes' = {[file |-> IndexFile, value |-> districts]}
    /\ UNCHANGED <<upstream, disk, storeVars, cursor, flight, late, restarts>>

\* atomicWriteJson renames the temporary file: the store is not closed.
Rename(w) ==
    /\ w \in writes
    /\ disk' = [disk EXCEPT ![w.file] = w.value]
    /\ writes' = writes \ {w}
    /\ IF w.file = IndexFile
         THEN pass' = "removing" /\ dirtyPages' = {} /\ metadataDirty' = FALSE
         ELSE UNCHANGED <<pass, dirtyPages, metadataDirty>>
    /\ UNCHANGED <<upstream, districts, records, removedPages, cursor, flight, late, restarts>>

\* A write fails: the flush, unless another write has failed it already, rejects at
\* once, and the other writes go on.
WriteFails(w) ==
    /\ w \in writes
    /\ writes' = writes \ {w}
    /\ pass' = IF pass \in {"writing", "index"} THEN "idle" ELSE pass
    /\ UNCHANGED <<upstream, disk, storeVars, cursor, flight, late, restarts>>

\* The metadata no longer lists them: the pruned pages are deleted.
RemovePruned ==
    /\ pass = "removing"
    /\ disk' = [f \in DOMAIN disk |-> IF f \in removedPages THEN NoFile ELSE disk[f]]
    /\ removedPages' = {}
    /\ pass' = "idle"
    /\ UNCHANGED <<upstream, districts, records, dirtyPages, metadataDirty, cursor, flight,
                   writes, late, restarts>>

-----------------------------------------------------------------------------
\* The process dies, what it was writing with it, and a file may be found
\* damaged.  The next one loads the disk.
Crash ==
    /\ restarts < MaxRestarts
    /\ restarts' = restarts + 1
    /\ \/ Load(disk)
       \/ \E p \in Pages : disk[p] # NoFile /\ Load([disk EXCEPT ![p] = {}])
       \/ Load([disk EXCEPT ![IndexFile] = NoFile])
    /\ pass' = "idle" /\ cursor' = 1 /\ flight' = {}
    /\ writes' = {} /\ late' = {}
    /\ UNCHANGED upstream

\* The plugin restarts: close(), the downloads aborted, and a new store over the
\* directory the old one may still be writing to.
Reopen ==
    /\ restarts < MaxRestarts
    /\ restarts' = restarts + 1
    /\ Load(disk)
    /\ pass' = "idle" /\ cursor' = 1 /\ flight' = {}
    /\ late' = late \cup writes /\ writes' = {}
    /\ UNCHANGED upstream

\* Fault: a write is renamed into place whoever owns the directory by now.
LateWriteCommits(w) ==
    /\ w \in late
    /\ late' = late \ {w}
    /\ disk' = [disk EXCEPT ![w.file] = w.value]
    /\ UNCHANGED <<upstream, storeVars, pass, cursor, flight, writes, restarts>>

\* shouldCommit: the write of a closed store is dropped.
LateWrite(w) ==
    /\ w \in late
    /\ late' = late \ {w}
    /\ UNCHANGED <<upstream, disk, storeVars, pass, cursor, flight, writes, restarts>>

Next ==
    \/ \E p \in Pinned : Publish(p) \/ Answer(p) \/ DownloadFails(p)
    \/ Refresh \/ RefreshAway \/ Request
    \/ BeginFlush \/ WriteIndex \/ RemovePruned
    \/ \E w \in writes : Rename(w) \/ WriteFails(w)
    \/ \E w \in late : LateWrite(w)
    \/ Crash \/ Reopen

\* The timers fire and the pass goes on; a page asked for again and again is
\* answered in the end, and the vessel is in US waters again and again.
Fairness ==
    /\ SF_vars(Refresh) /\ WF_vars(Request) /\ WF_vars(BeginFlush)
    /\ WF_vars(WriteIndex) /\ WF_vars(RemovePruned)
    /\ WF_vars(\E w \in writes : Rename(w))
    /\ \A p \in Pinned : SF_vars(Answer(p))

Spec == Init /\ [][Next]_vars /\ Fairness

-----------------------------------------------------------------------------
\* The types of the state.
TypeOK ==
    /\ upstream \in [Pages -> [llnrs: SUBSET Llnrs, version: 1..MaxVersion]]
    /\ DOMAIN disk = Pages \cup {IndexFile}
    /\ disk[IndexFile] = NoFile \/ disk[IndexFile] \in [Pages -> Meta \cup {NotListed}]
    /\ \A p \in Pages : disk[p] = NoFile \/ disk[p] \in PageContent
    /\ districts \in [Pages -> Meta \cup {NotListed}]
    /\ records \in [Llnrs -> Origin \cup {NoRecord}]
    /\ dirtyPages \subseteq Pinned /\ removedPages \subseteq Retired
    /\ metadataDirty \in BOOLEAN
    /\ pass \in {"idle", "pages", "writing", "index", "removing"}
    /\ cursor \in 1..(Len(Table) + 1)
    /\ flight \subseteq [page: Pinned, sent: 1..MaxVersion \cup {NoValidator}]
    /\ Cardinality(flight) <= Concurrency
    /\ restarts \in 0..MaxRestarts

\* What the map holds of a page is what NAVCEN publishes.
Current(p) ==
    /\ districts[p] # NotListed
    /\ districts[p].llnrs = upstream[p].llnrs
    /\ \A r \in upstream[p].llnrs : records[r] = [page |-> p, version |-> upstream[p].version]

\* A page is never kept by a 304 it does not deserve: where the validators held
\* are those of the page published now, its records are in the map, after every
\* crash, restart, failed write and late download.
ValidatorsHonest ==
    \A p \in Pinned :
        districts[p] # NotListed /\ districts[p].validator = upstream[p].version => Current(p)

\* On disk the metadata is never ahead of the pages it lists: each is there, and
\* one that lists the same numbers is no older than the validators.
IndexNeverAhead ==
    \A p \in Listed(disk) :
        /\ disk[p] # NoFile
        /\ ~Mismatched(disk, p) /\ disk[IndexFile][p].validator # NoValidator =>
              \A record \in disk[p] : record.origin.version >= disk[IndexFile][p].validator

\* The state, the map and the disk, as the runs check them.
PagesSound == TypeOK /\ ValidatorsHonest /\ IndexNeverAhead

\* Every number a stored page lists has its record.
PagesKeptApart ==
    \A p \in Pages : districts[p] # NotListed =>
        \A r \in districts[p].llnrs : records[r] # NoRecord

\* Once NAVCEN is quiet the map comes to hold what it publishes.
Converges ==
    <>[](\A p \in Pinned : Current(p))
=============================================================================
