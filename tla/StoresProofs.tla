----------------------------- MODULE StoresProofs -----------------------------
(***************************************************************************)
(* Theorems of what is kept on disk and in front of it.                    *)
(*   - The Light List store never claims what it does not have, whatever   *)
(*     crashes, fails or is damaged, for any pages that share no number.   *)
(*     The argument is page by page: what the memory holds of one          *)
(*     (MemoryOf), what the disk holds of it (DiskOf) and how the two are  *)
(*     tied through the dirty marks (LinkOf), and what the flush that is   *)
(*     under way has yet to write (WritesSound, PassSound).                *)
(*   - Cached details answer every call (CacheInv).                        *)
(*   - An index file holds answers whole, or says that it does not: an     *)
(*     entry counts more than it holds exactly when it was cut (IndexInv). *)
(*   - A detail file is written by the run that is open, which is the only *)
(*     one with a write scheduled (DetailStoreInv).                        *)
(***************************************************************************)
EXTENDS LightListStore, IndexStore, DetailStore, PoiDetailCache, FiniteSetTheorems, TLAPS

NumbersOf(p) == UNION Listings[p]

\* No number is listed by two pages, ever.
PagesApart == \A p, q \in Pages : p # q => NumbersOf(p) \cap NumbersOf(q) = {}

\* Metadata of a page that holds no validator of another listing than its own.
HonestMeta(m, p) ==
    m # NotListed =>
        /\ m.llnrs \subseteq NumbersOf(p)
        /\ m.validator # NoValidator =>
              /\ m.validator <= upstream[p].version
              /\ m.validator = upstream[p].version => m.llnrs = upstream[p].llnrs

\* Records that came from this page.
OfPage(content, p) ==
    \A x \in content : /\ x.llnr \in NumbersOf(p)
                       /\ x.origin.page = p /\ x.origin.version <= upstream[p].version

\* A page file that backs its metadata.
StoredPage(content, m) ==
    /\ content # NoFile
    /\ {x.llnr : x \in content} = m.llnrs /\ m.validator # NoValidator =>
          \A x \in content : x.origin.version >= m.validator

NotAhead(m, version) ==
    m # NotListed /\ m.validator # NoValidator => m.validator <= version

MemoryOf(p) ==
    /\ upstream[p].llnrs \subseteq NumbersOf(p)
    /\ HonestMeta(districts[p], p)
    /\ \A r \in NumbersOf(p) : records[r] # NoRecord =>
          records[r].page = p /\ records[r].version <= upstream[p].version
    /\ districts[p] # NotListed /\ districts[p].validator # NoValidator =>
          \A r \in districts[p].llnrs :
             records[r] # NoRecord /\ records[r].version >= districts[p].validator

DiskOf(d, p) ==
    /\ d[p] # NoFile => OfPage(d[p], p)
    /\ d[IndexFile] # NoFile =>
          /\ HonestMeta(d[IndexFile][p], p)
          /\ d[IndexFile][p] # NotListed => StoredPage(d[p], d[IndexFile][p])

LinkOf(p) ==
    /\ districts[p] # NotListed /\ p \notin dirtyPages => StoredPage(disk[p], districts[p])
    /\ p \in dirtyPages =>
          /\ districts[p] # NotListed /\ districts[p].validator # NoValidator
          /\ disk[IndexFile] # NoFile => NotAhead(disk[IndexFile][p], districts[p].validator)
    /\ p \in removedPages => districts[p] = NotListed

\* The page writes are of dirty pages, no older than the metadata on disk; the
\* metadata is written alone.
WritesSound ==
    \A w \in writes :
        \/ /\ w.file \in dirtyPages /\ w.value \in PageContent /\ OfPage(w.value, w.file)
           /\ disk[IndexFile] # NoFile =>
                 \A x \in w.value : NotAhead(disk[IndexFile][w.file], x.origin.version)
        \/ pass = "index" /\ w.file = IndexFile /\ w.value = districts /\ writes = {w}

\* What the flush has still to write, and what it has written.
PassSound ==
    /\ pass # "pages" => flight = {}
    /\ pass = "writing" =>
          /\ \A w \in writes : w.value = Reconstituted(w.file)
          /\ \A p \in dirtyPages :
                StoredPage(disk[p], districts[p]) \/ \E w \in writes : w.file = p
    /\ pass = "index" =>
          /\ \A w \in writes : w.file = IndexFile
          /\ \A p \in dirtyPages : StoredPage(disk[p], districts[p])
    /\ pass = "removing" => disk[IndexFile] = districts

\* The inductive invariant.
StoreInv ==
    /\ TypeOK /\ IsFiniteSet(flight)
    /\ \A p \in Pages : MemoryOf(p) /\ DiskOf(disk, p) /\ LinkOf(p)
    /\ WritesSound /\ PassSound

-----------------------------------------------------------------------------
LEMMA Given ==
    /\ Len(Table) \in Nat /\ Pinned \subseteq Pages /\ Retired \subseteq Pages
    /\ Pages = Pinned \cup Retired /\ Pinned \cap Retired = {}
    /\ IndexFile \notin Pages /\ \A i \in 1..Len(Table) : Table[i] \in Pinned
    /\ MaxVersion \in Nat \ {0} /\ Concurrency \in Nat \ {0} /\ MaxRestarts \in Nat
    /\ \A p \in Pages : NumbersOf(p) \subseteq Llnrs /\ \A l \in Listings[p] : l \subseteq NumbersOf(p)
<1>1. Len(Table) \in Nat
  BY TableAssumption
<1>2. \A p \in Pages : NumbersOf(p) \subseteq Llnrs /\ \A l \in Listings[p] : l \subseteq NumbersOf(p)
  BY ListingsAssumption DEF NumbersOf
<1>3. QED
  BY <1>1, <1>2, TableAssumption, BoundsAssumption DEF Pages, Pinned

\* What the types say of one page.
LEMMA PageTypes ==
    ASSUME TypeOK, NEW p \in Pages
    PROVE  /\ upstream[p] \in [llnrs: SUBSET Llnrs, version: 1..MaxVersion]
           /\ upstream[p].llnrs \subseteq Llnrs /\ upstream[p].version \in 1..MaxVersion
           /\ districts[p] # NotListed =>
                 /\ districts[p] \in Meta /\ districts[p].llnrs \subseteq Llnrs
                 /\ districts[p].validator # NoValidator => districts[p].validator \in 1..MaxVersion
           /\ disk[IndexFile] # NoFile /\ disk[IndexFile][p] # NotListed =>
                 /\ disk[IndexFile][p] \in Meta /\ disk[IndexFile][p].llnrs \subseteq Llnrs
                 /\ disk[IndexFile][p].validator # NoValidator =>
                       disk[IndexFile][p].validator \in 1..MaxVersion
           /\ disk[p] # NoFile => disk[p] \in PageContent
  BY DEF TypeOK, Meta

LEMMA ContentTypes ==
    ASSUME NEW content \in PageContent, NEW x \in content
    PROVE  /\ x.llnr \in Llnrs /\ x.origin \in Origin
           /\ x.origin.page \in Pages /\ x.origin.version \in 1..MaxVersion
  BY DEF PageContent, Origin

\* NAVCEN publishes a page anew: no validator held is that of the new one.
LEMMA PublishKeeps ==
    ASSUME StoreInv, NEW p \in Pinned, Publish(p)
    PROVE  StoreInv'
<1> USE Given
<1>1. PICK l \in Listings[p] :
         upstream' = [upstream EXCEPT ![p] = [llnrs |-> l, version |-> upstream[p].version + 1]]
  BY DEF Publish
<1>2. /\ upstream[p].version \in 1..MaxVersion /\ upstream[p].version < MaxVersion
      /\ UNCHANGED <<disk, districts, records, dirtyPages, removedPages, metadataDirty, pass,
                     cursor, flight, writes, late, restarts>>
  BY PageTypes DEF Publish, storeVars, StoreInv
<1>3. upstream' \in [Pages -> [llnrs: SUBSET Llnrs, version: 1..MaxVersion]]
  <2>1. [llnrs |-> l, version |-> upstream[p].version + 1]
          \in [llnrs: SUBSET Llnrs, version: 1..MaxVersion]
    BY <1>2
  <2>2. QED
    BY <1>1, <2>1 DEF StoreInv, TypeOK
<1>4. TypeOK'
  BY <1>2, <1>3 DEF StoreInv, TypeOK
<1>5. \A q \in Pages :
         /\ upstream[q].version \in Nat /\ upstream'[q].version \in Nat
         /\ \/ upstream'[q] = upstream[q]
            \/ upstream'[q].version > upstream[q].version /\ upstream'[q].llnrs \subseteq NumbersOf(q)
  BY <1>1, <1>2, PageTypes DEF StoreInv, TypeOK
<1>6. ASSUME NEW m, NEW q \in Pages, HonestMeta(m, q),
             m # NotListed /\ m.validator # NoValidator => m.validator \in 1..MaxVersion
      PROVE  HonestMeta(m, q)'
  BY <1>5, <1>6 DEF HonestMeta
<1>7. ASSUME NEW content \in PageContent, NEW q \in Pages, OfPage(content, q)
      PROVE  OfPage(content, q)'
  <2>1. ASSUME NEW x \in content PROVE x.origin.version <= upstream'[q].version
    BY <1>5, <1>7, ContentTypes DEF OfPage
  <2>2. QED
    BY <1>7, <2>1 DEF OfPage
<1>8. ASSUME NEW q \in Pages PROVE MemoryOf(q)'
  <2>1. MemoryOf(q)
    BY DEF StoreInv
  <2>2. HonestMeta(districts[q], q)'
    BY <1>2, <1>6, <2>1, PageTypes DEF MemoryOf, StoreInv
  <2>3. ASSUME NEW r \in NumbersOf(q), records[r] # NoRecord
        PROVE  records[r].page = q /\ records[r].version <= upstream'[q].version
    <3>1. records[r].version \in 1..MaxVersion
      BY <2>3 DEF StoreInv, TypeOK, Origin
    <3>2. QED
      BY <1>5, <2>1, <2>3, <3>1 DEF MemoryOf
  <2>4. upstream'[q].llnrs \subseteq NumbersOf(q)
    BY <1>5, <2>1 DEF MemoryOf
  <2>5. QED
    BY <1>2, <2>1, <2>2, <2>3, <2>4 DEF MemoryOf
<1>9. ASSUME NEW q \in Pages PROVE DiskOf(disk, q)'
  <2>1. DiskOf(disk, q)
    BY DEF StoreInv
  <2>2. disk[q] # NoFile => OfPage(disk[q], q)'
    BY <1>2, <1>7, <2>1, PageTypes DEF DiskOf, StoreInv
  <2>3. disk[IndexFile] # NoFile => HonestMeta(disk[IndexFile][q], q)'
    BY <1>2, <1>6, <2>1, PageTypes DEF DiskOf, StoreInv
  <2>4. QED
    BY <1>2, <2>1, <2>2, <2>3 DEF DiskOf, StoredPage
<1>10. ASSUME NEW q \in Pages PROVE LinkOf(q)'
  BY <1>2 DEF StoreInv, LinkOf, StoredPage, NotAhead
<1>11. WritesSound'
  <2>1. ASSUME NEW w \in writes, w.file \in dirtyPages, w.value \in PageContent,
               OfPage(w.value, w.file)
        PROVE  OfPage(w.value, w.file)'
    BY <1>7, <2>1 DEF StoreInv, TypeOK
  <2>2. QED
    BY <1>2, <2>1 DEF StoreInv, WritesSound, NotAhead
<1>12. PassSound'
  BY <1>2 DEF StoreInv, PassSound, StoredPage, Reconstituted, Previous
<1>13. QED
  BY <1>2, <1>4, <1>8, <1>9, <1>10, <1>11, <1>12 DEF StoreInv

\* The pages that left the table are forgotten, before a pass or without one.
LEMMA PruneKeeps ==
    ASSUME StoreInv, PagesApart, Idle, Prune, pass' \in {"idle", "pages"},
           cursor' \in 1..(Len(Table) + 1), UNCHANGED <<upstream, disk, flight, writes, late, restarts>>
    PROVE  StoreInv'
<1> USE Given
<1> DEFINE gone == {p \in Pages \ Pinned : districts[p] # NotListed}
<1>1. /\ districts' = [p \in Pages |-> IF p \in gone THEN NotListed ELSE districts[p]]
      /\ records' = [r \in Llnrs |->
            IF \E p \in gone : r \in districts[p].llnrs THEN NoRecord ELSE records[r]]
      /\ dirtyPages' = dirtyPages /\ removedPages' = removedPages \cup gone
      /\ metadataDirty' \in BOOLEAN
  BY DEF Prune, StoreInv, TypeOK
<1>2. gone \subseteq Retired /\ gone \cap dirtyPages = {}
  BY DEF StoreInv, TypeOK
<1>3. ASSUME NEW q \in Pages \ gone, NEW r \in NumbersOf(q)
      PROVE  records'[r] = records[r]
  <2>1. ~\E p \in gone : r \in districts[p].llnrs
    BY <1>3 DEF StoreInv, MemoryOf, HonestMeta, PagesApart
  <2>2. QED
    BY <1>1, <2>1
<1> HIDE DEF gone
<1>4. TypeOK'
  BY <1>1, <1>2 DEF StoreInv, TypeOK
<1>5. ASSUME NEW q \in Pages PROVE MemoryOf(q)'
  <2>1. MemoryOf(q)
    BY DEF StoreInv
  <2>2. ASSUME NEW r \in NumbersOf(q) PROVE records'[r] = NoRecord \/ records'[r] = records[r]
    BY <1>1
  <2>3. CASE q \in gone
    BY <1>1, <2>1, <2>2, <2>3 DEF MemoryOf, HonestMeta
  <2>4. CASE q \notin gone
    BY <1>1, <1>3, <2>1, <2>4 DEF MemoryOf, HonestMeta
  <2>5. QED
    BY <2>3, <2>4
<1>6. ASSUME NEW q \in Pages PROVE DiskOf(disk, q)'
  BY DEF StoreInv, DiskOf, OfPage, HonestMeta, StoredPage
<1>7. ASSUME NEW q \in Pages PROVE LinkOf(q)'
  BY <1>1, <1>2 DEF StoreInv, LinkOf, StoredPage, NotAhead
<1>8. WritesSound'
  BY <1>1 DEF StoreInv, WritesSound, Idle, OfPage, NotAhead
<1>9. PassSound'
  BY DEF StoreInv, PassSound, Idle
<1>10. QED
  BY <1>4, <1>5, <1>6, <1>7, <1>8, <1>9 DEF StoreInv

\* What the steps of a pass leave alone: what is held, what is stored, what upstream
\* publishes.
LEMMA PagesKept ==
    ASSUME StoreInv, UNCHANGED <<upstream, disk, storeVars>>
    PROVE  \A p \in Pages : MemoryOf(p)' /\ DiskOf(disk, p)' /\ LinkOf(p)'
  BY DEF StoreInv, storeVars, MemoryOf, DiskOf, LinkOf, HonestMeta, OfPage, StoredPage, NotAhead

\* A page is asked for.
LEMMA RequestKeeps ==
    ASSUME StoreInv, Request
    PROVE  StoreInv'
<1> USE Given
<1> DEFINE asked == [page |-> Table[cursor],
                     sent |-> IF districts[Table[cursor]] = NotListed THEN NoValidator
                              ELSE districts[Table[cursor]].validator]
<1>1. /\ pass = "pages" /\ cursor <= Len(Table) /\ Cardinality(flight) < Concurrency
      /\ flight' = flight \cup {asked} /\ cursor' = cursor + 1
      /\ UNCHANGED <<upstream, disk, storeVars, pass, writes, late, restarts>>
  BY DEF Request
<1>2. cursor \in 1..Len(Table) /\ cursor' \in 1..(Len(Table) + 1)
  BY <1>1 DEF StoreInv, TypeOK
<1>3. Table[cursor] \in Pinned
  BY <1>2
<1>4. asked \in [page: Pinned, sent: 1..MaxVersion \cup {NoValidator}]
  BY <1>3, PageTypes DEF StoreInv
<1> HIDE DEF asked
<1>5. IsFiniteSet(flight') /\ Cardinality(flight') <= Concurrency
  <2>1. IsFiniteSet(flight) /\ Cardinality(flight) \in Nat
    BY FS_CardinalityType DEF StoreInv
  <2>2. /\ IsFiniteSet(flight \cup {asked})
        /\ Cardinality(flight \cup {asked}) =
              IF asked \in flight THEN Cardinality(flight) ELSE Cardinality(flight) + 1
    BY <2>1, FS_AddElement, Zenon
  <2>3. Cardinality(flight \cup {asked}) \in Nat
    BY <2>2, FS_CardinalityType
  <2>4. QED
    BY <1>1, <2>1, <2>2, <2>3
<1>6. TypeOK'
  BY <1>1, <1>2, <1>4, <1>5 DEF StoreInv, TypeOK, storeVars
<1>7. WritesSound' /\ PassSound'
  BY <1>1 DEF StoreInv, WritesSound, PassSound, OfPage, NotAhead, storeVars
<1>8. QED
  BY <1>1, <1>5, <1>6, <1>7, PagesKept DEF StoreInv

LEMMA OneLess ==
    ASSUME IsFiniteSet(flight), Cardinality(flight) <= Concurrency, NEW f \in flight
    PROVE  IsFiniteSet(flight \ {f}) /\ Cardinality(flight \ {f}) <= Concurrency
<1>1. /\ IsFiniteSet(flight \ {f}) /\ Cardinality(flight) \in Nat
      /\ Cardinality(flight \ {f}) = Cardinality(flight) - 1
  BY FS_RemoveElement, FS_CardinalityType
<1>2. QED
  BY <1>1, Given

\* A download that failed, or that was answered Not Modified.
LEMMA NothingNewKeeps ==
    ASSUME StoreInv, NEW f \in flight, flight' = flight \ {f},
           UNCHANGED <<upstream, disk, storeVars, pass, cursor, writes, late, restarts>>
    PROVE  StoreInv'
<1>1. IsFiniteSet(flight') /\ Cardinality(flight') <= Concurrency
  BY OneLess DEF StoreInv, TypeOK
<1>2. TypeOK'
  BY <1>1 DEF StoreInv, TypeOK, storeVars
<1>3. WritesSound' /\ PassSound'
  BY DEF StoreInv, WritesSound, PassSound, OfPage, NotAhead, storeVars
<1>4. QED
  BY <1>1, <1>2, <1>3, PagesKept DEF StoreInv

\* A page comes: its records replace those of the page as it was, and no others.
LEMMA UpsertKeeps ==
    ASSUME StoreInv, PagesApart, NEW f \in flight, flight' = flight \ {f}, NEW p \in Pinned,
           Upsert(p, upstream[p].llnrs, upstream[p].version),
           UNCHANGED <<upstream, disk, pass, cursor, writes, late, restarts>>
    PROVE  StoreInv'
<1> USE Given
<1> DEFINE meta == [llnrs |-> upstream[p].llnrs, validator |-> upstream[p].version]
<1> DEFINE origin == [page |-> p, version |-> upstream[p].version]
<1>1. /\ records' = [r \in Llnrs |-> IF r \in upstream[p].llnrs THEN origin
                        ELSE IF r \in Previous(p) THEN NoRecord ELSE records[r]]
      /\ districts' = [districts EXCEPT ![p] = meta]
      /\ dirtyPages' = dirtyPages \cup {p} /\ removedPages' = removedPages \ {p}
      /\ metadataDirty' = TRUE
  BY DEF Upsert
<1>2. /\ upstream[p].llnrs \subseteq Llnrs /\ upstream[p].version \in 1..MaxVersion
      /\ upstream[p].llnrs \subseteq NumbersOf(p) /\ Previous(p) \subseteq NumbersOf(p)
  BY PageTypes DEF StoreInv, MemoryOf, HonestMeta, Previous
<1>3. /\ meta \in Meta /\ meta # NotListed /\ meta.llnrs = upstream[p].llnrs
      /\ meta.validator = upstream[p].version /\ meta.validator # NoValidator
      /\ origin \in Origin /\ origin # NoRecord /\ origin.page = p
      /\ origin.version = upstream[p].version
  BY <1>2, AbsentAssumption DEF Meta, Origin
<1>4. pass = "pages"
  BY DEF StoreInv, PassSound
<1> HIDE DEF meta, origin
<1>5. IsFiniteSet(flight') /\ Cardinality(flight') <= Concurrency
  BY OneLess DEF StoreInv, TypeOK
<1>6. TypeOK'
  <2>1. records' \in [Llnrs -> Origin \cup {NoRecord}]
    BY <1>1, <1>3 DEF StoreInv, TypeOK
  <2>2. districts' \in [Pages -> Meta \cup {NotListed}]
    BY <1>1, <1>3 DEF StoreInv, TypeOK
  <2>3. QED
    BY <1>1, <1>5, <2>1, <2>2 DEF StoreInv, TypeOK
<1>7. ASSUME NEW q \in Pages, q # p
      PROVE  districts'[q] = districts[q] /\ \A r \in NumbersOf(q) : records'[r] = records[r]
  BY <1>1, <1>2, <1>7 DEF PagesApart, StoreInv, TypeOK
<1>8. /\ districts'[p] = meta
      /\ \A r \in upstream[p].llnrs : records'[r] = origin
      /\ \A r \in NumbersOf(p) : records'[r] \in {origin, NoRecord, records[r]}
  BY <1>1, <1>2 DEF StoreInv, TypeOK
<1>9. ASSUME NEW q \in Pages PROVE MemoryOf(q)'
  <2>1. MemoryOf(q)
    BY DEF StoreInv
  <2>2. CASE q = p
    BY <1>2, <1>3, <1>8, <2>1, <2>2 DEF MemoryOf, HonestMeta
  <2>3. CASE q # p
    BY <1>7, <2>1, <2>3 DEF MemoryOf, HonestMeta
  <2>4. QED
    BY <2>2, <2>3
<1>10. ASSUME NEW q \in Pages PROVE DiskOf(disk, q)'
  BY DEF StoreInv, DiskOf, OfPage, HonestMeta, StoredPage
<1>11. ASSUME NEW q \in Pages PROVE LinkOf(q)'
  <2>1. CASE q = p
    <3>1. disk[IndexFile] # NoFile => NotAhead(disk[IndexFile][p], meta.validator)
      BY <1>3, <2>1 DEF StoreInv, DiskOf, HonestMeta, NotAhead
    <3>2. QED
      BY <1>1, <1>3, <1>8, <2>1, <3>1 DEF LinkOf, NotAhead
  <2>2. CASE q # p
    BY <1>1, <1>7, <2>2 DEF StoreInv, LinkOf, StoredPage, NotAhead
  <2>3. QED
    BY <2>1, <2>2
<1>12. WritesSound' /\ PassSound'
  BY <1>1, <1>4 DEF StoreInv, WritesSound, PassSound, OfPage, NotAhead
<1>13. QED
  BY <1>5, <1>6, <1>9, <1>10, <1>11, <1>12 DEF StoreInv

-----------------------------------------------------------------------------
\* What a dirty page is written with is its own, and as new as its validator.
LEMMA ReconstitutedSound ==
    ASSUME StoreInv, NEW p \in dirtyPages
    PROVE  /\ p \in Pages /\ Reconstituted(p) \in PageContent /\ OfPage(Reconstituted(p), p)
           /\ StoredPage(Reconstituted(p), districts[p])
           /\ disk[IndexFile] # NoFile => \A x \in Reconstituted(p) :
                 NotAhead(disk[IndexFile][p], x.origin.version)
<1> USE Given
<1>1. p \in Pages /\ districts[p] # NotListed /\ districts[p].validator # NoValidator
  BY DEF StoreInv, TypeOK, LinkOf
<1>2. /\ districts[p].validator \in 1..MaxVersion /\ districts[p].llnrs \subseteq Llnrs
      /\ districts[p].llnrs \subseteq NumbersOf(p)
  BY <1>1, PageTypes DEF StoreInv, MemoryOf, HonestMeta
<1>3. ASSUME NEW x \in Reconstituted(p)
      PROVE  /\ x.llnr \in NumbersOf(p) /\ x.llnr \in Llnrs /\ x.origin \in Origin
             /\ x \in [llnr: Llnrs, origin: Origin]
             /\ x.origin.page = p /\ x.origin.version <= upstream[p].version
             /\ x.origin.version \in Nat /\ x.origin.version >= districts[p].validator
  <2>1. PICK r \in districts[p].llnrs :
           records[r] # NoRecord /\ x = [llnr |-> r, origin |-> records[r]]
    BY <1>1, <1>3 DEF Reconstituted, Previous
  <2>2. r \in Llnrs /\ r \in NumbersOf(p) /\ records[r] \in Origin
    BY <1>2, <2>1 DEF StoreInv, TypeOK
  <2>3. records[r].version \in Nat
    BY <2>2 DEF Origin
  <2>4. QED
    BY <1>1, <2>1, <2>2, <2>3 DEF StoreInv, MemoryOf
<1>4. Reconstituted(p) \in PageContent
  BY <1>3 DEF PageContent
<1>5. Reconstituted(p) # NoFile
  BY <1>4, AbsentAssumption
<1>6. ASSUME disk[IndexFile] # NoFile, NEW x \in Reconstituted(p)
      PROVE  NotAhead(disk[IndexFile][p], x.origin.version)
  <2>1. NotAhead(disk[IndexFile][p], districts[p].validator)
    BY <1>1, <1>6 DEF StoreInv, LinkOf
  <2>2. CASE disk[IndexFile][p] # NotListed /\ disk[IndexFile][p].validator # NoValidator
    <3>1. disk[IndexFile][p].validator \in 1..MaxVersion
      BY <1>1, <1>6, <2>2, PageTypes DEF StoreInv
    <3>2. QED
      BY <1>2, <1>3, <2>1, <2>2, <3>1 DEF NotAhead
  <2>3. QED
    BY <2>2 DEF NotAhead
<1>7. QED
  BY <1>1, <1>3, <1>4, <1>5, <1>6 DEF OfPage, StoredPage

\* The changed pages are written.
LEMMA BeginFlushKeeps ==
    ASSUME StoreInv, BeginFlush
    PROVE  StoreInv'
<1>1. /\ pass = "pages" /\ flight = {} /\ writes = {}
      /\ UNCHANGED <<upstream, disk, storeVars, cursor, flight, late, restarts>>
      /\ \/ pass' = "idle" /\ writes' = writes
         \/ /\ pass' = "writing"
            /\ writes' = {[file |-> p, value |-> Reconstituted(p)] : p \in dirtyPages}
  BY DEF BeginFlush
<1>2. TypeOK'
  BY <1>1 DEF StoreInv, TypeOK, storeVars
<1>3. WritesSound'
  <2>1. CASE writes' = writes
    BY <1>1, <2>1 DEF WritesSound
  <2>2. CASE writes' = {[file |-> p, value |-> Reconstituted(p)] : p \in dirtyPages}
    <3>1. ASSUME NEW p \in dirtyPages, NEW w, w = [file |-> p, value |-> Reconstituted(p)]
          PROVE  /\ w.file \in dirtyPages /\ w.value \in PageContent /\ OfPage(w.value, w.file)
                 /\ disk[IndexFile] # NoFile =>
                       \A x \in w.value : NotAhead(disk[IndexFile][w.file], x.origin.version)
      BY <3>1, ReconstitutedSound
    <3>2. QED
      BY <1>1, <2>2, <3>1 DEF WritesSound, OfPage, NotAhead, storeVars
  <2>3. QED
    BY <1>1, <2>1, <2>2
<1>4. PassSound'
  <2>1. CASE pass' = "idle"
    BY <1>1, <2>1 DEF PassSound
  <2>2. CASE pass' = "writing" /\ writes' = {[file |-> p, value |-> Reconstituted(p)] : p \in dirtyPages}
    <3>1. \A p : Reconstituted(p)' = Reconstituted(p)
      BY <1>1 DEF storeVars, Reconstituted, Previous
    <3>2. \A w \in writes' : w.value = Reconstituted(w.file)
      BY <2>2
    <3>3. ASSUME NEW p \in dirtyPages PROVE \E w \in writes' : w.file = p
      <4> DEFINE write == [file |-> p, value |-> Reconstituted(p)]
      <4>1. write \in writes'
        BY <2>2
      <4>2. write.file = p
        OBVIOUS
      <4> HIDE DEF write
      <4>3. QED
        BY <4>1, <4>2
    <3>4. QED
      BY <1>1, <2>2, <3>1, <3>2, <3>3 DEF PassSound, storeVars
  <2>3. QED
    BY <1>1, <2>1, <2>2
<1>5. QED
  BY <1>1, <1>2, <1>3, <1>4, PagesKept DEF StoreInv

\* Every page is in place: the metadata is written.
LEMMA WriteIndexKeeps ==
    ASSUME StoreInv, WriteIndex
    PROVE  StoreInv'
<1>1. /\ pass = "writing" /\ writes = {} /\ pass' = "index"
      /\ writes' = {[file |-> IndexFile, value |-> districts]}
      /\ UNCHANGED <<upstream, disk, storeVars, cursor, flight, late, restarts>>
  BY DEF WriteIndex
<1>2. TypeOK'
  BY <1>1 DEF StoreInv, TypeOK, storeVars
<1>3. WritesSound'
  BY <1>1 DEF WritesSound, storeVars
<1>4. PassSound'
  BY <1>1 DEF StoreInv, PassSound, StoredPage, storeVars
<1>5. QED
  BY <1>1, <1>2, <1>3, <1>4, PagesKept DEF StoreInv

\* A write of a page is renamed into place: its dirty mark stays until the metadata is.
LEMMA RenamePageKeeps ==
    ASSUME StoreInv, NEW w \in writes, w.file # IndexFile,
           disk' = [disk EXCEPT ![w.file] = w.value], writes' = writes \ {w},
           UNCHANGED <<upstream, storeVars, pass, cursor, flight, late, restarts>>
    PROVE  StoreInv'
<1> USE Given
<1>1. /\ w.file \in dirtyPages /\ w.value \in PageContent /\ OfPage(w.value, w.file)
      /\ disk[IndexFile] # NoFile =>
            \A x \in w.value : NotAhead(disk[IndexFile][w.file], x.origin.version)
      /\ w.value # NoFile
  BY AbsentAssumption DEF StoreInv, WritesSound
<1>2. /\ w.file \in Pages /\ disk'[w.file] = w.value /\ DOMAIN disk' = DOMAIN disk
      /\ \A f \in Pages \cup {IndexFile} : f # w.file => disk'[f] = disk[f]
      /\ disk'[IndexFile] = disk[IndexFile]
  BY <1>1 DEF StoreInv, TypeOK
<1>3. TypeOK'
  BY <1>1, <1>2 DEF StoreInv, TypeOK, storeVars
<1>4. ASSUME NEW q \in Pages PROVE MemoryOf(q)'
  BY DEF StoreInv, MemoryOf, HonestMeta, storeVars
<1>5. ASSUME NEW q \in Pages PROVE DiskOf(disk, q)'
  <2>1. CASE q = w.file
    <3>1. ASSUME disk[IndexFile] # NoFile, disk[IndexFile][q] # NotListed
          PROVE  StoredPage(w.value, disk[IndexFile][q])
      <4>1. ASSUME disk[IndexFile][q].validator # NoValidator, NEW x \in w.value
            PROVE  x.origin.version >= disk[IndexFile][q].validator
        <5>1. disk[IndexFile][q].validator \in Nat /\ x.origin.version \in Nat
          BY <1>1, <3>1, <4>1, PageTypes, ContentTypes DEF StoreInv
        <5>2. QED
          BY <1>1, <2>1, <3>1, <4>1, <5>1 DEF NotAhead
      <4>2. QED
        BY <1>1, <4>1 DEF StoredPage
    <3>2. QED
      BY <1>1, <1>2, <2>1, <3>1 DEF StoreInv, DiskOf, OfPage, HonestMeta, StoredPage
  <2>2. CASE q # w.file
    BY <1>2, <2>2 DEF StoreInv, DiskOf, OfPage, HonestMeta, StoredPage
  <2>3. QED
    BY <2>1, <2>2
<1>6. ASSUME NEW q \in Pages PROVE LinkOf(q)'
  BY <1>1, <1>2 DEF StoreInv, LinkOf, StoredPage, NotAhead, storeVars
<1>7. WritesSound'
  <2>1. ASSUME NEW v \in writes', v.file # IndexFile
        PROVE  /\ v.file \in dirtyPages /\ v.value \in PageContent /\ OfPage(v.value, v.file)
               /\ disk'[IndexFile] # NoFile =>
                     \A x \in v.value : NotAhead(disk'[IndexFile][v.file], x.origin.version)
    BY <1>2, <2>1 DEF StoreInv, WritesSound
  <2>2. ASSUME NEW v \in writes' PROVE v.file # IndexFile
    BY <1>1, <2>2 DEF StoreInv, WritesSound, TypeOK
  <2>3. QED
    BY <2>1, <2>2 DEF WritesSound, OfPage, NotAhead, storeVars
<1>8. PassSound'
  <2>1. ASSUME pass = "writing"
        PROVE  \A p \in dirtyPages : StoredPage(disk'[p], districts[p]) \/ \E v \in writes' : v.file = p
    <3>1. StoredPage(w.value, districts[w.file])
      BY <1>1, <2>1, ReconstitutedSound DEF StoreInv, PassSound
    <3>2. ASSUME NEW p \in dirtyPages, p # w.file
          PROVE  StoredPage(disk'[p], districts[p]) \/ \E v \in writes' : v.file = p
      BY <1>2, <2>1, <3>2 DEF StoreInv, PassSound, TypeOK
    <3>3. QED
      BY <1>2, <3>1, <3>2
  <2>2. ASSUME NEW p PROVE Reconstituted(p)' = Reconstituted(p)
    BY DEF storeVars, Reconstituted, Previous
  <2>3. pass # "index"
    BY DEF StoreInv, PassSound
  <2>4. pass = "removing" => disk'[IndexFile] = districts
    BY <1>2 DEF StoreInv, PassSound
  <2>5. QED
    BY <2>1, <2>2, <2>3, <2>4 DEF StoreInv, PassSound, storeVars
<1>9. QED
  BY <1>3, <1>4, <1>5, <1>6, <1>7, <1>8 DEF StoreInv

\* The metadata is in place, after the pages it lists: nothing is dirty any more.
LEMMA RenameIndexKeeps ==
    ASSUME StoreInv, NEW w \in writes, w.file = IndexFile,
           disk' = [disk EXCEPT ![w.file] = w.value], writes' = writes \ {w},
           pass' = "removing", dirtyPages' = {}, metadataDirty' = FALSE,
           UNCHANGED <<upstream, districts, records, removedPages, cursor, flight, late, restarts>>
    PROVE  StoreInv'
<1> USE Given
<1>1. pass = "index" /\ w.value = districts /\ writes' = {} /\ flight = {}
  BY DEF StoreInv, WritesSound, TypeOK, PassSound
<1>2. /\ disk'[IndexFile] = districts /\ DOMAIN disk' = DOMAIN disk
      /\ \A q \in Pages : disk'[q] = disk[q]
  BY <1>1 DEF StoreInv, TypeOK
<1>3. TypeOK'
  <2>1. /\ DOMAIN disk' = Pages \cup {IndexFile}
        /\ disk'[IndexFile] \in [Pages -> Meta \cup {NotListed}]
        /\ \A p \in Pages : disk'[p] = NoFile \/ disk'[p] \in PageContent
    BY <1>2 DEF StoreInv, TypeOK
  <2>2. QED
    BY <2>1 DEF StoreInv, TypeOK
<1>4. ASSUME NEW q \in Pages, districts[q] # NotListed PROVE StoredPage(disk[q], districts[q])
  BY <1>1, <1>4 DEF StoreInv, LinkOf, PassSound
<1>5. ASSUME NEW q \in Pages PROVE MemoryOf(q)' /\ DiskOf(disk, q)' /\ LinkOf(q)'
  <2>1. MemoryOf(q)'
    BY DEF StoreInv, MemoryOf, HonestMeta
  <2>2. DiskOf(disk, q)'
    BY <1>2, <1>4 DEF StoreInv, MemoryOf, DiskOf, OfPage, HonestMeta, StoredPage
  <2>3. LinkOf(q)'
    BY <1>2, <1>4 DEF StoreInv, LinkOf, StoredPage
  <2>4. QED
    BY <2>1, <2>2, <2>3
<1>6. WritesSound' /\ PassSound'
  BY <1>1, <1>2 DEF WritesSound, PassSound
<1>7. QED
  BY <1>1, <1>3, <1>5, <1>6 DEF StoreInv

\* A write fails: the page stays dirty.
LEMMA WriteFailsKeeps ==
    ASSUME StoreInv, NEW w \in writes, WriteFails(w)
    PROVE  StoreInv'
<1>1. /\ writes' = writes \ {w} /\ pass' = IF pass \in {"writing", "index"} THEN "idle" ELSE pass
      /\ UNCHANGED <<upstream, disk, storeVars, cursor, flight, late, restarts>>
  BY DEF WriteFails
<1>2. TypeOK'
  BY <1>1 DEF StoreInv, TypeOK, storeVars
<1>3. WritesSound'
  <2>1. ASSUME NEW v \in writes'
        PROVE  /\ v.file \in dirtyPages /\ v.value \in PageContent /\ OfPage(v.value, v.file)
               /\ disk[IndexFile] # NoFile =>
                     \A x \in v.value : NotAhead(disk[IndexFile][v.file], x.origin.version)
    BY <1>1, <2>1 DEF StoreInv, WritesSound
  <2>2. QED
    BY <1>1, <2>1 DEF WritesSound, OfPage, NotAhead, storeVars
<1>4. PassSound'
  BY <1>1 DEF StoreInv, PassSound, storeVars
<1>5. QED
  BY <1>1, <1>2, <1>3, <1>4, PagesKept DEF StoreInv

\* The files of the pruned pages are deleted: no metadata lists them.
LEMMA RemovePrunedKeeps ==
    ASSUME StoreInv, RemovePruned
    PROVE  StoreInv'
<1> USE Given
<1>1. /\ pass = "removing" /\ removedPages' = {} /\ pass' = "idle"
      /\ disk' = [f \in DOMAIN disk |-> IF f \in removedPages THEN NoFile ELSE disk[f]]
      /\ UNCHANGED <<upstream, districts, records, dirtyPages, metadataDirty, cursor, flight,
                     writes, late, restarts>>
  BY DEF RemovePruned
<1>2. /\ disk[IndexFile] = districts /\ disk'[IndexFile] = districts
      /\ \A q \in Pages : disk'[q] = NoFile \/ disk'[q] = disk[q]
      /\ \A q \in Pages : districts[q] # NotListed => disk'[q] = disk[q]
      /\ DOMAIN disk' = DOMAIN disk
  BY <1>1 DEF StoreInv, TypeOK, PassSound, LinkOf
<1>3. TypeOK'
  BY <1>1, <1>2 DEF StoreInv, TypeOK
<1>4. ASSUME NEW q \in Pages PROVE MemoryOf(q)'
  BY <1>1 DEF StoreInv, MemoryOf, HonestMeta
<1>5. ASSUME NEW q \in Pages PROVE DiskOf(disk, q)'
  <2>1. DiskOf(disk, q)
    BY DEF StoreInv
  <2>2. disk'[q] # NoFile => OfPage(disk[q], q)'
    BY <1>1, <1>2, <2>1 DEF DiskOf, OfPage
  <2>3. HonestMeta(disk[IndexFile][q], q)'
    <3>1. HonestMeta(districts[q], q)
      BY DEF StoreInv, MemoryOf
    <3>2. disk'[IndexFile][q] = districts[q] /\ upstream' = upstream
      BY <1>1, <1>2
    <3>3. QED
      BY <3>1, <3>2 DEF HonestMeta
  <2>4. disk'[IndexFile] # NoFile /\ disk'[IndexFile][q] # NotListed =>
           StoredPage(disk[q], disk[IndexFile][q])'
    <3>1. HAVE disk'[IndexFile] # NoFile /\ disk'[IndexFile][q] # NotListed
    <3>2. StoredPage(disk[q], disk[IndexFile][q]) /\ disk'[q] = disk[q]
      BY <1>2, <2>1, <3>1 DEF DiskOf
    <3>3. disk'[IndexFile][q] = disk[IndexFile][q]
      BY <1>2
    <3>4. QED
      BY <3>2, <3>3 DEF StoredPage
  <2>5. QED
    BY <2>2, <2>3, <2>4 DEF DiskOf
<1>6. ASSUME NEW q \in Pages PROVE LinkOf(q)'
  BY <1>1, <1>2 DEF StoreInv, LinkOf, StoredPage, NotAhead
<1>7. WritesSound' /\ PassSound'
  BY <1>1, <1>2 DEF StoreInv, WritesSound, PassSound, OfPage, NotAhead
<1>8. QED
  BY <1>1, <1>3, <1>4, <1>5, <1>6, <1>7 DEF StoreInv

-----------------------------------------------------------------------------
\* A disk as a load may find it: as it was left, or with a page or the index lost.
FoundDisk(d) ==
    \/ d = disk
    \/ \E p \in Pages : disk[p] # NoFile /\ d = [disk EXCEPT ![p] = {}]
    \/ d = [disk EXCEPT ![IndexFile] = NoFile]

LEMMA FoundDiskSound ==
    ASSUME StoreInv, NEW d, FoundDisk(d)
    PROVE  /\ DOMAIN d = Pages \cup {IndexFile}
           /\ d[IndexFile] = NoFile \/ d[IndexFile] = disk[IndexFile]
           /\ \A p \in Pages : d[p] = NoFile \/ d[p] \in PageContent
           /\ \A p \in Pages : DiskOf(d, p)
<1> USE Given
<1>1. {} \in PageContent /\ {} # NoFile
  BY AbsentAssumption DEF PageContent
<1>2. CASE d = disk
  BY <1>2 DEF StoreInv, TypeOK
<1>3. ASSUME NEW p \in Pages, disk[p] # NoFile, d = [disk EXCEPT ![p] = {}]
      PROVE  /\ DOMAIN d = Pages \cup {IndexFile}
             /\ d[IndexFile] = disk[IndexFile]
             /\ \A q \in Pages : d[q] = NoFile \/ d[q] \in PageContent
             /\ \A q \in Pages : DiskOf(d, q)
  <2>1. DOMAIN d = Pages \cup {IndexFile} /\ d[p] = {} /\ d[IndexFile] = disk[IndexFile]
        /\ \A q \in Pages : q # p => d[q] = disk[q]
    BY <1>3 DEF StoreInv, TypeOK
  <2>2. ASSUME NEW q \in Pages PROVE DiskOf(d, q)
    <3>1. CASE q = p
      BY <1>1, <2>1, <3>1 DEF StoreInv, DiskOf, OfPage, StoredPage
    <3>2. CASE q # p
      BY <2>1, <3>2 DEF StoreInv, DiskOf
    <3>3. QED
      BY <3>1, <3>2
  <2>3. QED
    BY <1>1, <2>1, <2>2 DEF StoreInv, TypeOK
<1>4. ASSUME d = [disk EXCEPT ![IndexFile] = NoFile]
      PROVE  /\ DOMAIN d = Pages \cup {IndexFile}
             /\ d[IndexFile] = NoFile
             /\ \A q \in Pages : d[q] = NoFile \/ d[q] \in PageContent
             /\ \A q \in Pages : DiskOf(d, q)
  <2>1. DOMAIN d = Pages \cup {IndexFile} /\ d[IndexFile] = NoFile
        /\ \A q \in Pages : d[q] = disk[q]
    BY <1>4 DEF StoreInv, TypeOK
  <2>2. QED
    BY <2>1 DEF StoreInv, TypeOK, DiskOf
<1>5. QED
  BY <1>2, <1>3, <1>4 DEF FoundDisk

\* A load: what matches its metadata is taken with the validators, what does not
\* is taken without, and what nothing lists is swept.
LEMMA LoadKeeps ==
    ASSUME StoreInv, PagesApart, NEW d, FoundDisk(d), Load(d), pass' = "idle", cursor' = 1,
           flight' = {}, writes' = {}, upstream' = upstream, restarts' \in 0..MaxRestarts
    PROVE  StoreInv'
<1> USE Given
<1>1. /\ DOMAIN d = Pages \cup {IndexFile}
      /\ d[IndexFile] = NoFile \/ d[IndexFile] \in [Pages -> Meta \cup {NotListed}]
      /\ \A p \in Pages : d[p] = NoFile \/ d[p] \in PageContent
      /\ \A p \in Pages : DiskOf(d, p)
  BY FoundDiskSound DEF StoreInv, TypeOK
<1>2. /\ districts' = [p \in Pages |-> LoadedMeta(d, p)]
      /\ records' \in LoadedRecords(d)
      /\ dirtyPages' = {} /\ removedPages' = {} /\ metadataDirty' \in BOOLEAN
      /\ disk' = IF d[IndexFile] = NoFile THEN d
                 ELSE [f \in DOMAIN d |-> IF f \in Pages \ Listed(d) THEN NoFile ELSE d[f]]
  BY DEF Load
<1>3. /\ DOMAIN disk' = Pages \cup {IndexFile} /\ disk'[IndexFile] = d[IndexFile]
      /\ \A p \in Pages : disk'[p] = NoFile \/ disk'[p] = d[p]
      /\ \A p \in Listed(d) : disk'[p] = d[p]
  BY <1>1, <1>2 DEF Listed
<1>4. \A p \in Listed(d) : p \in Pages /\ d[IndexFile] # NoFile /\ d[IndexFile][p] # NotListed
  BY DEF Listed
<1>5. ASSUME NEW p \in Pages
      PROVE  \A x \in PageRecords(d, p) :
                /\ x.llnr \in NumbersOf(p) /\ x.llnr \in Llnrs
                /\ x.origin \in Origin /\ x.origin.page = p
                /\ x.origin.version \in Nat /\ x.origin.version <= upstream[p].version
  BY <1>1, ContentTypes DEF PageRecords, DiskOf, OfPage
<1>6. ASSUME NEW p \in Listed(d)
      PROVE  /\ LoadedMeta(d, p) \in Meta /\ LoadedMeta(d, p) # NotListed
             /\ LoadedMeta(d, p).llnrs = PageLlnrs(d, p)
             /\ LoadedMeta(d, p).validator # NoValidator =>
                   LoadedMeta(d, p) = d[IndexFile][p] /\ ~Mismatched(d, p)
  <2>1. p \in Pages /\ d[IndexFile][p] \in Meta
    BY <1>1, <1>4
  <2>2. PageLlnrs(d, p) \subseteq Llnrs
    BY <1>5, <2>1 DEF PageLlnrs
  <2>3. CASE Mismatched(d, p)
    <3>1. LoadedMeta(d, p) = [llnrs |-> PageLlnrs(d, p), validator |-> NoValidator]
      BY <2>3 DEF LoadedMeta
    <3>2. [llnrs |-> PageLlnrs(d, p), validator |-> NoValidator] \in Meta
      BY <2>2 DEF Meta
    <3>3. QED
      BY <3>1, <3>2, AbsentAssumption
  <2>4. CASE ~Mismatched(d, p)
    <3>1. LoadedMeta(d, p) = d[IndexFile][p]
      BY <2>4 DEF LoadedMeta
    <3>2. QED
      BY <2>1, <2>4, <3>1, AbsentAssumption DEF Mismatched
  <2>5. QED
    BY <2>3, <2>4
<1>7. ASSUME NEW r \in Llnrs, NEW p \in Listed(d), r \in PageLlnrs(d, p)
      PROVE  \E x \in PageRecords(d, p) : records'[r] = x.origin
  <2>1. PICK y \in PageRecords(d, p) : y.llnr = r
    BY <1>7 DEF PageLlnrs
  <2>2. y \in UNION {PageRecords(d, q) : q \in Listed(d)}
    BY <1>7, <2>1
  <2>3. y.origin \in Found(d, r)
    BY <2>1, <2>2 DEF Found
  <2>4. records'[r] \in Found(d, r)
    BY <1>2, <2>3 DEF LoadedRecords
  <2>5. PICK q \in Listed(d) :
           \E x \in PageRecords(d, q) : x.llnr = r /\ records'[r] = x.origin
    BY <2>4 DEF Found
  <2>6. PICK x \in PageRecords(d, q) : x.llnr = r /\ records'[r] = x.origin
    BY <2>5
  <2>7. q = p
    <3>1. p \in Pages /\ q \in Pages
      BY <1>4
    <3>2. r \in NumbersOf(q)
      BY <1>5, <2>6, <3>1
    <3>3. r \in NumbersOf(p)
      BY <1>5, <2>1, <3>1
    <3>4. QED
      BY <3>1, <3>2, <3>3 DEF PagesApart
  <2>8. QED
    BY <2>6, <2>7
<1>8. ASSUME NEW r \in Llnrs, records'[r] # NoRecord
      PROVE  \E p \in Listed(d) : \E x \in PageRecords(d, p) :
                x.llnr = r /\ records'[r] = x.origin
  BY <1>2, <1>8 DEF LoadedRecords, Found
<1>9. TypeOK'
  <2>1. records' \in [Llnrs -> Origin \cup {NoRecord}]
    <3>1. \A r \in Llnrs : records'[r] \in Origin \cup {NoRecord}
      BY <1>4, <1>5, <1>8
    <3>2. PICK T : records' \in [Llnrs -> T]
      BY <1>2 DEF LoadedRecords
    <3>3. QED
      BY <3>1, <3>2
  <2>2. districts' \in [Pages -> Meta \cup {NotListed}]
    <3>1. \A p \in Pages : LoadedMeta(d, p) \in Meta \cup {NotListed}
      BY <1>6 DEF LoadedMeta
    <3>2. QED
      BY <1>2, <3>1
  <2>3. Cardinality(flight') <= Concurrency /\ flight' = {}
    BY FS_EmptySet
  <2>4. /\ DOMAIN disk' = Pages \cup {IndexFile}
        /\ disk'[IndexFile] = NoFile \/ disk'[IndexFile] \in [Pages -> Meta \cup {NotListed}]
        /\ \A p \in Pages : disk'[p] = NoFile \/ disk'[p] \in PageContent
    BY <1>1, <1>3
  <2>5. /\ upstream' \in [Pages -> [llnrs: SUBSET Llnrs, version: 1..MaxVersion]]
        /\ dirtyPages' \subseteq Pinned /\ removedPages' \subseteq Retired
        /\ metadataDirty' \in BOOLEAN /\ pass' = "idle" /\ cursor' \in 1..(Len(Table) + 1)
        /\ restarts' \in 0..MaxRestarts
    BY <1>2 DEF StoreInv, TypeOK
  <2>6. QED
    BY <2>1, <2>2, <2>3, <2>4, <2>5 DEF TypeOK
<1>10. ASSUME NEW p \in Listed(d)
       PROVE  /\ d[p] # NoFile /\ PageRecords(d, p) = d[p]
              /\ StoredPage(d[p], LoadedMeta(d, p))
              /\ HonestMeta(LoadedMeta(d, p), p)
              /\ LoadedMeta(d, p).validator # NoValidator =>
                    \A x \in PageRecords(d, p) : x.origin.version >= LoadedMeta(d, p).validator
  <2>1. p \in Pages /\ d[p] # NoFile /\ StoredPage(d[p], d[IndexFile][p]) /\ HonestMeta(d[IndexFile][p], p)
    BY <1>1, <1>4 DEF DiskOf, StoredPage
  <2>2. PageRecords(d, p) = d[p] /\ PageLlnrs(d, p) = {x.llnr : x \in d[p]}
    BY <2>1 DEF PageRecords, PageLlnrs
  <2>3. PageLlnrs(d, p) \subseteq NumbersOf(p)
    BY <1>5, <2>1 DEF PageLlnrs
  <2>4. CASE LoadedMeta(d, p).validator = NoValidator
    BY <1>6, <2>1, <2>2, <2>3, <2>4 DEF StoredPage, HonestMeta
  <2>5. CASE LoadedMeta(d, p).validator # NoValidator
    BY <1>6, <2>1, <2>2, <2>5 DEF StoredPage, Mismatched
  <2>6. QED
    BY <2>1, <2>2, <2>4, <2>5
<1>11. ASSUME NEW q \in Pages PROVE MemoryOf(q)'
  <2>1. upstream[q].llnrs \subseteq NumbersOf(q)
    BY DEF StoreInv, MemoryOf
  <2>2. districts'[q] = LoadedMeta(d, q) /\ (q \notin Listed(d) => districts'[q] = NotListed)
    BY <1>2 DEF LoadedMeta
  <2>3. HonestMeta(districts'[q], q)
    BY <1>10, <2>2 DEF HonestMeta
  <2>4. ASSUME NEW r \in NumbersOf(q), records'[r] # NoRecord
        PROVE  records'[r].page = q /\ records'[r].version <= upstream[q].version
    <3>1. r \in Llnrs
      BY <2>4, ContentTypes
    <3>2. PICK p \in Listed(d) :
             \E x \in PageRecords(d, p) : x.llnr = r /\ records'[r] = x.origin
      BY <1>8, <2>4, <3>1
    <3>3. PICK x \in PageRecords(d, p) : x.llnr = r /\ records'[r] = x.origin
      BY <3>2
    <3>4. p \in Pages /\ x.llnr \in NumbersOf(p)
      BY <1>4, <1>5, <3>3
    <3>5. p = q
      BY <2>4, <3>3, <3>4 DEF PagesApart
    <3>6. QED
      BY <1>5, <3>3, <3>4, <3>5
  <2>5. ASSUME q \in Listed(d), districts'[q].validator # NoValidator, NEW r \in districts'[q].llnrs
        PROVE  records'[r] # NoRecord /\ records'[r].version >= districts'[q].validator
    <3>1. r \in PageLlnrs(d, q) /\ r \in Llnrs
      BY <1>5, <1>6, <2>2, <2>5 DEF PageLlnrs
    <3>2. PICK x \in PageRecords(d, q) : records'[r] = x.origin
      BY <1>7, <2>5, <3>1
    <3>3. x.origin \in Origin /\ x.origin.version >= LoadedMeta(d, q).validator
      BY <1>5, <1>10, <2>2, <2>5
    <3>4. QED
      BY <2>2, <3>2, <3>3, AbsentAssumption
  <2>6. QED
    BY <2>1, <2>2, <2>3, <2>4, <2>5 DEF MemoryOf, HonestMeta
<1>12. ASSUME NEW q \in Pages PROVE DiskOf(disk, q)'
  <2>1. DiskOf(d, q)
    BY <1>1
  <2>2. d[IndexFile] # NoFile /\ d[IndexFile][q] # NotListed => disk'[q] = d[q]
    BY <1>3 DEF Listed
  <2>3. QED
    BY <1>3, <2>1, <2>2 DEF DiskOf, OfPage, HonestMeta, StoredPage
<1>13. ASSUME NEW q \in Pages PROVE LinkOf(q)'
  <2>1. ASSUME districts'[q] # NotListed PROVE StoredPage(disk'[q], districts'[q])
    <3>1. q \in Listed(d) /\ districts'[q] = LoadedMeta(d, q)
      BY <1>2, <2>1 DEF LoadedMeta
    <3>2. QED
      BY <1>3, <1>10, <3>1
  <2>2. QED
    BY <1>2, <2>1 DEF LinkOf, StoredPage
<1>14. WritesSound' /\ PassSound'
  BY DEF WritesSound, PassSound
<1>15. IsFiniteSet(flight')
  BY FS_EmptySet
<1>16. QED
  BY <1>9, <1>11, <1>12, <1>13, <1>14, <1>15 DEF StoreInv

\* The process dies, or the plugin is started again.
LEMMA RestartKeeps ==
    ASSUME StoreInv, PagesApart, Crash \/ Reopen
    PROVE  StoreInv'
<1>1. /\ pass' = "idle" /\ cursor' = 1 /\ flight' = {} /\ writes' = {} /\ upstream' = upstream
      /\ restarts' \in 0..MaxRestarts
  BY Given DEF Crash, Reopen, StoreInv, TypeOK
<1>2. PICK d : FoundDisk(d) /\ Load(d)
  <2>1. CASE Reopen
    BY <2>1 DEF Reopen, FoundDisk
  <2>2. CASE Crash /\ Load(disk)
    BY <2>2 DEF FoundDisk
  <2>3. CASE Crash /\ \E p \in Pages : disk[p] # NoFile /\ Load([disk EXCEPT ![p] = {}])
    BY <2>3 DEF FoundDisk
  <2>4. CASE Crash /\ Load([disk EXCEPT ![IndexFile] = NoFile])
    BY <2>4 DEF FoundDisk
  <2>5. QED
    BY <2>1, <2>2, <2>3, <2>4 DEF Crash
<1>3. QED
  BY <1>1, <1>2, LoadKeeps

-----------------------------------------------------------------------------
LEMMA StoreInvInit ==
    ASSUME Init, PagesApart
    PROVE  StoreInv
<1> USE Given
<1> DEFINE content(f) == {[llnr |-> r, origin |-> [page |-> f, version |-> 1]] : r \in upstream[f].llnrs}
<1>1. /\ upstream \in [Pages -> [llnrs: SUBSET Llnrs, version: {1}]]
      /\ \A p \in Pages : upstream[p].llnrs \in Listings[p] /\ upstream[p].version = 1
      /\ \A p \in Pages : upstream[p].llnrs \subseteq Llnrs /\ upstream[p].llnrs \subseteq NumbersOf(p)
  BY DEF Init
<1>2. /\ districts = [p \in Pages |->
            IF p \in Retired THEN [llnrs |-> upstream[p].llnrs, validator |-> 1] ELSE NotListed]
      /\ DOMAIN disk = Pages \cup {IndexFile} /\ disk[IndexFile] = districts
      /\ \A f \in Pages : disk[f] = IF f \in Retired THEN content(f) ELSE NoFile
      /\ dirtyPages = {} /\ removedPages = {} /\ metadataDirty = FALSE
      /\ pass = "idle" /\ cursor = 1 /\ flight = {} /\ writes = {} /\ restarts = 0
  BY DEF Init
<1>3. ASSUME NEW p \in Retired
      PROVE  /\ districts[p] = [llnrs |-> upstream[p].llnrs, validator |-> 1]
             /\ districts[p] \in Meta
             /\ content(p) \in PageContent /\ content(p) # NoFile
             /\ \A x \in content(p) : /\ x.llnr \in upstream[p].llnrs
                                      /\ x.origin.page = p /\ x.origin.version = 1
  <2>1. [page |-> p, version |-> 1] \in Origin
    BY DEF Origin
  <2>2. \A r \in upstream[p].llnrs :
           [llnr |-> r, origin |-> [page |-> p, version |-> 1]] \in [llnr: Llnrs, origin: Origin]
    BY <1>1, <2>1
  <2>3. content(p) \in PageContent
    BY <2>2 DEF PageContent
  <2>4. [llnrs |-> upstream[p].llnrs, validator |-> 1] \in Meta
    BY <1>1 DEF Meta
  <2>5. \A x \in content(p) : /\ x.llnr \in upstream[p].llnrs
                               /\ x.origin.page = p /\ x.origin.version = 1
    OBVIOUS
  <2>6. districts[p] = [llnrs |-> upstream[p].llnrs, validator |-> 1]
    BY <1>2
  <2>7. content(p) # NoFile
    BY <2>3, AbsentAssumption
  <2>8. QED
    BY <2>3, <2>4, <2>5, <2>6, <2>7
<1> HIDE DEF content
<1>4. ASSUME NEW r \in Llnrs
      PROVE  \/ records[r] = NoRecord /\ \A p \in Retired : r \notin upstream[p].llnrs
             \/ \E p \in Retired : r \in upstream[p].llnrs /\ records[r] = [page |-> p, version |-> 1]
  BY DEF Init
<1>5. TypeOK
  <2>1. records \in [Llnrs -> Origin \cup {NoRecord}]
    <3>1. \A p \in Retired : [page |-> p, version |-> 1] \in Origin
      BY DEF Origin
    <3>2. \A r \in Llnrs : records[r] \in Origin \cup {NoRecord}
      BY <1>4, <3>1
    <3>3. records = [r \in Llnrs |-> records[r]]
      BY DEF Init
    <3>4. QED
      BY <3>2, <3>3
  <2>2. districts \in [Pages -> Meta \cup {NotListed}]
    BY <1>2, <1>3
  <2>3. Cardinality(flight) <= Concurrency
    BY <1>2, FS_EmptySet
  <2>4. \A p \in Pages : disk[p] = NoFile \/ disk[p] \in PageContent
    <3>1. TAKE p \in Pages
    <3>2. CASE p \in Retired
      BY <1>2, <1>3, <3>2
    <3>3. CASE p \notin Retired
      BY <1>2, <3>3
    <3>4. QED
      BY <3>2, <3>3
  <2>5. upstream \in [Pages -> [llnrs: SUBSET Llnrs, version: 1..MaxVersion]]
    BY <1>1
  <2>6. /\ dirtyPages \subseteq Pinned /\ removedPages \subseteq Retired
        /\ cursor \in 1..(Len(Table) + 1) /\ restarts \in 0..MaxRestarts
        /\ flight \subseteq [page: Pinned, sent: 1..MaxVersion \cup {NoValidator}]
    BY <1>2
  <2>7. DOMAIN disk = Pages \cup {IndexFile} /\ disk[IndexFile] \in [Pages -> Meta \cup {NotListed}]
    BY <1>2, <2>2
  <2>8. metadataDirty \in BOOLEAN /\ pass = "idle"
    BY <1>2
  <2>9. QED
    BY <2>1, <2>2, <2>3, <2>4, <2>5, <2>6, <2>7, <2>8 DEF TypeOK
<1>6. ASSUME NEW q \in Pages PROVE MemoryOf(q)
  <2>1. ASSUME NEW r \in NumbersOf(q), records[r] # NoRecord
        PROVE  records[r].page = q /\ records[r].version <= upstream[q].version
    <3>1. PICK p \in Retired : r \in upstream[p].llnrs /\ records[r] = [page |-> p, version |-> 1]
      BY <1>4, <2>1
    <3>2. p = q
      BY <1>1, <2>1, <3>1 DEF PagesApart
    <3>3. QED
      BY <1>1, <3>1, <3>2
  <2>2. ASSUME q \in Retired, NEW r \in upstream[q].llnrs
        PROVE  records[r] # NoRecord /\ records[r].version >= 1
    <3>1. PICK p \in Retired : records[r] = [page |-> p, version |-> 1]
      BY <1>1, <1>4, <2>2
    <3>2. [page |-> p, version |-> 1] \in Origin
      BY DEF Origin
    <3>3. QED
      BY <3>1, <3>2, AbsentAssumption
  <2>3. CASE q \in Retired
    <3>1. /\ districts[q].llnrs = upstream[q].llnrs /\ districts[q].validator = 1
          /\ upstream[q].llnrs \subseteq NumbersOf(q) /\ upstream[q].version = 1
      <4>1. districts[q] = [llnrs |-> upstream[q].llnrs, validator |-> 1]
        BY <1>3, <2>3
      <4>2. upstream[q].llnrs \subseteq NumbersOf(q) /\ upstream[q].version = 1
        BY <1>1
      <4>3. QED
        BY <4>1, <4>2
    <3>2. HonestMeta(districts[q], q)
      BY <3>1 DEF HonestMeta
    <3>3. QED
      BY <2>1, <2>2, <2>3, <3>1, <3>2 DEF MemoryOf
  <2>4. CASE q \notin Retired
    BY <1>1, <1>2, <2>1, <2>4 DEF MemoryOf, HonestMeta
  <2>5. QED
    BY <2>3, <2>4
<1>7. ASSUME NEW q \in Pages PROVE DiskOf(disk, q) /\ LinkOf(q)
  <2>1. CASE q \in Retired
    <3>1. /\ disk[q] = content(q) /\ disk[IndexFile][q] = districts[q]
          /\ districts[q].validator = 1 /\ content(q) # NoFile /\ upstream[q].version = 1
      BY <1>1, <1>2, <1>3, <2>1
    <3>2. \A x \in content(q) : /\ x.llnr \in NumbersOf(q)
                                 /\ x.origin.page = q /\ x.origin.version = 1
      BY <1>1, <1>3, <2>1
    <3>3. OfPage(disk[q], q)
      BY <3>1, <3>2 DEF OfPage
    <3>4. StoredPage(disk[q], districts[q])
      BY <3>1, <3>2 DEF StoredPage
    <3>5. QED
      BY <1>2, <1>6, <3>1, <3>3, <3>4 DEF DiskOf, LinkOf, MemoryOf
  <2>2. CASE q \notin Retired
    BY <1>2, <2>2 DEF DiskOf, LinkOf, HonestMeta
  <2>3. QED
    BY <2>1, <2>2
<1>8. IsFiniteSet(flight) /\ WritesSound /\ PassSound
  BY <1>2, FS_EmptySet DEF WritesSound, PassSound
<1>9. QED
  BY <1>5, <1>6, <1>7, <1>8 DEF StoreInv

LEMMA StoreInvStep ==
    ASSUME StoreInv, PagesApart, [Next]_vars
    PROVE  StoreInv'
<1>1. CASE \E p \in Pinned : Publish(p)
  BY <1>1, PublishKeeps
<1>2. ASSUME NEW p \in Pinned, Answer(p) PROVE StoreInv'
  <2>1. PICK f \in flight :
           /\ flight' = flight \ {f}
           /\ IF f.sent = upstream[p].version
                THEN UNCHANGED storeVars
                ELSE Upsert(p, upstream[p].llnrs, upstream[p].version)
    BY <1>2 DEF Answer
  <2>2. UNCHANGED <<upstream, disk, pass, cursor, writes, late, restarts>>
    BY <1>2 DEF Answer
  <2>3. CASE f.sent = upstream[p].version
    BY <2>1, <2>2, <2>3, NothingNewKeeps
  <2>4. CASE f.sent # upstream[p].version
    BY <2>1, <2>2, <2>4, UpsertKeeps
  <2>5. QED
    BY <2>3, <2>4
<1>3. CASE \E p \in Pinned : DownloadFails(p)
  BY <1>3, NothingNewKeeps DEF DownloadFails
<1>4. CASE Refresh \/ RefreshAway
  <2>1. /\ Idle /\ Prune /\ pass' \in {"idle", "pages"} /\ cursor' \in 1..(Len(Table) + 1)
        /\ UNCHANGED <<upstream, disk, flight, writes, late, restarts>>
    BY <1>4, Given DEF Refresh, RefreshAway, StoreInv, TypeOK, Idle
  <2>2. QED
    BY <2>1, PruneKeeps
<1>5. CASE Request
  BY <1>5, RequestKeeps
<1>6. CASE BeginFlush
  BY <1>6, BeginFlushKeeps
<1>7. CASE WriteIndex
  BY <1>7, WriteIndexKeeps
<1>8. CASE RemovePruned
  BY <1>8, RemovePrunedKeeps
<1>9. ASSUME NEW w \in writes, Rename(w) PROVE StoreInv'
  <2>1. CASE w.file = IndexFile
    BY <1>9, <2>1, RenameIndexKeeps DEF Rename
  <2>2. CASE w.file # IndexFile
    BY <1>9, <2>2, RenamePageKeeps DEF Rename, storeVars
  <2>3. QED
    BY <2>1, <2>2
<1>10. ASSUME NEW w \in writes, WriteFails(w) PROVE StoreInv'
  BY <1>10, WriteFailsKeeps
<1>11. CASE (\E w \in late : LateWrite(w)) \/ UNCHANGED vars
  <2>1. UNCHANGED <<upstream, disk, storeVars, pass, cursor, flight, writes, restarts>>
    BY <1>11 DEF LateWrite, vars, storeVars
  <2>2. TypeOK' /\ IsFiniteSet(flight')
    BY <2>1 DEF StoreInv, TypeOK, storeVars
  <2>3. WritesSound' /\ PassSound'
    BY <2>1 DEF StoreInv, WritesSound, PassSound, Reconstituted, Previous, OfPage, StoredPage, NotAhead,
                storeVars
  <2>4. QED
    BY <2>1, <2>2, <2>3, PagesKept DEF StoreInv
<1>12. CASE Crash \/ Reopen
  BY <1>12, RestartKeeps
<1>13. QED
  BY <1>1, <1>2, <1>3, <1>4, <1>5, <1>6, <1>7, <1>8, <1>9, <1>10, <1>11, <1>12 DEF Next

\* What the run asks of the store follows.
LEMMA StoreInvSound ==
    ASSUME StoreInv
    PROVE  PagesSound
<1> USE Given
<1>1. ValidatorsHonest
  <2>1. ASSUME NEW p \in Pinned, districts[p] # NotListed,
               districts[p].validator = upstream[p].version
        PROVE  Current(p)
    <3>1. p \in Pages /\ MemoryOf(p) /\ upstream[p].version \in 1..MaxVersion
      BY PageTypes DEF StoreInv
    <3>2. districts[p].validator # NoValidator /\ districts[p].llnrs = upstream[p].llnrs
      BY <2>1, <3>1, AbsentAssumption DEF MemoryOf, HonestMeta
    <3>3. ASSUME NEW r \in upstream[p].llnrs
          PROVE  records[r] = [page |-> p, version |-> upstream[p].version]
      <4>1. r \in NumbersOf(p) /\ r \in Llnrs /\ records[r] # NoRecord
            /\ records[r].version >= upstream[p].version
        BY <2>1, <3>1, <3>2 DEF MemoryOf
      <4>2. records[r] \in Origin /\ records[r].page = p /\ records[r].version <= upstream[p].version
        BY <3>1, <4>1 DEF StoreInv, TypeOK, MemoryOf
      <4>3. records[r].version = upstream[p].version
        BY <3>1, <4>1, <4>2 DEF Origin
      <4>4. QED
        BY <4>2, <4>3 DEF Origin
    <3>4. QED
      BY <2>1, <3>2, <3>3 DEF Current
  <2>2. QED
    BY <2>1 DEF ValidatorsHonest
<1>2. IndexNeverAhead
  <2>1. ASSUME NEW p \in Listed(disk)
        PROVE  /\ disk[p] # NoFile
               /\ ~Mismatched(disk, p) /\ disk[IndexFile][p].validator # NoValidator =>
                     \A x \in disk[p] : x.origin.version >= disk[IndexFile][p].validator
    <3>1. p \in Pages /\ disk[IndexFile] # NoFile /\ StoredPage(disk[p], disk[IndexFile][p])
      BY DEF Listed, StoreInv, DiskOf
    <3>2. PageLlnrs(disk, p) = {x.llnr : x \in disk[p]}
      BY <3>1 DEF PageLlnrs, PageRecords, StoredPage
    <3>3. QED
      BY <3>1, <3>2 DEF StoredPage, Mismatched
  <2>2. QED
    BY <2>1 DEF IndexNeverAhead
<1>3. QED
  BY <1>1, <1>2 DEF StoreInv, PagesSound

\* Validators are honest and the metadata on disk is never ahead of its pages
\* (light-list-store.ts: load, upsertDistrict, pruneDistricts, flush), through any
\* crashes, restarts, failed writes and damaged files, for any pages that share no
\* number; of those that do, the finding light_list_shared tells.
THEOREM StoreNeverClaimsTooMuch == PagesApart => (Spec => []PagesSound)
<1> SUFFICES ASSUME PagesApart PROVE Spec => []PagesSound
  OBVIOUS
<1>1. Init => StoreInv
  BY StoreInvInit
<1>2. StoreInv /\ [Next]_vars => StoreInv'
  BY StoreInvStep
<1>3. StoreInv => PagesSound
  BY StoreInvSound
<1>4. QED
  BY <1>1, <1>2, <1>3, PTL DEF Spec

-----------------------------------------------------------------------------
(* The cache of details before a store. *)

\* While a load is out, what is cached is not fresh: only the load makes it so.
CacheInv ==
    /\ got \in [Callers -> {"nothing", "details", "failed", "no details"}]
    /\ mem \in {"none", "fresh", "stale"} /\ kept \in BOOLEAN
    /\ load # NoLoad => mem # "fresh"

LEMMA CacheInvStep == CacheInv /\ [DetailNext]_detailVars => CacheInv'
<1> SUFFICES ASSUME CacheInv, [DetailNext]_detailVars PROVE CacheInv'
  OBVIOUS
<1> USE DEF CacheInv
<1>1. ASSUME NEW c \in Callers, Get(c) PROVE CacheInv'
  <2>1. CASE mem = "fresh"
    BY <1>1, <2>1 DEF Get
  <2>2. CASE mem # "fresh"
    BY <1>1, <2>2 DEF Get
  <2> QED BY <2>1, <2>2
<1>2. CASE LoadSucceeds
  BY <1>2 DEF LoadSucceeds, Persists
<1>3. ASSUME NEW notFound \in BOOLEAN, LoadFails(notFound) PROVE CacheInv'
  BY <1>3 DEF LoadFails, ServedOnFailure, KeptStale
<1>4. CASE Ages
  BY <1>4 DEF Ages
<1>5. CASE Evicted
  BY <1>5 DEF Evicted
<1>6. CASE CloseSource
  BY <1>6 DEF CloseSource
<1>7. CASE UNCHANGED detailVars
  BY <1>7 DEF detailVars
<1> QED BY <1>1, <1>2, <1>3, <1>4, <1>5, <1>6, <1>7 DEF DetailNext

StaleAnswerStep ==
    /\ mem # "none" /\ got' # got => \A c \in Callers : got'[c] # got[c] => got'[c] = "details"
    /\ mem # "none" /\ load' # load => mem' # "none"
    /\ ~open => kept' = kept /\ reach' = reach

LEMMA StaleAnswerHolds == CacheInv /\ [DetailNext]_detailVars => [StaleAnswerStep]_detailVars
<1> SUFFICES ASSUME CacheInv, DetailNext PROVE StaleAnswerStep
  BY DEF detailVars, StaleAnswerStep
<1> USE DEF CacheInv, StaleAnswerStep
<1>1. ASSUME NEW c \in Callers, Get(c) PROVE StaleAnswerStep
  <2>1. CASE mem = "fresh"
    BY <1>1, <2>1 DEF Get
  <2>2. CASE mem # "fresh"
    BY <1>1, <2>2 DEF Get
  <2> QED BY <2>1, <2>2
<1>2. CASE LoadSucceeds
  <2>1. kept' = (kept \/ open) /\ kept \in BOOLEAN
    BY <1>2 DEF LoadSucceeds, Persists
  <2>2. ~open => kept' = kept
    <3>1. CASE kept = TRUE
      BY <2>1, <3>1
    <3>2. CASE kept = FALSE
      BY <2>1, <3>2
    <3> QED BY <2>1, <3>1, <3>2
  <2> QED BY <1>2, <2>2 DEF LoadSucceeds
<1>3. ASSUME NEW notFound \in BOOLEAN, LoadFails(notFound) PROVE StaleAnswerStep
  BY <1>3 DEF LoadFails, ServedOnFailure, KeptStale
<1>4. CASE Ages
  BY <1>4 DEF Ages
<1>5. CASE Evicted
  BY <1>5 DEF Evicted
<1>6. CASE CloseSource
  BY <1>6 DEF CloseSource
<1> QED BY <1>1, <1>2, <1>3, <1>4, <1>5, <1>6 DEF DetailNext

\* Details that are cached answer every call, however old and whatever the upstream
\* does, and a closed source touches neither store nor row (poi-cache.ts get and
\* fetchMethod, active-captain-source.ts).
THEOREM CachedDetailsAnswer == DetailSpec => StaleAnswers
<1>1. DetailInit => CacheInv
  BY DEF DetailInit, CacheInv
<1>2. CacheInv /\ [DetailNext]_detailVars => CacheInv'
  BY CacheInvStep
<1>3. CacheInv /\ [DetailNext]_detailVars => [StaleAnswerStep]_detailVars
  BY StaleAnswerHolds
<1> QED BY <1>1, <1>2, <1>3, PTL DEF DetailSpec, StaleAnswers, StaleAnswerStep

-----------------------------------------------------------------------------
(* The index file of a data set. *)

IndexEntry == [records : SUBSET Records, count : Nat, validator : Nat, intact : BOOLEAN]
Answers == SUBSET (Records \cup {Unusable})

\* An entry is an answer of the history whole, and counts what it holds, or it has
\* lost some of it and counts more.
Whole(history, e) ==
    /\ e \in IndexEntry /\ e.validator <= Len(history)
    /\ e.intact => /\ e.count = Cardinality(e.records)
                   /\ \E version \in DOMAIN history : e.records = history[version] \ {Unusable}
    /\ ~e.intact => Cardinality(e.records) < e.count
    /\ e.validator # 0 => e.records \subseteq history[e.validator] \ {Unusable}

\* Its validator is of what it holds.
OfAnswer(history, e) == e.validator # 0 => e.records = history[e.validator] \ {Unusable}

HeldSound(index, history, source) ==
    /\ DOMAIN index \subseteq Families /\ index \in [DOMAIN index -> IndexEntry]
    /\ \A f \in DOMAIN index :
          /\ Whole(history[f], index[f])
          /\ OfAnswer(history[f], index[f]) \/ (source = "lnm" /\ ~index[f].intact)

DiskSound(index, history) ==
    /\ DOMAIN index \subseteq Families /\ index \in [DOMAIN index -> IndexEntry]
    /\ \A f \in DOMAIN index :
          /\ Whole(history[f], index[f])
          /\ OfAnswer(history[f], index[f]) \/ ~index[f].intact

IndexInv ==
    /\ kind \in Kinds
    /\ published \in [Families -> Seq(Answers)] /\ \A f \in Families : Len(published[f]) >= 1
    /\ running \in BOOLEAN /\ dirty \in BOOLEAN
    /\ enabled \subseteq Families /\ left \subseteq Families
    /\ refresh \in {"idle", "downloading", "writing"}
    /\ HeldSound(held, published, kind) /\ DiskSound(onDisk, published)
    /\ ~running => DOMAIN held = {} /\ refresh = "idle"
    /\ running /\ ~dirty => held = onDisk
    /\ writing # <<>> => refresh = "writing"
    /\ refresh = "writing" => writing = held

LEMMA PartsFinite == \A s \in SUBSET Records : IsFiniteSet(s) /\ Cardinality(s) \in Nat
BY IndexAssumption, FS_Subset, FS_CardinalityType

\* Later answers change nothing about an entry.
LEMMA WholeGrows ==
    ASSUME NEW history \in Seq(Answers), NEW list \in Answers, NEW e, Whole(history, e)
    PROVE  /\ Whole(Append(history, list), e)
           /\ OfAnswer(history, e) => OfAnswer(Append(history, list), e)
<1> DEFINE longer == Append(history, list)
<1>1. /\ Len(longer) = Len(history) + 1 /\ Len(history) \in Nat
      /\ \A i \in 1..Len(history) : longer[i] = history[i]
      /\ DOMAIN history = 1..Len(history) /\ DOMAIN longer = 1..Len(longer)
  OBVIOUS
<1> HIDE DEF longer
<1>2. Whole(longer, e)
  BY <1>1 DEF Whole, IndexEntry
<1>3. OfAnswer(history, e) => OfAnswer(longer, e)
  BY <1>1 DEF Whole, OfAnswer, IndexEntry
<1> QED BY <1>2, <1>3 DEF longer

\* What is taken from the newest answer is whole, with the validator of that answer or
\* with none.
LEMMA AnswerWhole ==
    ASSUME NEW history \in Seq(Answers), Len(history) >= 1, NEW validator \in {0, Len(history)}
    PROVE  LET records_ == Last(history) \ {Unusable} IN
           /\ records_ \in SUBSET Records
           /\ Whole(history, WholeAnswer(records_, validator))
           /\ OfAnswer(history, WholeAnswer(records_, validator))
           /\ WholeAnswer(records_, validator) \in IndexEntry
<1> DEFINE taken == Last(history) \ {Unusable}
<1>1. Len(history) \in DOMAIN history /\ Last(history) = history[Len(history)] /\ Len(history) \in Nat
      /\ Last(history) \in Answers
  BY DEF Last
<1>2. taken \in SUBSET Records /\ taken = history[Len(history)] \ {Unusable}
  BY <1>1 DEF Answers
<1>3. Cardinality(taken) \in Nat
  BY <1>2, PartsFinite
<1> HIDE DEF taken
<1>4. WholeAnswer(taken, validator) \in IndexEntry
  BY <1>1, <1>2, <1>3 DEF WholeAnswer, IndexEntry
<1>5. Whole(history, WholeAnswer(taken, validator))
  BY <1>1, <1>2, <1>4 DEF Whole, WholeAnswer
<1>6. OfAnswer(history, WholeAnswer(taken, validator))
  BY <1>1, <1>2 DEF OfAnswer, WholeAnswer
<1> QED BY <1>2, <1>4, <1>5, <1>6 DEF taken

\* One more entry.
LEMMA WithKeeps ==
    ASSUME NEW index, NEW f \in Families, NEW e \in IndexEntry,
           HeldSound(index, published, kind), Whole(published[f], e), OfAnswer(published[f], e)
    PROVE  HeldSound(With(index, f, e), published, kind)
BY DEF HeldSound, With

LEMMA WithoutKeeps ==
    ASSUME NEW index, NEW gone, HeldSound(index, published, kind)
    PROVE  HeldSound(Without(index, gone), published, kind)
BY DEF HeldSound, Without

\* What a load takes of the file is fit to be held.
LEMMA IndexLoadKeeps ==
    ASSUME kind \in Kinds, DiskSound(onDisk, published)
    PROVE  HeldSound([f \in DOMAIN onDisk |-> Loaded(onDisk[f])], published, kind)
<1>1. kind \in {"coops", "lnm"}
  BY IndexAssumption
<1>2. ASSUME NEW f \in DOMAIN onDisk
      PROVE  /\ Loaded(onDisk[f]) \in IndexEntry
             /\ Whole(published[f], Loaded(onDisk[f]))
             /\ \/ OfAnswer(published[f], Loaded(onDisk[f]))
                \/ kind = "lnm" /\ ~Loaded(onDisk[f]).intact
  <2> DEFINE e == onDisk[f]
  <2>1. e \in IndexEntry /\ Whole(published[f], e) /\ (OfAnswer(published[f], e) \/ ~e.intact)
    BY DEF DiskSound
  <2>2. CASE kind = "lnm"
    BY <2>1, <2>2 DEF Loaded, LnmLoaded
  <2>3. CASE kind = "coops" /\ Cardinality(e.records) = e.count
    <3>1. e.intact
      BY <2>1, <2>3 DEF Whole, IndexEntry
    <3> QED BY <2>1, <2>3, <3>1 DEF Loaded, CoopsLoaded
  <2>4. CASE kind = "coops" /\ Cardinality(e.records) # e.count
    <3>1. Loaded(e) = [e EXCEPT !.validator = 0] /\ Loaded(e) \in IndexEntry
      BY <2>1, <2>4 DEF Loaded, CoopsLoaded, IndexEntry
    <3>2. /\ Loaded(e).records = e.records /\ Loaded(e).count = e.count
          /\ Loaded(e).intact = e.intact /\ Loaded(e).validator = 0
      BY <2>1, <3>1 DEF IndexEntry
    <3>3. Len(published[f]) \in Nat => Whole(published[f], Loaded(e))
      BY <2>1, <3>1, <3>2 DEF Whole
    <3>4. OfAnswer(published[f], Loaded(e))
      BY <3>2 DEF OfAnswer
    <3>5. 0 <= Len(published[f])
      BY <2>1 DEF Whole, IndexEntry
    <3> QED BY <2>1, <3>1, <3>2, <3>4, <3>5 DEF Whole
  <2> QED BY <1>1, <2>2, <2>3, <2>4
<1> DEFINE loaded == [f \in DOMAIN onDisk |-> Loaded(onDisk[f])]
<1>3. DOMAIN loaded = DOMAIN onDisk /\ \A f \in DOMAIN onDisk : loaded[f] = Loaded(onDisk[f])
  OBVIOUS
<1>4. loaded \in [DOMAIN onDisk -> IndexEntry] /\ DOMAIN onDisk \subseteq Families
  BY <1>2 DEF DiskSound
<1> HIDE DEF loaded
<1>5. HeldSound(loaded, published, kind)
  BY <1>2, <1>3, <1>4 DEF HeldSound
<1> QED BY <1>5 DEF loaded

LEMMA IndexInvInit == IndexInit => IndexInv
<1> SUFFICES ASSUME IndexInit PROVE IndexInv
  OBVIOUS
<1>1. <<{}>> \in Seq(Answers) /\ Len(<<{}>>) = 1
  BY DEF Answers
<1>2. \A index : index = <<>> => HeldSound(index, published, kind) /\ DiskSound(index, published)
  BY DEF HeldSound, DiskSound
<1>3. published \in [Families -> Seq(Answers)] /\ \A f \in Families : Len(published[f]) >= 1
  BY <1>1 DEF IndexInit
<1>4. HeldSound(held, published, kind) /\ DiskSound(onDisk, published) /\ DOMAIN held = {}
  BY <1>2 DEF IndexInit, HeldSound, DiskSound
<1> QED BY <1>3, <1>4 DEF IndexInit, IndexInv

LEMMA IndexPublishKeeps ==
    ASSUME IndexInv, NEW f \in Families, PublishFamily(f)
    PROVE  IndexInv'
<1>1. PICK list \in SUBSET (Records \cup {Unusable}) :
        published' = [published EXCEPT ![f] = Append(@, list)]
  BY DEF PublishFamily
<1>2. list \in Answers
  BY DEF Answers
<1>3. /\ published' \in [Families -> Seq(Answers)]
      /\ \A g \in Families : /\ published[g] \in Seq(Answers)
                             /\ Len(published'[g]) >= 1
                             /\ published'[g] = IF g = f THEN Append(published[g], list) ELSE published[g]
  BY <1>1, <1>2 DEF IndexInv
<1>4. HeldSound(held, published', kind)
  BY <1>2, <1>3, WholeGrows DEF IndexInv, HeldSound
<1>5. DiskSound(onDisk, published')
  BY ZenonT(30), <1>2, <1>3, WholeGrows DEF IndexInv, DiskSound
<1>6. UNCHANGED <<kind, onDisk, held, dirty, running, enabled, refresh, left, writing>>
  BY DEF PublishFamily
<1> QED BY <1>3, <1>4, <1>5, <1>6 DEF IndexInv

LEMMA DamageKeeps ==
    ASSUME IndexInv, NEW f \in Families, Damage(f)
    PROVE  IndexInv'
<1>1. PICK r \in onDisk[f].records :
        onDisk' = [onDisk EXCEPT ![f].records = @ \ {r}, ![f].intact = FALSE]
  BY DEF Damage
<1>2. ~running /\ f \in DOMAIN onDisk /\ onDisk \in [DOMAIN onDisk -> IndexEntry]
  BY DEF Damage, IndexInv, DiskSound
<1> DEFINE e == onDisk[f]  d == onDisk'[f]
<1>3. e \in IndexEntry /\ Whole(published[f], e)
  BY <1>2 DEF IndexInv, DiskSound
<1>4. /\ DOMAIN onDisk' = DOMAIN onDisk /\ d.records = e.records \ {r} /\ d.count = e.count
      /\ d.validator = e.validator /\ d.intact = FALSE /\ d \in IndexEntry
      /\ \A g \in DOMAIN onDisk \ {f} : onDisk'[g] = onDisk[g]
      /\ onDisk' \in [DOMAIN onDisk -> IndexEntry]
  BY <1>1, <1>2, <1>3 DEF IndexEntry
<1>5. Cardinality(d.records) < Cardinality(e.records) /\ Cardinality(e.records) <= e.count
  <2>1. IsFiniteSet(e.records) /\ Cardinality(e.records) \in Nat /\ r \in e.records
    BY <1>1, <1>3, PartsFinite DEF IndexEntry
  <2>2. Cardinality(e.records \ {r}) = Cardinality(e.records) - 1
    BY <2>1, FS_RemoveElement
  <2>3. Cardinality(e.records) <= e.count
    BY <1>3, <2>1 DEF Whole, IndexEntry
  <2> QED BY <1>4, <2>1, <2>2, <2>3
<1>6. Cardinality(d.records) < e.count
  BY <1>3, <1>4, <1>5, PartsFinite DEF IndexEntry
<1>7. Whole(published[f], d)
  BY <1>3, <1>4, <1>6 DEF Whole
<1>8. DiskSound(onDisk', published)
  BY <1>2, <1>4, <1>7 DEF DiskSound, IndexInv
<1> QED BY <1>2, <1>8 DEF IndexInv, Damage

LEMMA IndexUpsertKeeps ==
    ASSUME IndexInv, NEW f \in Families, Downloaded(f)
    PROVE  IndexInv'
<1> DEFINE taken == Last(published[f]) \ {Unusable}
<1>1. kind \in {"coops", "lnm"} /\ published[f] \in Seq(Answers) /\ Len(published[f]) >= 1
      /\ refresh = "downloading"
  BY IndexAssumption DEF IndexInv, Downloaded
<1>0. left' = left \ {f} /\ UNCHANGED <<kind, published, onDisk, running, enabled, refresh, writing>>
  BY DEF Downloaded
<1>2. PICK validator \in {0, Len(published[f])} :
        IF kind = "coops" THEN CoopsUpsert(f, taken, validator) ELSE LnmUpsert(f, taken, validator)
  BY <1>1 DEF Downloaded, Parsed, CoopsParsed, LnmParsed
<1>3. /\ taken \in SUBSET Records /\ WholeAnswer(taken, validator) \in IndexEntry
      /\ Whole(published[f], WholeAnswer(taken, validator))
      /\ OfAnswer(published[f], WholeAnswer(taken, validator))
  BY <1>1, AnswerWhole
<1>4. Len(published[f]) \in DOMAIN published[f] /\ taken = published[f][Len(published[f])] \ {Unusable}
  BY <1>1 DEF Last
<1> HIDE DEF taken
<1>5. CASE held' = With(held, f, WholeAnswer(taken, validator)) /\ dirty' = TRUE
  <2>1. HeldSound(held', published, kind)
    BY <1>3, <1>5, WithKeeps DEF IndexInv
  <2> QED BY <1>0, <1>1, <1>5, <2>1 DEF IndexInv
<1>6. CASE /\ f \in DOMAIN held /\ held[f].records = taken
           /\ held' = [held EXCEPT ![f].validator = validator]
           /\ dirty' = (dirty \/ held[f].validator # validator)
  <2>1. /\ held \in [DOMAIN held -> IndexEntry] /\ Whole(published[f], held[f]) /\ validator \in Nat
        /\ validator <= Len(published[f])
    BY <1>1, <1>6 DEF IndexInv, HeldSound
  <2>2. /\ held' \in [DOMAIN held -> IndexEntry]
        /\ \A g \in DOMAIN held \ {f} : held'[g] = held[g]
        /\ held'[f].records = taken /\ held'[f].validator = validator
        /\ held'[f].count = held[f].count /\ held'[f].intact = held[f].intact
        /\ held'[f] \in IndexEntry
    BY <1>6, <2>1 DEF IndexEntry
  <2>3. Whole(published[f], held'[f])
    <3>1. validator # 0 => held'[f].records \subseteq published[f][validator] \ {Unusable}
      BY <1>4, <2>2
    <3> QED BY <1>6, <2>1, <2>2, <3>1 DEF Whole
  <2>4. OfAnswer(published[f], held'[f])
    BY <1>4, <2>2 DEF OfAnswer
  <2>5. HeldSound(held', published, kind)
    BY <2>2, <2>3, <2>4 DEF HeldSound, IndexInv
  <2>6. dirty' \in BOOLEAN /\ (~dirty' => ~dirty /\ held[f].validator = validator)
    BY <1>6
  <2>7. held[f].validator = validator => held' = held
    BY <1>6, <2>1, <2>2 DEF IndexEntry
  <2> QED BY <1>0, <1>1, <2>5, <2>6, <2>7 DEF IndexInv
<1> QED BY <1>1, <1>2, <1>5, <1>6 DEF CoopsUpsert, LnmUpsert

LEMMA RefreshKeeps == ASSUME IndexInv, BeginRefresh PROVE IndexInv'
<1> DEFINE gone == Families \ enabled
<1>1. /\ kind \in {"coops", "lnm"} /\ refresh = "idle" /\ running /\ writing = <<>>
      /\ UNCHANGED <<kind, published, onDisk, running, enabled>>
  BY IndexAssumption DEF IndexInv, BeginRefresh, MayRefresh
<1>2. held' = Without(held, gone)
  BY DEF BeginRefresh, CoopsPruned, LnmPruned
<1>3. HeldSound(held', published, kind)
  BY <1>2, WithoutKeeps DEF IndexInv
<1>4. dirty' \in BOOLEAN /\ (~dirty' => ~dirty /\ held' = held)
  BY DEF BeginRefresh
<1>5. /\ left' \subseteq Families
      /\ \/ refresh' = "writing" /\ writing' = held'
         \/ refresh' \in {"idle", "downloading"} /\ writing' = writing
  <2>1. CASE enabled = {} /\ FlushIndex(dirty') /\ UNCHANGED left
    BY <2>1 DEF FlushIndex, IndexInv
  <2>2. CASE enabled # {} /\ refresh' = "downloading" /\ left' = enabled /\ UNCHANGED writing
    BY <2>2 DEF IndexInv
  <2>3. CASE enabled # {} /\ UNCHANGED <<refresh, left, writing>>
    BY <1>1, <2>3 DEF IndexInv
  <2> QED BY <2>1, <2>2, <2>3 DEF BeginRefresh
<1> QED BY <1>1, <1>3, <1>4, <1>5 DEF IndexInv

LEMMA IndexInvStep == IndexInv /\ [IndexNext]_indexVars => IndexInv'
<1> SUFFICES ASSUME IndexInv, [IndexNext]_indexVars PROVE IndexInv'
  OBVIOUS
<1>1. CASE StartIndex
  <2>1. /\ ~running /\ running' = TRUE /\ enabled' \subseteq Families
        /\ held' = [f \in DOMAIN onDisk |-> Loaded(onDisk[f])]
        /\ dirty' = (held' # onDisk) /\ refresh' = "idle" /\ left' = {}
        /\ UNCHANGED <<kind, published, onDisk, writing>>
    BY <1>1 DEF StartIndex
  <2>2. HeldSound(held', published, kind)
    BY <2>1, IndexLoadKeeps DEF IndexInv
  <2>3. writing = <<>>
    BY <2>1 DEF IndexInv
  <2> QED BY <2>1, <2>2, <2>3 DEF IndexInv
<1>2. CASE StopIndex
  <2>1. DOMAIN held' = {} /\ HeldSound(held', published, kind)
    BY <1>2 DEF StopIndex, HeldSound
  <2> QED BY <1>2, <2>1 DEF StopIndex, IndexInv
<1>3. CASE BeginRefresh
  BY <1>3, RefreshKeeps
<1>4. CASE EndDownloads
  BY <1>4 DEF EndDownloads, FlushIndex, IndexInv
<1>5. CASE Commit
  <2>1. refresh = "writing" /\ writing = held /\ onDisk' = held
    BY <1>5 DEF Commit, IndexInv
  <2>2. DiskSound(onDisk', published)
    BY <2>1 DEF IndexInv, HeldSound, DiskSound
  <2> QED BY <1>5, <2>1, <2>2 DEF Commit, AfterWrite, IndexInv
<1>6. CASE IndexWriteFails
  BY <1>6 DEF IndexWriteFails, IndexInv
<1>7. ASSUME NEW f \in Families, PublishFamily(f) PROVE IndexInv'
  BY <1>7, IndexPublishKeeps
<1>8. ASSUME NEW f \in Families, Damage(f) PROVE IndexInv'
  BY <1>8, DamageKeeps
<1>9. ASSUME NEW f \in Families, Downloaded(f) PROVE IndexInv'
  BY <1>9, IndexUpsertKeeps
<1>10. ASSUME NEW f \in Families, NotTaken(f) PROVE IndexInv'
  BY <1>10 DEF NotTaken, IndexInv
<1>11. CASE UNCHANGED indexVars
  BY <1>11 DEF indexVars, IndexInv
<1> QED
  BY <1>1, <1>2, <1>3, <1>4, <1>5, <1>6, <1>7, <1>8, <1>9, <1>10, <1>11 DEF IndexNext

LEMMA IndexInvHonest == IndexInv => IndexHonest
<1> SUFFICES ASSUME IndexInv, running, NEW f \in DOMAIN held
             PROVE  /\ held[f].intact =>
                          \E v \in DOMAIN published[f] : held[f].records = Parsed(published[f][v])
                    /\ held[f].validator # 0 =>
                          IF LostOnLoad(f)
                            THEN held[f].records \subseteq Parsed(published[f][held[f].validator])
                            ELSE held[f].records = Parsed(published[f][held[f].validator])
  BY DEF IndexHonest, IndexInv
<1>1. Whole(published[f], held[f])
  BY DEF IndexInv, HeldSound
<1>2. OfAnswer(published[f], held[f]) \/ LostOnLoad(f)
  BY DEF IndexInv, HeldSound, LostOnLoad
<1>3. \A list : Parsed(list) = list \ {Unusable}
  BY DEF Parsed, CoopsParsed, LnmParsed
<1> QED BY <1>1, <1>2, <1>3 DEF Whole, OfAnswer

NeverBlankedStep ==
    \A f \in DOMAIN held \cap DOMAIN held' :
       running' /\ held[f].records # {} /\ held'[f].records = {} => Last(published[f]) = {}

LEMMA NeverBlanked == IndexInv /\ [IndexNext]_indexVars => [NeverBlankedStep]_indexVars
<1> SUFFICES ASSUME IndexInv, IndexNext, NEW g \in DOMAIN held \cap DOMAIN held',
                    running', held[g].records # {}, held'[g].records = {}
             PROVE  Last(published[g]) = {}
  BY DEF NeverBlankedStep
<1>1. CASE StartIndex
  BY <1>1 DEF StartIndex, IndexInv
<1>2. CASE StopIndex
  BY <1>2 DEF StopIndex
<1>3. CASE BeginRefresh
  <2>1. held' = Without(held, Families \ enabled)
    BY <1>3 DEF BeginRefresh, CoopsPruned, LnmPruned
  <2>2. held'[g] = held[g]
    BY <2>1 DEF Without
  <2> QED BY <2>2
<1>4. CASE UNCHANGED held
  BY <1>4
<1>5. ASSUME NEW f \in Families, Downloaded(f) PROVE Last(published[g]) = {}
  <2> DEFINE taken == Last(published[f]) \ {Unusable}
  <2>1. PICK validator \in {0, Len(published[f])} :
          IF kind = "coops" THEN CoopsUpsert(f, taken, validator) ELSE LnmUpsert(f, taken, validator)
    BY <1>5 DEF Downloaded, Parsed, CoopsParsed, LnmParsed
  <2>2. Last(published[f]) = {} \/ taken # {}
    BY <1>5 DEF Downloaded, Accepts, CoopsAccepts, LnmAccepts
  <2> HIDE DEF taken
  <2>3. held \in [DOMAIN held -> IndexEntry]
    BY DEF IndexInv, HeldSound
  <2>4. CASE held' = With(held, f, WholeAnswer(taken, validator))
    <3>1. CASE g = f
      <4>1. held'[g].records = taken
        BY <2>4, <3>1 DEF With, WholeAnswer
      <4> QED BY <2>2, <3>1, <4>1
    <3>2. CASE g # f
      BY <2>4, <3>2 DEF With
    <3> QED BY <3>1, <3>2
  <2>5. CASE held' = [held EXCEPT ![f].validator = validator]
    <3>1. held'[g].records = held[g].records
      BY <2>3, <2>5 DEF IndexEntry
    <3> QED BY <3>1
  <2> QED BY <2>1, <2>4, <2>5 DEF CoopsUpsert, LnmUpsert
<1>6. CASE EndDownloads \/ Commit \/ IndexWriteFails
  BY <1>4, <1>6 DEF EndDownloads, Commit, IndexWriteFails
<1>7. ASSUME NEW f \in Families, PublishFamily(f) \/ Damage(f) \/ NotTaken(f)
      PROVE  Last(published[g]) = {}
  BY <1>4, <1>7 DEF PublishFamily, Damage, NotTaken
<1> QED BY <1>1, <1>2, <1>3, <1>5, <1>6, <1>7 DEF IndexNext

\* Whatever is published, cut or crashes, what is held of a family is one answer of
\* upstream's, whole, the validator sent is of just that answer, an index that needs no
\* write is on the disk, and no family is emptied but by an empty list; but of an LNM
\* file cut on the disk only a part of the answer is held, under the validator of the
\* whole (coops-store.ts and lnm-store.ts load, upsert, prune and flush;
\* downloadStations and downloadLayerPage), for any families, records and number of
\* answers.
THEOREM IndexStaysHonest == IndexSpec => IndexKept
<1>1. IndexInit => IndexInv
  BY IndexInvInit
<1>2. IndexInv /\ [IndexNext]_indexVars => IndexInv'
  BY IndexInvStep
<1>3. IndexInv => IndexHonest
  BY IndexInvHonest
<1>4. IndexInv /\ [IndexNext]_indexVars => [NeverBlankedStep]_indexVars
  BY NeverBlanked
<1> QED BY <1>1, <1>2, <1>3, <1>4, PTL DEF IndexSpec, IndexKept, FamilyNeverBlanked, NeverBlankedStep

-----------------------------------------------------------------------------
(* The file of a detail store. *)

\* No record is named twice.
NamedOnce(entries) == \A i, j \in DOMAIN entries : entries[i].record = entries[j].record => i = j

Listable == {entries \in Seq(Entries) : NamedOnce(entries)}

\* A run has a write scheduled only while it is open; and what an open run has been given
\* is on the disk, or is scheduled to be, or could not be written.
DetailStoreInv ==
    /\ run \in Runs /\ up \in BOOLEAN
    /\ timer \subseteq OpenRuns /\ failed \subseteq 1..run
    /\ mirror \in [Runs -> Listable]
    /\ file \in [by : 0..MaxRuns, entries : Listable] /\ Len(file.entries) <= MaxEntries
    /\ up /\ run \notin timer \cup failed => Range(mirror[run]) \subseteq Range(file.entries)

\* A stretch of a sequence, and two of them joined.
LEMMA StretchShape ==
    ASSUME NEW S, NEW s \in Seq(S), NEW k \in Nat, NEW m \in Nat, k <= m, m <= Len(s)
    PROVE  /\ SubSeq(s, k + 1, m) \in Seq(S) /\ Len(SubSeq(s, k + 1, m)) = m - k
           /\ \A i \in 1..(m - k) : SubSeq(s, k + 1, m)[i] = s[k + i]
<1>1. \A i \in (k + 1)..m : s[i] \in S
  OBVIOUS
<1>2. SubSeq(s, k + 1, m) = [i \in 1..(m - k) |-> s[k + i]]
  OBVIOUS
<1> QED BY <1>1, <1>2

LEMMA JoinShape ==
    ASSUME NEW S, NEW s \in Seq(S), NEW t \in Seq(S)
    PROVE  /\ s \o t \in Seq(S) /\ Len(s \o t) = Len(s) + Len(t)
           /\ \A i \in 1..(Len(s) + Len(t)) :
                 (s \o t)[i] = IF i <= Len(s) THEN s[i] ELSE t[i - Len(s)]
OBVIOUS

\* The last entries of a list.
LEMMA LastEntries ==
    ASSUME NEW entries \in Listable, NEW k \in 0..Len(entries)
    PROVE  LET rest == SubSeq(entries, k + 1, Len(entries)) IN
           /\ rest \in Listable /\ Len(rest) = Len(entries) - k
           /\ Range(rest) \subseteq Range(entries) /\ IsSuffix(rest, entries)
<1> DEFINE n == Len(entries)
           rest == SubSeq(entries, k + 1, n)
<1>1. entries \in Seq(Entries) /\ n \in Nat /\ DOMAIN entries = 1..n /\ NamedOnce(entries)
  BY DEF Listable
<1>2. /\ rest \in Seq(Entries) /\ Len(rest) = n - k /\ DOMAIN rest = 1..(n - k)
      /\ \A i \in 1..(n - k) : rest[i] = entries[k + i]
  <2>1. k \in Nat /\ k <= n /\ n <= Len(entries)
    BY <1>1
  <2>2. rest \in Seq(Entries) /\ Len(rest) = n - k /\ \A i \in 1..(n - k) : rest[i] = entries[k + i]
    BY <1>1, <2>1, StretchShape
  <2> QED BY <2>2
<1> HIDE DEF rest
<1>3. NamedOnce(rest)
  <2> SUFFICES ASSUME NEW i \in 1..(n - k), NEW j \in 1..(n - k), rest[i].record = rest[j].record
               PROVE  i = j
    BY <1>2 DEF NamedOnce
  <2>1. k + i \in 1..n /\ k + j \in 1..n
    BY <1>1
  <2>2. entries[k + i].record = entries[k + j].record
    BY <1>2
  <2>3. k + i = k + j
    BY <1>1, <2>1, <2>2 DEF NamedOnce
  <2> QED BY <1>1, <2>3
<1>4. Range(rest) \subseteq Range(entries)
  BY <1>1, <1>2 DEF Range
<1>5. IsSuffix(rest, entries)
  <2>1. /\ Reverse(rest) = [i \in 1..(n - k) |-> rest[(n - k - i) + 1]]
        /\ Reverse(entries) = [i \in 1..n |-> entries[(n - i) + 1]]
    BY <1>2 DEF Reverse
  <2>2. \A i \in 1..(n - k) : rest[(n - k - i) + 1] = entries[(n - i) + 1]
    <3> TAKE i \in 1..(n - k)
    <3>1. (n - k - i) + 1 \in 1..(n - k) /\ k + ((n - k - i) + 1) = (n - i) + 1
      BY <1>1
    <3> QED BY <1>2, <3>1
  <2>3. \A i \in 1..(n - k) : rest[(n - k - i) + 1] \in Entries
    BY <1>1, <1>2
  <2>4. \A i \in 1..n : entries[(n - i) + 1] \in Entries
    BY <1>1
  <2>5. /\ Reverse(rest) \in Seq(Entries) /\ Len(Reverse(rest)) = n - k
        /\ Reverse(entries) \in Seq(Entries) /\ Len(Reverse(entries)) = n
        /\ \A i \in 1..(n - k) : Reverse(rest)[i] = Reverse(entries)[i]
    BY <1>1, <2>1, <2>2, <2>3, <2>4
  <2>6. SubSeq(Reverse(rest), 1, n - k) = [i \in 1..(n - k) |-> Reverse(rest)[i]]
    BY <1>1, <2>5
  <2>7. SubSeq(Reverse(entries), 1, n - k) = [i \in 1..(n - k) |-> Reverse(entries)[i]]
    BY <1>1, <2>5
  <2> QED BY <1>1, <2>5, <2>6, <2>7 DEF IsSuffix, IsPrefix
<1> QED BY <1>2, <1>3, <1>4, <1>5 DEF Listable, rest

LEMMA PrunedEntries ==
    ASSUME NEW entries \in Listable
    PROVE  /\ PruneToCap(entries) \in Listable /\ Len(PruneToCap(entries)) <= MaxEntries
           /\ IsSuffix(PruneToCap(entries), entries)
           /\ PruneToCap(entries) = entries \/ Len(PruneToCap(entries)) = MaxEntries
<1>1. Len(entries) \in Nat /\ entries \in Seq(Entries) /\ MaxEntries \in Nat
  BY DetailStoreAssumption DEF Listable
<1>2. CASE Len(entries) <= MaxEntries
  <2>1. SubSeq(entries, 0 + 1, Len(entries)) = entries
    BY <1>1
  <2>2. 0 \in 0..Len(entries)
    BY <1>1
  <2>3. IsSuffix(SubSeq(entries, 0 + 1, Len(entries)), entries)
    BY <2>2, LastEntries
  <2> QED BY <1>2, <2>1, <2>3 DEF PruneToCap
<1>3. CASE Len(entries) > MaxEntries
  <2> DEFINE k == Len(entries) - MaxEntries
  <2>1. k \in 0..Len(entries) /\ PruneToCap(entries) = SubSeq(entries, k + 1, Len(entries))
        /\ Len(entries) - k = MaxEntries
    BY <1>1, <1>3 DEF PruneToCap
  <2> HIDE DEF k
  <2> QED BY <1>1, <2>1, LastEntries
<1> QED BY <1>1, <1>2, <1>3

\* The entry of a record is dropped.
LEMMA DroppedEntries ==
    ASSUME NEW entries \in Listable, NEW record
    PROVE  /\ Dropped(entries, record) \in Listable
           /\ \A i \in DOMAIN Dropped(entries, record) : Dropped(entries, record)[i].record # record
<1> DEFINE n == Len(entries)
           at == {i \in DOMAIN entries : entries[i].record = record}
<1>1. entries \in Seq(Entries) /\ n \in Nat /\ DOMAIN entries = 1..n /\ NamedOnce(entries)
  BY DEF Listable
<1>2. CASE at = {}
  BY <1>1, <1>2 DEF Dropped
<1>3. CASE at # {}
  <2> DEFINE k == CHOOSE i \in at : TRUE
             rest == RemoveAt(entries, k)
  <2>1. k \in 1..n /\ entries[k].record = record
    BY <1>1, <1>3
  <2> HIDE DEF k
  <2>2. /\ rest \in Seq(Entries) /\ Len(rest) = n - 1 /\ DOMAIN rest = 1..(n - 1)
        /\ \A i \in 1..(n - 1) : rest[i] = IF i < k THEN entries[i] ELSE entries[i + 1]
    <3> DEFINE a == SubSeq(entries, 1, k - 1)
               b == SubSeq(entries, k + 1, n)
    <3>1. a \in Seq(Entries) /\ Len(a) = k - 1 /\ \A i \in 1..(k - 1) : a[i] = entries[i]
      <4>1. 0 \in Nat /\ k - 1 \in Nat /\ 0 <= k - 1 /\ k - 1 <= n /\ 0 + 1 = 1 /\ (k - 1) - 0 = k - 1
        BY <1>1, <2>1
      <4>2. \A i \in 1..(k - 1) : 0 + i = i
        OBVIOUS
      <4> QED BY <1>1, <4>1, <4>2, StretchShape
    <3>2. b \in Seq(Entries) /\ Len(b) = n - k /\ \A i \in 1..(n - k) : b[i] = entries[k + i]
      <4>1. k \in Nat /\ k <= n
        BY <1>1, <2>1
      <4> QED BY <1>1, <4>1, StretchShape
    <3> HIDE DEF a, b
    <3>3. /\ a \o b \in Seq(Entries) /\ Len(a \o b) = Len(a) + Len(b)
          /\ \A i \in 1..(Len(a) + Len(b)) :
                (a \o b)[i] = IF i <= Len(a) THEN a[i] ELSE b[i - Len(a)]
      BY <3>1, <3>2, JoinShape
    <3>4. /\ Len(a \o b) = n - 1
          /\ \A i \in 1..(n - 1) : (a \o b)[i] = IF i <= k - 1 THEN a[i] ELSE b[i - (k - 1)]
      <4>1. Len(a) + Len(b) = n - 1
        BY <1>1, <2>1, <3>1, <3>2
      <4> QED BY <3>1, <3>3, <4>1
    <3>5. \A i \in 1..(n - 1) : (a \o b)[i] = IF i < k THEN entries[i] ELSE entries[i + 1]
      <4> TAKE i \in 1..(n - 1)
      <4>1. CASE i < k
        BY <1>1, <2>1, <3>1, <3>4, <4>1
      <4>2. CASE i >= k
        <5>1. i - (k - 1) \in 1..(n - k) /\ k + (i - (k - 1)) = i + 1 /\ ~(i <= k - 1)
          BY <1>1, <2>1, <4>2
        <5>2. (a \o b)[i] = b[i - (k - 1)]
          BY <3>4, <5>1
        <5>3. b[i - (k - 1)] = entries[k + (i - (k - 1))]
          BY <3>2, <5>1
        <5>4. (a \o b)[i] = entries[i + 1]
          BY <5>1, <5>2, <5>3
        <5>5. ~(i < k)
          BY <2>1, <4>2
        <5> QED BY <5>4, <5>5
      <4>3. i < k \/ i >= k
        BY <1>1, <2>1
      <4> QED BY <4>1, <4>2, <4>3
    <3>6. rest = a \o b
      BY DEF RemoveAt, a, b
    <3>7. a \o b \in Seq(Entries) /\ Len(a \o b) = n - 1 /\ DOMAIN (a \o b) = 1..(n - 1)
      BY <3>3, <3>4
    <3> QED BY <3>5, <3>6, <3>7
  <2> HIDE DEF rest
  <2>3. \A i \in 1..(n - 1) : \E j \in (1..n) \ {k} : rest[i] = entries[j] /\ j = IF i < k THEN i ELSE i + 1
    BY <1>1, <2>1, <2>2
  <2>4. NamedOnce(rest)
    <3> SUFFICES ASSUME NEW i \in 1..(n - 1), NEW j \in 1..(n - 1), rest[i].record = rest[j].record
                 PROVE  i = j
      BY <2>2 DEF NamedOnce
    <3>1. PICK x \in (1..n) \ {k} : rest[i] = entries[x] /\ x = IF i < k THEN i ELSE i + 1
      BY <2>3
    <3>2. PICK y \in (1..n) \ {k} : rest[j] = entries[y] /\ y = IF j < k THEN j ELSE j + 1
      BY <2>3
    <3>3. x = y
      BY <1>1, <3>1, <3>2 DEF NamedOnce
    <3> QED BY <1>1, <2>1, <3>1, <3>2, <3>3
  <2>5. \A i \in 1..(n - 1) : rest[i].record # record
    BY <1>1, <2>1, <2>3 DEF NamedOnce
  <2>6. Dropped(entries, record) = rest
    BY <1>3 DEF Dropped, rest, k
  <2> QED BY <2>2, <2>4, <2>5, <2>6 DEF Listable
<1> QED BY <1>2, <1>3

LEMMA StoredEntries ==
    ASSUME NEW entries \in Listable, NEW entry \in Entries
    PROVE  Stored(entries, entry) \in Listable
<1> DEFINE rest == Dropped(entries, entry.record)
           all == Append(rest, entry)
<1>1. /\ rest \in Seq(Entries) /\ NamedOnce(rest)
      /\ \A i \in DOMAIN rest : rest[i].record # entry.record
  BY DroppedEntries DEF Listable
<1> HIDE DEF rest
<1>2. /\ all \in Seq(Entries) /\ Len(rest) \in Nat /\ DOMAIN rest = 1..Len(rest)
      /\ DOMAIN all = 1..(Len(rest) + 1) /\ all[Len(rest) + 1] = entry
      /\ \A i \in 1..Len(rest) : all[i] = rest[i]
  BY <1>1
<1> HIDE DEF all
<1>3. NamedOnce(all)
  BY <1>1, <1>2 DEF NamedOnce
<1> QED BY <1>2, <1>3 DEF Listable, Stored, all, rest

\* A list made of a set of entries that name no record twice.
LEMMA ListedSet ==
    ASSUME NEW entries \in SUBSET Entries,
           Cardinality({e.record : e \in entries}) = Cardinality(entries)
    PROVE  SetToSeq(entries) \in Listable
<1> DEFINE n == Cardinality(entries)
           list == SetToSeq(entries)
           named == {e.record : e \in entries}
<1>1. IsFiniteSet(entries) /\ n \in Nat /\ ExistsBijection(1..n, entries)
  BY DetailStoreAssumption, FS_Subset, FS_CardinalityType
<1>2. \E f \in [1..n -> entries] : IsInjective(f)
  BY <1>1 DEF ExistsBijection, Bijection, Injection
<1>3. list \in [1..n -> entries] /\ IsInjective(list)
  BY <1>2 DEF SetToSeq
<1> HIDE DEF list
<1>4. list \in Seq(Entries) /\ DOMAIN list = 1..n
  BY <1>1, <1>3
<1>5. \A d, e \in entries : d.record = e.record => d = e
  <2> DEFINE name == [e \in entries |-> e.record]
  <2>1. name \in Surjection(entries, named)
    BY DEF Surjection
  <2>2. name \in Injection(entries, named)
    BY <1>1, <2>1, FS_Surjection
  <2> QED BY <2>2 DEF Injection, IsInjective
<1>6. NamedOnce(list)
  BY <1>3, <1>4, <1>5 DEF NamedOnce, IsInjective
<1> QED BY <1>4, <1>6 DEF Listable, list

\* A list names as many records as it has entries.
LEMMA NamesCounted ==
    ASSUME NEW entries \in Listable
    PROVE  Cardinality(Keys(entries)) = Len(entries)
<1> DEFINE n == Len(entries)
           name == [i \in 1..n |-> entries[i].record]
<1>1. n \in Nat /\ DOMAIN entries = 1..n /\ NamedOnce(entries)
  BY DEF Listable
<1>2. name \in Bijection(1..n, Keys(entries))
  BY <1>1 DEF Bijection, Injection, Surjection, IsInjective, NamedOnce, Keys
<1> QED BY <1>1, <1>2, FS_CountingElements DEF ExistsBijection

LEMMA EmptyListable == <<>> \in Listable /\ Range(<<>>) = {} /\ Len(<<>>) = 0
BY DEF Listable, NamedOnce, Range

LEMMA DetailStoreInvInit == StoreInit => DetailStoreInv
BY EmptyListable, DetailStoreAssumption DEF StoreInit, DetailStoreInv, Runs, Unreadable, OpenRuns

\* A write brings the file up to date with the run that is open, or fails.
LEMMA WriteKeeps ==
    ASSUME DetailStoreInv, NEW ok \in BOOLEAN, run \in timer, WriteFile(run, ok)
    PROVE  /\ mirror' \in [Runs -> Listable] /\ failed' \subseteq 1..run
           /\ file' \in [by : 0..MaxRuns, entries : Listable] /\ Len(file'.entries) <= MaxEntries
           /\ run \notin failed' => Range(mirror'[run]) \subseteq Range(file'.entries)
           /\ file' # file => /\ file'.by = run /\ file'.entries = mirror'[run]
                              /\ IsSuffix(file'.entries, mirror[run])
                              /\ \/ file'.entries = mirror[run]
                                 \/ Len(file'.entries) = MaxEntries
<1> DEFINE list == PruneToCap(mirror[run])
<1>1. /\ run \in Runs /\ mirror \in [Runs -> Listable] /\ mirror[run] \in Listable
      /\ failed \subseteq 1..run /\ run \in 1..run /\ run \in 0..MaxRuns
      /\ file \in [by : 0..MaxRuns, entries : Listable] /\ Len(file.entries) <= MaxEntries
  BY DetailStoreAssumption DEF DetailStoreInv, Runs
<1>2. /\ list \in Listable /\ Len(list) <= MaxEntries /\ IsSuffix(list, mirror[run])
      /\ list = mirror[run] \/ Len(list) = MaxEntries
  BY <1>1, PrunedEntries
<1>3. /\ mirror' = [mirror EXCEPT ![run] = list]
      /\ file' = IF ok THEN [by |-> run, entries |-> list] ELSE file
      /\ failed' = IF ok THEN failed \ {run} ELSE failed \cup {run}
  BY DEF WriteFile
<1> HIDE DEF list
<1>4. mirror'[run] = list /\ mirror' \in [Runs -> Listable]
  BY <1>1, <1>2, <1>3
<1>5. CASE ok
  <2>1. file' = [by |-> run, entries |-> list] /\ failed' = failed \ {run}
    BY <1>3, <1>5
  <2>2. file'.by = run /\ file'.entries = list /\ file' \in [by : 0..MaxRuns, entries : Listable]
    BY <1>1, <1>2, <2>1
  <2> QED BY <1>1, <1>2, <1>4, <2>1, <2>2
<1>6. CASE ~ok
  BY <1>1, <1>3, <1>4, <1>6
<1> QED BY <1>5, <1>6

LEMMA DetailStoreInvStep == DetailStoreInv /\ [StoreNext]_detailStoreVars => DetailStoreInv'
<1> SUFFICES ASSUME DetailStoreInv, [StoreNext]_detailStoreVars PROVE DetailStoreInv'
  OBVIOUS
<1>0. /\ run \in Runs /\ up \in BOOLEAN /\ timer \subseteq OpenRuns /\ failed \subseteq 1..run
      /\ mirror \in [Runs -> Listable] /\ mirror[run] \in Listable
      /\ file \in [by : 0..MaxRuns, entries : Listable] /\ Len(file.entries) <= MaxEntries
      /\ OpenRuns \subseteq {run} /\ run \in Nat /\ MaxRuns \in Nat
      /\ up /\ run \notin timer \cup failed => Range(mirror[run]) \subseteq Range(file.entries)
  BY DetailStoreAssumption DEF DetailStoreInv, Runs, OpenRuns
<1>1. ASSUME NEW r \in 1..run, NEW entry \in Entries, Persist(r, entry) PROVE DetailStoreInv'
  <2>1. r = run /\ Stored(mirror[run], entry) \in Listable
    BY <1>0, <1>1, StoredEntries DEF Persist
  <2>2. mirror' \in [Runs -> Listable] /\ timer' = timer \cup {run} /\ run \in OpenRuns
    BY <1>0, <1>1, <2>1 DEF Persist
  <2> QED BY <1>0, <1>1, <2>1, <2>2 DEF DetailStoreInv, Persist, OpenRuns
<1>2. ASSUME NEW r \in 1..run, NEW entries \in SUBSET Entries, ReplaceSnapshot(r, entries)
      PROVE  DetailStoreInv'
  <2>1. r = run /\ SetToSeq(entries) \in Listable
    BY <1>0, <1>2, ListedSet DEF ReplaceSnapshot
  <2>2. mirror' \in [Runs -> Listable] /\ timer' = timer \cup {run} /\ run \in OpenRuns
    BY <1>0, <1>2, <2>1 DEF ReplaceSnapshot
  <2> QED BY <1>0, <1>2, <2>1, <2>2 DEF DetailStoreInv, ReplaceSnapshot, OpenRuns
<1>3. ASSUME NEW r \in 1..run, NEW ok \in BOOLEAN, Flush(r, ok) PROVE DetailStoreInv'
  <2>1. r = run /\ run \in timer /\ WriteFile(run, ok) /\ timer' = timer \ {run} /\ UNCHANGED <<run, up>>
    BY <1>0, <1>3 DEF Flush
  <2> QED BY <1>0, <2>1, WriteKeeps DEF DetailStoreInv, OpenRuns
<1>4. ASSUME NEW ok \in BOOLEAN, Close(ok) PROVE DetailStoreInv'
  <2>1. up' = FALSE /\ run' = run
    BY <1>4 DEF Close
  <2>2. CASE run \in timer
    <3>1. WriteFile(run, ok) /\ timer' = timer \ {run}
      BY <1>4, <2>2 DEF Close
    <3> QED BY <1>0, <2>1, <2>2, <3>1, WriteKeeps DEF DetailStoreInv, OpenRuns
  <2>3. CASE run \notin timer
    <3>1. UNCHANGED <<mirror, file, failed, timer>>
      BY <1>4, <2>3 DEF Close
    <3> QED BY <1>0, <2>1, <2>3, <3>1 DEF DetailStoreInv, OpenRuns
  <2> QED BY <2>2, <2>3
<1>5. CASE EndProcess
  <2>1. mirror' \in [Runs -> Listable] /\ file' = file
    BY <1>0, <1>5, EmptyListable DEF EndProcess, CutWrite
  <2> QED BY <1>0, <1>5, <2>1 DEF DetailStoreInv, EndProcess, OpenRuns
<1>6. CASE StartRun
  <2>1. PICK expired \in 0..Len(file.entries) :
          mirror' = [mirror EXCEPT ![run + 1] = SubSeq(file.entries, expired + 1, Len(file.entries))]
    BY <1>6 DEF StartRun
  <2> DEFINE rest == SubSeq(file.entries, expired + 1, Len(file.entries))
  <2>2. rest \in Listable /\ Range(rest) \subseteq Range(file.entries)
    BY <1>0, LastEntries
  <2>3. run + 1 \in Runs /\ run' = run + 1 /\ up' = TRUE /\ UNCHANGED <<timer, failed, file>> /\ ~up
    BY <1>0, <1>6 DEF StartRun, Runs
  <2> HIDE DEF rest
  <2>4. mirror' \in [Runs -> Listable] /\ mirror'[run + 1] = rest
    BY <1>0, <2>1, <2>2, <2>3 DEF rest
  <2>5. timer = {} /\ failed \subseteq 1..run'
    BY <1>0, <2>3 DEF OpenRuns
  <2> QED BY <1>0, <2>2, <2>3, <2>4, <2>5 DEF DetailStoreInv, OpenRuns
<1>7. CASE UNCHANGED detailStoreVars
  BY <1>0, <1>7 DEF detailStoreVars, DetailStoreInv, OpenRuns
<1> QED BY <1>1, <1>2, <1>3, <1>4, <1>5, <1>6, <1>7 DEF StoreNext

LEMMA DetailStoreInvSafe == DetailStoreInv => StoreSafe
<1> SUFFICES ASSUME DetailStoreInv PROVE StoreSafe
  OBVIOUS
<1>1. run \in Runs /\ OpenRuns \subseteq Runs /\ 1..run \subseteq Runs
  BY DetailStoreAssumption DEF DetailStoreInv, OpenRuns, Runs
<1>2. \A r \in Runs : mirror[r] \in Seq(Entries)
  BY DEF DetailStoreInv, Listable
<1>3. file.entries \in Listable /\ file.entries \in Seq(Entries)
  BY DEF DetailStoreInv, Listable
<1>4. StoreTypeOK
  BY <1>1, <1>2, <1>3 DEF DetailStoreInv, StoreTypeOK
<1>5. FileBounded
  BY <1>3, NamesCounted DEF DetailStoreInv, FileBounded
<1>6. NothingForgotten
  BY DEF DetailStoreInv, NothingForgotten
<1> QED BY <1>4, <1>5, <1>6 DEF StoreSafe

WholeWriteStep ==
    file' # file =>
       /\ file'.by = run
       /\ file'.by \in timer
       /\ file'.entries = mirror'[run]
       /\ IsSuffix(file'.entries, mirror[run])
       /\ \/ file'.entries = mirror[run]
          \/ Len(file'.entries) = MaxEntries

LEMMA WholeWrites == DetailStoreInv /\ [StoreNext]_detailStoreVars => [WholeWriteStep]_detailStoreVars
<1> SUFFICES ASSUME DetailStoreInv, StoreNext, file' # file PROVE WholeWriteStep
  BY DEF WholeWriteStep
<1>1. PICK ok \in BOOLEAN : run \in timer /\ WriteFile(run, ok)
  <2>1. ASSUME NEW r \in 1..run, NEW ok \in BOOLEAN, Flush(r, ok)
        PROVE  run \in timer /\ WriteFile(run, ok)
    BY <2>1 DEF Flush, DetailStoreInv, OpenRuns
  <2>2. ASSUME NEW ok \in BOOLEAN, Close(ok)
        PROVE  run \in timer /\ WriteFile(run, ok)
    BY <2>2 DEF Close
  <2>3. ~EndProcess /\ ~StartRun
    BY DEF EndProcess, StartRun, CutWrite
  <2>4. ASSUME NEW r \in 1..run
        PROVE  /\ \A entry \in Entries : ~Persist(r, entry)
               /\ \A entries \in SUBSET Entries : ~ReplaceSnapshot(r, entries)
    BY DEF Persist, ReplaceSnapshot
  <2> QED BY <2>1, <2>2, <2>3, <2>4 DEF StoreNext
<1> QED BY <1>1, WriteKeeps DEF WholeWriteStep

\* Over any number of runs that share the file, however often they are cut short: the
\* file is within its cap and names a record once, only a whole write of the run that
\* is open changes it, and what that run was given is on disk, scheduled, or failed
\* (detail-store.ts persist, replaceAll, flush, load and close, hydrated-detail-cache.ts
\* close), for any entries, cap and number of runs.
THEOREM FileStaysWhole == StoreSpec => StoreKept
<1>1. StoreInit => DetailStoreInv
  BY DetailStoreInvInit
<1>2. DetailStoreInv /\ [StoreNext]_detailStoreVars => DetailStoreInv'
  BY DetailStoreInvStep
<1>3. DetailStoreInv => StoreSafe
  BY DetailStoreInvSafe
<1>4. DetailStoreInv /\ [StoreNext]_detailStoreVars => [WholeWriteStep]_detailStoreVars
  BY WholeWrites
<1> QED BY <1>1, <1>2, <1>3, <1>4, PTL DEF StoreSpec, StoreKept, WritesAreWhole, WholeWriteStep
=============================================================================
