------------------------------- MODULE MCStores -------------------------------
(***************************************************************************)
(* What is kept on disk from one run of the plugin to the next: a run is   *)
(* one of                                                                  *)
(*   - the Light List store, two pinned pages and a retired one.  Pages    *)
(*     share no number, and each may be published anew with or without its *)
(*     record; or, for the doubtful case, a number may move between two;   *)
(*   - the index of CO-OPS or of the LNM pages, one family and two records *)
(*     of it, one of which an older version of the plugin cannot read;     *)
(*   - a detail store with room for two of three entries, over two runs;   *)
(*   - the cache before it, asked by three callers.                        *)
(* What a run does not move stays as it began.                             *)
(***************************************************************************)
EXTENDS LightListStore, IndexStore, DetailStore, PoiDetailCache

CONSTANTS p1, p2, p0, r1, r2, r0, f1, x, y, z, v, w, c1, c2, c3

MCTable == <<p1, p2>>
MCApart == [p \in {p1, p2, p0} |->
    CASE p = p1 -> {{}, {r1}} [] p = p2 -> {{r2}} [] p = p0 -> {{r0}}]
MCShared == [p \in {p1, p2, p0} |->
    CASE p = p1 -> {{}, {r1}} [] p = p2 -> {{r2}, {r1, r2}} [] p = p0 -> {{r0}}]

MCEntries == [record: {x}, value: {v, w}] \cup [record: {y, z}, value: {v}]

MCRecords == {<<"a", 1>>, <<"b", 1>>}

VARIABLE part   \* which of the four this run is

storesVars == <<part, vars, indexVars, detailStoreVars, detailVars>>

StoresInit ==
    /\ part \in {"lights", "index", "details", "cache"}
    /\ part # "index" => kind = "coops"
    /\ part # "cache" => kept = FALSE
    /\ Init
    /\ part # "lights" => \A p \in Pages : r1 \notin upstream[p].llnrs
    /\ IndexInit /\ StoreInit /\ DetailInit

Lights(step) == step /\ part = "lights" /\ UNCHANGED <<part, indexVars, detailStoreVars, detailVars>>

StoresNext ==
    \/ Lights(Next)
    \/ /\ \/ part = "index"   /\ IndexNext   /\ UNCHANGED <<detailStoreVars, detailVars>>
          \/ part = "details" /\ StoreNext   /\ UNCHANGED <<indexVars, detailVars>>
          \/ part = "cache"   /\ DetailNext  /\ UNCHANGED <<indexVars, detailStoreVars>>
       /\ UNCHANGED <<part, vars>>
    \* The runs of a detail store, and what its cache is asked, are bounded.
    \/ part \in {"details", "cache"} /\ UNCHANGED storesVars

\* The fairness of the Light List store.
StoresSpec ==
    /\ StoresInit /\ [][StoresNext]_storesVars
    /\ SF_storesVars(Lights(Refresh)) /\ WF_storesVars(Lights(Request))
    /\ WF_storesVars(Lights(BeginFlush)) /\ WF_storesVars(Lights(WriteIndex))
    /\ WF_storesVars(Lights(RemovePruned))
    /\ WF_storesVars(Lights(\E u \in writes : Rename(u)))
    /\ \A p \in Pinned : SF_storesVars(Lights(Answer(p)))

-----------------------------------------------------------------------------
\* Once the Light List is left alone, the store comes to hold what is published.
LightsConverge == part = "lights" => Converges
=============================================================================
