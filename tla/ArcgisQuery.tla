----------------------------- MODULE ArcgisQuery -----------------------------
(***************************************************************************)
(* Queries of one ArcGIS layer (inputs/arcgis-query.ts with its clients,   *)
(* enc-direct-client.ts and usace-client.ts): the identity of the layer is *)
(* verified once for the session, a box over the antimeridian is asked for *)
(* in two parts, each part is paged, and the parts are merged.  What the   *)
(* service holds is, per side of the antimeridian, the features it lists   *)
(* there in their order; one across the antimeridian is on both sides, and *)
(* all of them have an id, so that a feature is its id.  The service may   *)
(* be renumbered, unreachable, or answer with an error.                    *)
(***************************************************************************)
EXTENDS Integers, Sequences, SequencesExt

CONSTANTS
    Queries,        \* bound: each query is made once
    Features,
    Stored,         \* bound: what the service may hold: a sequence per side
    PageSize,       \* ARCGIS_PAGE_SIZE
    MaxPages        \* ARCGIS_MAX_PAGES

Sides == {"east", "west"}

\* A service lists each feature of a box once.
ASSUME ArcgisAssumption ==
    /\ PageSize \in Nat \ {0} /\ MaxPages \in Nat \ {0}
    /\ Stored \subseteq [Sides -> Seq(Features)]
    /\ \A held \in Stored : \A s \in Sides : \A i, j \in 1..Len(held[s]) :
          held[s][i] = held[s][j] => i = j

VARIABLES
    identity,   \* the shared check: "none", "asking", "matches", "mismatch" or "unnamed"
    renumbered, \* the pinned id is another layer's
    stored,     \* what the service holds
    query,      \* each query: "new", "checking", "paging", "resolved" or "rejected"
    paged,      \* per query and part: the pages and the features so far, and whether it is over
    faulted     \* history: queries a page of which was answered with an error

arcgisVars == <<identity, renumbered, stored, query, paged, faulted>>

NoPages == [pages |-> 0, features |-> <<>>, over |-> FALSE]

ArcgisInit ==
    /\ identity = "none" /\ renumbered \in BOOLEAN /\ stored \in Stored
    /\ query = [q \in Queries |-> "new"]
    /\ paged = [q \in Queries |-> [s \in Sides |-> NoPages]]
    /\ faulted = {}

\* What the parts of a query have come to, and the features of them: <<side, index>>.
Parts(q) == [s \in Sides |-> paged[q][s].features]
Places(parts) == UNION {{s} \X (1..Len(parts[s])) : s \in Sides}
At(parts, place) == parts[place[1]][place[2]]

\* The western part is gone through before the eastern, each in its order.
Precedes(a, b) == (a[1] = "west" /\ b[1] = "east") \/ (a[1] = b[1] /\ a[2] < b[2])

\* Fault: the parts are put together as they are.
Joined(parts) == Places(parts)

\* mergeArcgisFeatureSets: those that are kept; an id that was seen is left out.
MergeFeatureSets(parts) ==
    {b \in Places(parts) : ~\E a \in Places(parts) : Precedes(a, b) /\ At(parts, a) = At(parts, b)}

-----------------------------------------------------------------------------
\* queryLayer or queryById, up to the identity check, which the first one starts.
Query(q) ==
    /\ query[q] = "new"
    /\ identity' = IF identity = "none" THEN "asking" ELSE identity
    /\ query' = [query EXCEPT ![q] = "checking"]
    /\ UNCHANGED <<renumbered, stored, paged, faulted>>

\* The checks that reject, for the session.
Barred == {"mismatch", "unnamed"}

\* Fault: an unreachable service is taken for another layer.
FailClosed == identity' = "mismatch"

\* verifyArcGisLayerName: without its metadata a layer is taken for what it should be.
FailOpen == identity' = "matches"

\* verifyArcGisLayerName: the name of the layer tells, when its metadata can be had.
\* Metadata without a name, an error answer among them, is another layer's too.
Verify ==
    /\ identity = "asking"
    /\ \/ identity' = IF renumbered THEN "mismatch" ELSE "matches"
       \/ identity' = "unnamed"
       \/ FailOpen
    /\ UNCHANGED <<renumbered, stored, query, paged, faulted>>

\* ensureLayerIdentity settles for a query that awaits it.
Checked(q) ==
    /\ query[q] = "checking" /\ identity \in {"matches"} \cup Barred
    /\ query' = [query EXCEPT ![q] = IF identity \in Barred THEN "rejected" ELSE "paging"]
    /\ UNCHANGED <<identity, renumbered, stored, paged, faulted>>

\* Fault: the offset counts pages.
PageOffset(p) == PageSize * p.pages

\* arcgisPagedQuery: the next page begins behind what has come.
Offset(p) == Len(p.features)

\* Fault: a full page is taken for the last.
LastIfShort(sent, all) == sent < PageSize \/ all

\* Whether the part is over: no more is announced, or nothing came.
LastPage(sent, more) == ~more \/ sent = 0

\* arcgisEnvelopeParams: what the service holds of the part from an offset on.
Rest(side, offset) == SubSeq(stored[side], offset + 1, Len(stored[side]))

\* One page of one part.  A service may send less than a page, may announce more where
\* there is none, and answers an error with neither features nor announcement.
Page(q, side) ==
    LET p == paged[q][side]
        rest == Rest(side, Offset(p))
    IN /\ query[q] = "paging" /\ ~p.over
       /\ \E error, pinned \in BOOLEAN : \E n \in 0..PageSize :
             LET sent == IF error THEN 0 ELSE n
                 more == ~error /\ (pinned \/ n < Len(rest))
                 pages == p.pages + 1
                 over == LastPage(sent, more)
             IN /\ n <= Len(rest) /\ (n = 0 => error \/ rest = <<>>)
                /\ faulted' = IF error THEN faulted \cup {q} ELSE faulted
                /\ paged' = [paged EXCEPT ![q][side] =
                      [pages |-> pages, features |-> p.features \o SubSeq(rest, 1, sent), over |-> over]]
                /\ query' = [query EXCEPT ![q] =
                      IF ~over /\ pages = MaxPages THEN "rejected" ELSE @]
       /\ UNCHANGED <<identity, renumbered, stored>>

\* A page cannot be had: the query is not answered from the others.
PageFails(q) ==
    /\ query[q] = "paging"
    /\ query' = [query EXCEPT ![q] = "rejected"]
    /\ UNCHANGED <<identity, renumbered, stored, paged, faulted>>

\* Both parts are over.
Resolve(q) ==
    /\ query[q] = "paging" /\ \A s \in Sides : paged[q][s].over
    /\ query' = [query EXCEPT ![q] = "resolved"]
    /\ UNCHANGED <<identity, renumbered, stored, paged, faulted>>

ArcgisNext ==
    \/ Verify
    \/ \E q \in Queries : \/ Query(q) \/ Checked(q) \/ PageFails(q) \/ Resolve(q)
                          \/ \E s \in Sides : Page(q, s)

ArcgisSpec == ArcgisInit /\ [][ArcgisNext]_arcgisVars

-----------------------------------------------------------------------------
\* What the service holds, each feature once.
WholeOnce(parts) ==
    LET merged == MergeFeatureSets(parts) IN
    /\ {At(parts, place) : place \in merged} = UNION {Range(stored[s]) : s \in Sides}
    /\ \A a, b \in merged : At(parts, a) = At(parts, b) => a = b

\* A query that no error answer cut short resolves to what the service holds, each
\* feature once, however its pages were cut; once the layer is known to be another, or
\* answered for its name with something else, no query resolves; and a service that
\* cannot be reached bars no layer, only another name or an answer without one does.
QueryComplete ==
    /\ \A q \in Queries : query[q] = "resolved" /\ q \notin faulted => WholeOnce(Parts(q))
    /\ identity \in Barred => \A q \in Queries : query[q] # "resolved"
    /\ identity = "mismatch" => renumbered

\* The identity check adds no second way to be offline: only a renumbered layer is
\* barred.  (Not so of one whose metadata was once answered with an error body.)
OnlyRenumberedBarred == identity \in Barred => renumbered

\* An error answer is handled as one: a query one of whose pages was answered with an
\* error does not resolve.  (Not so: the pages before it are taken for the whole.)
ErrorAnswerRejects == \A q \in faulted : query[q] # "resolved"
=============================================================================
