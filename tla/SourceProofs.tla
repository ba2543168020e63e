----------------------------- MODULE SourceProofs -----------------------------
(***************************************************************************)
(* Theorems of the chart sources: of the aggregate that lists them, the    *)
(* Overpass client, the paged ArcGIS query, the two renderings of a point  *)
(* of interest, and the merge of points that several sources report.       *)
(***************************************************************************)
EXTENDS SourceListing, OverpassClient, ArcgisQuery, PoiDetails, DedupePois,
        WellFoundedInduction, TLAPS

-----------------------------------------------------------------------------
(* The aggregate over the sources. *)

\* What is awaited is being fetched, a poll gives up all that is out at once, a fetch
\* that no poll awaits was begun in the background, and what no one caches is not kept.
ListInv ==
    /\ ListTypeOK
    /\ \A p \in Polls : \A s \in Sources :
          /\ polls[p][s] \in {"out", "timeout"} => tile[s].state = "fetching"
          /\ polls[p][s] = "timeout" => \A o \in Sources : ~Out(p, o)
    /\ \A s \in late : tile[s].state = "fetching"
    /\ \A s \in Sources :
          /\ tile[s].state = "fetching" => tile[s].background \/ Awaited(s)
          /\ s \notin Cached => tile[s].state \in {"none", "fetching"}
    /\ WaitingHasReason
LEMMA TileShape ==
    /\ NoTile \in Tile
    /\ \A t \in Tile : /\ t.state \in {"none", "fetching", "failed", "ok"}
                       /\ t.fresh \in BOOLEAN /\ t.cooling \in BOOLEAN /\ t.revalidating \in BOOLEAN
                       /\ t.pending \in BOOLEAN /\ t.background \in BOOLEAN
BY DEF Tile, NoTile

\* What a poll reads of a source, and does to its tile.
LEMMA ReadShape ==
    ASSUME ListTypeOK, NEW s \in Sources, NEW found
    PROVE  LET answer == FirstAnswer(s, found)  t == TileRead(s)  u == tile[s] IN
           /\ t \in Tile
           /\ answer \in Answer \ {"timeout"}
           /\ answer = "out" \/ u.state = "fetching" => t.state = "fetching"
           /\ t.state = "fetching" => answer = "out" \/ t = u
           /\ s \notin Cached => t.state \in {"fetching", u.state}
           /\ t.state = "ok" => u.state = "ok"
           /\ t.state = "ok" /\ u.pending => t.pending \/ answer = "fresh"
<1>1. tile[s] \in Tile
  BY DEF ListTypeOK
<1>2. CASE SkipsOutsideUsWaters(s)
  BY <1>1, <1>2, TileShape DEF FirstAnswer, TileRead, Answer
<1>3. CASE ~SkipsOutsideUsWaters(s) /\ s \notin Cached
  BY <1>1, <1>3, TileShape DEF FirstAnswer, TileRead, Answer, Tile, NoTile
<1>4. CASE ~SkipsOutsideUsWaters(s) /\ s \in Cached
  <2>1. CASE tile[s].state = "ok" /\ tile[s].fresh
    <3>1. TileRead(s) = [tile[s] EXCEPT !.pending = FALSE]
      BY <1>4, <2>1 DEF TileRead
    <3>2. FirstAnswer(s, found) = IF tile[s].pending THEN "fresh" ELSE "local"
      BY <1>4, <2>1 DEF FirstAnswer, ProvenanceOf
    <3>3. TileRead(s) \in Tile /\ TileRead(s).state = "ok"
      BY <1>1, <2>1, <3>1 DEF Tile
    <3> QED BY <1>4, <2>1, <3>2, <3>3 DEF Answer
  <2>2. CASE tile[s].state = "ok" /\ ~tile[s].fresh
    <3>1. PICK b \in BOOLEAN : TileRead(s) = [tile[s] EXCEPT !.revalidating = b]
      <4>1. TileRead(s) = [tile[s] EXCEPT !.revalidating = @ \/ ~tile[s].cooling]
        BY <1>4, <2>2 DEF TileRead
      <4>2. CASE tile[s].revalidating \/ ~tile[s].cooling
        <5>1. (tile[s].revalidating \/ ~tile[s].cooling) = TRUE
          BY <4>2
        <5> QED BY <4>1, <5>1
      <4>3. CASE ~(tile[s].revalidating \/ ~tile[s].cooling)
        <5>1. (tile[s].revalidating \/ ~tile[s].cooling) = FALSE
          BY <4>3
        <5> QED BY <4>1, <5>1
      <4> QED BY <4>2, <4>3
    <3>2. FirstAnswer(s, found) = "local"
      BY <1>4, <2>2 DEF FirstAnswer, ProvenanceOf
    <3>3. TileRead(s) \in Tile /\ TileRead(s).state = "ok" /\ TileRead(s).pending = tile[s].pending
      BY <1>1, <2>2, <3>1 DEF Tile
    <3> QED BY <1>4, <2>2, <3>2, <3>3 DEF Answer
  <2>3. CASE tile[s].state = "none" \/ (tile[s].state = "failed" /\ ~tile[s].cooling)
    BY <1>1, <1>4, <2>3 DEF FirstAnswer, TileRead, Answer, Tile, NoTile, OfflineFallback
  <2>4. CASE tile[s].state = "failed" /\ tile[s].cooling
    BY <1>1, <1>4, <2>4 DEF FirstAnswer, TileRead, Answer, Tile, OfflineFallback
  <2>5. CASE tile[s].state = "fetching"
    BY <1>1, <1>4, <2>5 DEF FirstAnswer, TileRead, Answer, Tile, OfflineFallback
  <2> QED BY <1>1, <2>1, <2>2, <2>3, <2>4, <2>5, TileShape
<1> QED BY <1>2, <1>3, <1>4

\* No row comes to wait but by the end of a poll.
LEMMA RowShape ==
    ASSUME NEW row \in Row
    PROVE  /\ MarkReachable(row) \in Row /\ MarkReachable(row).skip # "wait"
           /\ RecordError(row) \in Row /\ RecordError(row).skip # "wait"
           /\ \A transient \in BOOLEAN : RecordSkipped(row, transient) \in Row
           /\ \A answer \in Answer : /\ RowAfter(row, answer) \in Row
                                     /\ RowAfter(row, answer).skip = "wait" => row.skip = "wait"
           /\ \A answer \in Answer \cup {"idle"} :
                 /\ Recorded(row, answer) \in Row
                 /\ Recorded(row, answer).skip = "wait" => answer = "timeout" \/ (answer # "fresh" /\ row.skip = "wait")
BY DEF Row, MarkReachable, RecordError, RecordSkipped, RowAfter, RecordStaleServe, Recorded, Answer

\* While no poll is answered, none has given anything up.
LEMMA QuietShape ==
    ASSUME ListInv, Quiet
    PROVE  \A p \in Polls : \A s \in Sources : polls[p][s] # "timeout"
BY DEF ListInv, Quiet, Answered, Idle

LEMMA PollShape ==
    ASSUME ListTypeOK, NEW p \in Polls
    PROVE  /\ polls[p] = [s \in Sources |-> polls[p][s]]
           /\ \A s \in Sources : polls[p][s] \in Answer \cup {"idle"}
BY DEF ListTypeOK, Idle

LEMMA BeginPollKeeps ==
    ASSUME ListInv, NEW p \in Polls, BeginPoll(p)
    PROVE  ListInv'
<1> USE DEF ListInv
<1>1. PICK found \in SUBSET {s \in Sources : HasFallback(s)} :
        /\ polls' = [polls EXCEPT ![p] = [s \in Sources |-> FirstAnswer(s, found)]]
        /\ rows' = [s \in Sources |-> RowAfter(rows[s], FirstAnswer(s, found))]
  BY DEF BeginPoll
<1>2. tile' = [s \in Sources |-> TileRead(s)] /\ polls[p] = Idle /\ UNCHANGED <<late, details, inside>>
  BY DEF BeginPoll
<1>3. \A s \in Sources : polls'[p][s] = FirstAnswer(s, found) /\ polls[p][s] = "idle"
  BY <1>1, <1>2 DEF ListTypeOK, Idle
<1>4. \A o \in Polls : \A s \in Sources : o # p => polls'[o][s] = polls[o][s]
  BY <1>1 DEF ListTypeOK
<1>5. ListTypeOK'
  <2>1. [s \in Sources |-> FirstAnswer(s, found)] \in [Sources -> Answer]
    BY ReadShape
  <2>2. polls' \in [Polls -> [Sources -> Answer] \cup {Idle}]'
    BY <1>1, <2>1 DEF ListTypeOK, Idle
  <2>3. tile' \in [Sources -> Tile]
    BY <1>2, ReadShape
  <2>4. \A s \in Sources : RowAfter(rows[s], FirstAnswer(s, found)) \in Row
    BY ReadShape, RowShape DEF ListTypeOK
  <2> QED BY <1>1, <1>2, <2>2, <2>3, <2>4 DEF ListTypeOK
<1>6. \A s \in Sources : tile'[s] = TileRead(s) /\ rows'[s] = RowAfter(rows[s], FirstAnswer(s, found))
  BY <1>1, <1>2
<1>7. ASSUME NEW o \in Polls, NEW s \in Sources
      PROVE  /\ polls'[o][s] \in {"out", "timeout"} => tile'[s].state = "fetching"
             /\ polls'[o][s] = "timeout" => \A r \in Sources : ~Out(o, r)'
  <2>1. CASE o = p
    BY <1>3, <1>6, <2>1, ReadShape
  <2>2. CASE o # p
    BY <1>4, <1>6, <2>2, ReadShape DEF Out
  <2> QED BY <2>1, <2>2
<1>8. \A s \in late' : tile'[s].state = "fetching"
  BY <1>2, <1>6, ReadShape DEF ListTypeOK
<1>9. ASSUME NEW s \in Sources
      PROVE  /\ tile'[s].state = "fetching" => tile'[s].background \/ Awaited(s)'
             /\ s \notin Cached => tile'[s].state \in {"none", "fetching"}
  <2>1. Awaited(s) => Awaited(s)'
    BY <1>2, <1>3, <1>4 DEF Awaited, Out
  <2>2. FirstAnswer(s, found) = "out" => Awaited(s)'
    BY <1>3 DEF Awaited, Out
  <2> QED BY <1>6, <2>1, <2>2, ReadShape
<1>10. WaitingHasReason'
  <2> SUFFICES ASSUME NEW s \in Sources, rows'[s].skip = "wait", tile'[s].state = "ok", ~tile'[s].pending
               PROVE  Held(s, "fresh")'
    BY DEF WaitingHasReason
  <2>1. rows[s].skip = "wait"
    <3>1. rows[s] \in Row /\ FirstAnswer(s, found) \in Answer
      BY ReadShape DEF ListTypeOK
    <3>2. RowAfter(rows[s], FirstAnswer(s, found)).skip = "wait"
      BY <1>6
    <3> QED BY <3>1, <3>2, RowShape
  <2>2. CASE tile[s].pending
    <3>1. FirstAnswer(s, found) = "fresh"
      BY <1>6, <2>2, ReadShape
    <3> QED BY <1>3, <3>1 DEF Held
  <2>3. CASE ~tile[s].pending
    <3>1. Held(s, "fresh")
      BY <1>6, <2>1, <2>3, ReadShape DEF WaitingHasReason
    <3>2. PICK o \in Polls : polls[o][s] = "fresh"
      BY <3>1 DEF Held
    <3> QED BY <1>3, <1>4, <3>2 DEF Held
  <2> QED BY <2>2, <2>3
<1> QED BY <1>5, <1>7, <1>8, <1>9, <1>10

\* The tile of one source after its fetch or its refresh; the others stay.
LEMMA OneTile ==
    ASSUME ListTypeOK, NEW s \in Sources, NEW t \in Tile, tile' = [tile EXCEPT ![s] = t]
    PROVE  /\ tile' \in [Sources -> Tile] /\ tile'[s] = t
           /\ \A o \in Sources \ {s} : tile'[o] = tile[o]
BY DEF ListTypeOK

LEMMA OneRow ==
    ASSUME ListTypeOK, NEW s \in Sources, NEW row \in Row, rows' = [rows EXCEPT ![s] = row]
    PROVE  /\ rows' \in [Sources -> Row] /\ rows'[s] = row
           /\ \A o \in Sources \ {s} : rows'[o] = rows[o]
BY DEF ListTypeOK

LEMMA EndShape ==
    ASSUME ListTypeOK, NEW s \in Sources
    PROVE  /\ TileFilled(s) \in Tile /\ TileFailed(s) \in Tile
           /\ TileFilled(s).state = IF s \in Cached THEN "ok" ELSE "none"
           /\ s \in Cached /\ tile[s].background /\ ~Awaited(s) => TileFilled(s).pending
           /\ TileFailed(s).state \in {"none", "failed"}
           /\ s \notin Cached => TileFailed(s).state = "none"
           /\ \A found : OfflineFallback(s, found) \in {"stale", "rejected"}
<1>1. CASE s \notin Cached
  BY <1>1, TileShape DEF TileFilled, TileFailed, NoTile, OfflineFallback
<1>2. CASE s \in Cached
  <2>1. TileFailed(s) \in Tile /\ TileFailed(s).state = "failed"
    BY <1>2 DEF TileFailed, NoTile, Tile
  <2>2. CASE tile[s].background /\ ~Awaited(s)
    <3>1. (tile[s].background /\ ~Awaited(s)) = TRUE
      BY <2>2
    <3>2. TileFilled(s) = [NoTile EXCEPT !.state = "ok", !.fresh = TRUE, !.pending = TRUE]
      BY <1>2, <3>1 DEF TileFilled
    <3>3. TileFilled(s) \in Tile /\ TileFilled(s).state = "ok" /\ TileFilled(s).pending
      BY <3>2 DEF NoTile, Tile
    <3> QED BY <1>2, <2>1, <3>3 DEF OfflineFallback
  <2>3. CASE ~(tile[s].background /\ ~Awaited(s))
    <3>1. (tile[s].background /\ ~Awaited(s)) = FALSE
      BY <2>3
    <3>2. TileFilled(s) = [NoTile EXCEPT !.state = "ok", !.fresh = TRUE, !.pending = FALSE]
      BY <1>2, <3>1 DEF TileFilled
    <3>3. TileFilled(s) \in Tile /\ TileFilled(s).state = "ok"
      BY <3>2 DEF NoTile, Tile
    <3> QED BY <1>2, <2>1, <2>3, <3>3 DEF OfflineFallback
  <2> QED BY <2>2, <2>3
<1> QED BY <1>1, <1>2

\* Who awaits a source has its answer; nobody else is answered.
LEMMA WaitersShape ==
    ASSUME ListTypeOK, NEW s \in Sources, NEW answer \in Answer \ {"out"}, AnswerWaiters(s, answer)
    PROVE  /\ polls' \in [Polls -> [Sources -> Answer] \cup {Idle}]
           /\ \A p \in Polls : /\ polls'[p][s] = IF Out(p, s) THEN answer ELSE polls[p][s]
                               /\ \A o \in Sources \ {s} : polls'[p][o] = polls[p][o]
<1>1. ASSUME NEW p \in Polls
      PROVE  /\ polls'[p] \in [Sources -> Answer] \cup {Idle}
             /\ polls'[p][s] = IF Out(p, s) THEN answer ELSE polls[p][s]
             /\ \A o \in Sources \ {s} : polls'[p][o] = polls[p][o]
  <2>1. CASE Out(p, s)
    <3>1. polls[p] \in [Sources -> Answer]
      BY <2>1 DEF Out, Idle, ListTypeOK
    <3>2. polls'[p] = [polls[p] EXCEPT ![s] = answer]
      BY <2>1 DEF AnswerWaiters
    <3> QED BY <2>1, <3>1, <3>2
  <2>2. CASE ~Out(p, s)
    BY <2>2 DEF AnswerWaiters, ListTypeOK
  <2> QED BY <2>1, <2>2
<1> QED BY <1>1 DEF AnswerWaiters

\* What a fetch that ends leaves true, whatever its tile and its row become.
LEMMA FetchEnds ==
    ASSUME ListInv, Quiet, NEW s \in Sources, NEW answer \in Answer \ {"out", "timeout"},
           NEW t \in Tile, NEW row \in Row,
           AnswerWaiters(s, answer), late' = late \ {s}, UNCHANGED <<details, inside>>,
           tile' = [tile EXCEPT ![s] = t], rows' = [rows EXCEPT ![s] = row],
           t.state # "fetching", s \notin Cached => t.state = "none",
           row.skip = "wait" /\ t.state = "ok" => t.pending \/ Held(s, "fresh")'
    PROVE  ListInv'
<1> USE DEF ListInv
<1>1. /\ tile' \in [Sources -> Tile] /\ tile'[s] = t
      /\ \A o \in Sources \ {s} : tile'[o] = tile[o]
  BY OneTile
<1>2. /\ rows' \in [Sources -> Row] /\ rows'[s] = row
      /\ \A o \in Sources \ {s} : rows'[o] = rows[o]
  BY OneRow
<1>3. /\ polls' \in [Polls -> [Sources -> Answer] \cup {Idle}]
      /\ \A p \in Polls : /\ polls'[p][s] = IF Out(p, s) THEN answer ELSE polls[p][s]
                          /\ \A o \in Sources \ {s} : polls'[p][o] = polls[p][o]
  BY WaitersShape
<1>4. ListTypeOK'
  BY <1>1, <1>2, <1>3 DEF ListTypeOK, Idle
<1>5. ASSUME NEW p \in Polls, NEW o \in Sources
      PROVE  /\ polls'[p][o] \in {"out", "timeout"} => tile'[o].state = "fetching"
             /\ polls'[p][o] # "timeout"
  <2>1. polls[p][o] # "timeout"
    BY QuietShape
  <2>2. CASE o = s
    BY <1>3, <2>1, <2>2 DEF Out
  <2>3. CASE o # s
    BY <1>1, <1>3, <2>1, <2>3
  <2> QED BY <2>2, <2>3
<1>6. \A o \in late' : tile'[o].state = "fetching"
  BY <1>1 DEF ListTypeOK
<1>7. ASSUME NEW o \in Sources
      PROVE  /\ tile'[o].state = "fetching" => tile'[o].background \/ Awaited(o)'
             /\ o \notin Cached => tile'[o].state \in {"none", "fetching"}
  <2>1. CASE o = s
    BY <1>1, <2>1
  <2>2. CASE o # s
    <3>1. Awaited(o) => Awaited(o)'
      BY <1>3, <2>2 DEF Awaited, Out
    <3> QED BY <1>1, <2>2, <3>1
  <2> QED BY <2>1, <2>2
<1>8. ASSUME NEW o \in Sources, rows'[o].skip = "wait"
      PROVE  tile'[o].state # "ok" \/ tile'[o].pending \/ Held(o, "fresh")'
  <2>1. CASE o = s
    BY <1>1, <1>2, <1>8, <2>1
  <2>2. CASE o # s
    <3>1. Held(o, "fresh") => Held(o, "fresh")'
      BY <1>3, <2>2 DEF Held
    <3> QED BY <1>1, <1>2, <1>8, <2>2, <3>1 DEF WaitingHasReason
  <2> QED BY <2>1, <2>2
<1> QED BY <1>4, <1>5, <1>6, <1>7, <1>8 DEF WaitingHasReason

LEMMA FetchResolvesKeeps ==
    ASSUME ListInv, Quiet, NEW s \in Sources, NEW partial \in BOOLEAN, FetchResolves(s, partial)
    PROVE  ListInv'
<1> DEFINE row == IF partial THEN RecordError(rows[s]) ELSE rows[s]
<1>1. ListTypeOK /\ rows[s] \in Row
  BY DEF ListInv, ListTypeOK
<1>2. row \in Row /\ ObserveLate(s, row) \in Row
  BY <1>1, RowShape DEF ObserveLate
<1>3. TileFilled(s).state = "ok" => s \in Cached
  BY <1>1, EndShape
<1>4. ASSUME ObserveLate(s, row).skip = "wait", TileFilled(s).state = "ok"
      PROVE  TileFilled(s).pending \/ Held(s, "fresh")'
  <2>1. s \notin late
    BY <1>2, <1>4, RowShape DEF ObserveLate
  <2>2. tile[s].background \/ Awaited(s)
    BY DEF ListInv, FetchResolves
  <2>3. CASE ~Awaited(s)
    BY <1>1, <1>3, <1>4, <2>2, <2>3, EndShape
  <2>4. CASE Awaited(s)
    <3>1. PICK p \in Polls : Out(p, s)
      BY <2>1, <2>4 DEF Awaited
    <3>2. polls'[p][s] = "fresh"
      BY <1>1, <3>1, WaitersShape DEF FetchResolves, Answer
    <3> QED BY <3>2 DEF Held
  <2> QED BY <2>3, <2>4
<1> HIDE DEF row
<1> QED BY <1>1, <1>2, <1>3, <1>4, EndShape, FetchEnds DEF FetchResolves, Answer, row

LEMMA FetchRejectsKeeps ==
    ASSUME ListInv, Quiet, NEW s \in Sources, NEW found, FetchRejects(s, found)
    PROVE  ListInv'
<1> DEFINE answer == OfflineFallback(s, found)
           row == IF Kind[s] = "arcgis" THEN RecordError(rows[s]) ELSE rows[s]
           last == IF Awaited(s) THEN RowAfter(row, answer) ELSE row
<1>1. ListTypeOK /\ rows[s] \in Row
  BY DEF ListInv, ListTypeOK
<1>2. answer \in Answer \ {"out", "timeout"}
  BY <1>1, EndShape DEF Answer
<1>3. row \in Row
  BY <1>1, RowShape
<1>4. last \in Row
  BY <1>2, <1>3, RowShape
<1>5. /\ AnswerWaiters(s, answer) /\ rows' = [rows EXCEPT ![s] = last]
      /\ tile' = [tile EXCEPT ![s] = TileFailed(s)] /\ late' = late \ {s} /\ UNCHANGED <<details, inside>>
  BY DEF FetchRejects
<1> HIDE DEF answer, last
<1> QED BY <1>1, <1>2, <1>4, <1>5, EndShape, FetchEnds

\* A source that moves alone, with no list of a poll ended.
LEMMA SourceAlone ==
    ASSUME ListInv, NEW s \in Sources, NEW t \in Tile, NEW row \in Row,
           tile' = [tile EXCEPT ![s] = t], rows' = [rows EXCEPT ![s] = row],
           UNCHANGED <<polls, late, inside>>, details' \subseteq Sources,
           tile[s].state = "fetching" => t.state = "fetching",
           t.state = "fetching" => t.background \/ Awaited(s),
           s \notin Cached => t.state \in {"none", "fetching"},
           row.skip = "wait" /\ t.state = "ok" => t.pending \/ Held(s, "fresh")
    PROVE  ListInv'
<1> USE DEF ListInv
<1>1. /\ tile' \in [Sources -> Tile] /\ tile'[s] = t
      /\ \A o \in Sources \ {s} : tile'[o] = tile[o]
  BY OneTile
<1>2. /\ rows' \in [Sources -> Row] /\ rows'[s] = row
      /\ \A o \in Sources \ {s} : rows'[o] = rows[o]
  BY OneRow
<1>3. ListTypeOK'
  BY <1>1, <1>2 DEF ListTypeOK, Idle
<1>4. \A o \in Sources : tile[o].state = "fetching" => tile'[o].state = "fetching"
  BY <1>1
<1>5. \A p \in Polls : \A o \in Sources :
        /\ polls'[p][o] \in {"out", "timeout"} => tile'[o].state = "fetching"
        /\ polls'[p][o] = "timeout" => \A r \in Sources : ~Out(p, r)'
  BY <1>4 DEF Out
<1>6. \A o \in late' : tile'[o].state = "fetching"
  BY <1>4 DEF ListTypeOK
<1>7. \A o \in Sources : /\ tile'[o].state = "fetching" => tile'[o].background \/ Awaited(o)'
                         /\ o \notin Cached => tile'[o].state \in {"none", "fetching"}
  BY <1>1 DEF Awaited, Out
<1>8. \A o \in Sources : rows'[o].skip = "wait" =>
        tile'[o].state # "ok" \/ tile'[o].pending \/ Held(o, "fresh")'
  BY <1>1, <1>2 DEF WaitingHasReason, Held
<1> QED BY <1>3, <1>5, <1>6, <1>7, <1>8 DEF WaitingHasReason

LEMMA AloneKeeps ==
    ASSUME ListInv, NEW s \in Sources,
           \/ \E partial \in BOOLEAN : RefreshResolves(s, partial)
           \/ RefreshRejects(s) \/ Prefetch(s) \/ Evict(s) \/ WindowEnds(s)
           \/ DetailSkipped(s) \/ DetailAsked(s) \/ \E ok \in BOOLEAN : DetailEnds(s, ok)
    PROVE  ListInv'
<1> DEFINE t == tile[s]
<1>1. /\ ListTypeOK /\ rows[s] \in Row /\ t \in Tile /\ details \subseteq Sources
      /\ rows = [rows EXCEPT ![s] = rows[s]] /\ tile = [tile EXCEPT ![s] = t]
  BY DEF ListInv, ListTypeOK
<1>2. /\ t.state = "fetching" => t.background \/ Awaited(s)
      /\ s \notin Cached => t.state \in {"none", "fetching"}
      /\ rows[s].skip = "wait" /\ t.state = "ok" => t.pending \/ Held(s, "fresh")
  BY DEF ListInv, WaitingHasReason
<1>3. ASSUME NEW partial \in BOOLEAN, RefreshResolves(s, partial)
      PROVE  ListInv'
  <2> DEFINE u == [NoTile EXCEPT !.state = "ok", !.fresh = TRUE, !.pending = TRUE]
             row == IF partial THEN RecordError(rows[s]) ELSE rows[s]
  <2>1. u \in Tile /\ u.state = "ok" /\ u.pending
    BY DEF NoTile, Tile
  <2>2. row \in Row
    BY <1>1, RowShape
  <2>3. tile' = [tile EXCEPT ![s] = u] /\ rows' = [rows EXCEPT ![s] = row]
    BY <1>1, <1>3 DEF RefreshResolves
  <2>4. t.state = "ok" /\ UNCHANGED <<polls, late, details, inside>>
    BY <1>3 DEF RefreshResolves
  <2>5. details' \subseteq Sources /\ s \in Cached
    BY <1>1, <1>2, <2>4
  <2> HIDE DEF u, row
  <2> QED BY <2>1, <2>2, <2>3, <2>4, <2>5, SourceAlone
<1>4. CASE RefreshRejects(s)
  <2> DEFINE u == [t EXCEPT !.revalidating = FALSE, !.cooling = TRUE]
  <2>1. u \in Tile /\ u.state = t.state /\ u.pending = t.pending /\ t.state = "ok"
    BY <1>1, <1>4 DEF Tile, RefreshRejects
  <2>2. tile' = [tile EXCEPT ![s] = u] /\ rows' = [rows EXCEPT ![s] = RecordError(rows[s])]
    BY <1>1, <1>4 DEF RefreshRejects, ListTypeOK
  <2>3. RecordError(rows[s]) \in Row /\ RecordError(rows[s]).skip # "wait"
    BY <1>1, RowShape
  <2>4. UNCHANGED <<polls, late, inside>> /\ details' \subseteq Sources /\ s \in Cached
    BY <1>1, <1>2, <1>4, <2>1 DEF RefreshRejects
  <2> HIDE DEF u
  <2> QED BY <2>1, <2>2, <2>3, <2>4, SourceAlone
<1>5. CASE Prefetch(s)
  <2> DEFINE u == [NoTile EXCEPT !.state = "fetching", !.background = TRUE]
  <2>1. u \in Tile /\ u.state = "fetching" /\ u.background
    BY DEF NoTile, Tile
  <2> HIDE DEF u
  <2>2. tile' = [tile EXCEPT ![s] = u]
    BY <1>5 DEF Prefetch, u
  <2> QED BY ZenonT(30), <1>1, <1>2, <1>5, <2>1, <2>2, SourceAlone DEF Prefetch
<1>6. CASE Evict(s)
  <2>1. NoTile \in Tile /\ NoTile.state = "none"
    BY DEF NoTile, Tile
  <2> QED BY <1>1, <1>2, <1>6, <2>1, SourceAlone DEF Evict
<1>7. CASE WindowEnds(s)
  <2>1. PICK u \in {[t EXCEPT !.fresh = FALSE], [t EXCEPT !.cooling = FALSE]} : tile' = [tile EXCEPT ![s] = u]
    BY <1>1, <1>7 DEF WindowEnds, ListTypeOK
  <2>2. u \in Tile /\ u.state = t.state /\ u.pending = t.pending /\ u.background = t.background
    BY <1>1, <2>1 DEF Tile
  <2>3. /\ UNCHANGED <<polls, late, inside>> /\ details' \subseteq Sources
        /\ rows' = [rows EXCEPT ![s] = rows[s]]
    BY <1>1, <1>7 DEF WindowEnds
  <2> QED BY <1>1, <1>2, <2>1, <2>2, <2>3, SourceAlone
<1>8. CASE DetailSkipped(s)
  <2>1. RecordSkipped(rows[s], FALSE) \in Row /\ RecordSkipped(rows[s], FALSE).skip # "wait"
    BY <1>1 DEF RecordSkipped, Row
  <2> QED BY <1>1, <1>2, <1>8, <2>1, SourceAlone DEF DetailSkipped
<1>9. CASE DetailAsked(s)
  BY <1>1, <1>2, <1>9, SourceAlone DEF DetailAsked
<1>10. ASSUME NEW ok \in BOOLEAN, DetailEnds(s, ok)
       PROVE  ListInv'
  <2> DEFINE row == IF ok THEN RecordDetailSuccess(rows[s]) ELSE RecordError(rows[s])
  <2>1. row \in Row /\ row.skip # "wait"
    BY <1>1, RowShape DEF RecordDetailSuccess
  <2>2. rows' = [rows EXCEPT ![s] = row]
    BY <1>10 DEF DetailEnds
  <2> HIDE DEF row
  <2> QED BY <1>1, <1>2, <1>10, <2>1, <2>2, SourceAlone DEF DetailEnds
<1> QED BY <1>3, <1>4, <1>5, <1>6, <1>7, <1>8, <1>9, <1>10

LEMMA TimeoutKeeps ==
    ASSUME ListInv, NEW p \in Polls, Timeout(p)
    PROVE  ListInv'
<1> USE DEF ListInv
<1> DEFINE answers == [s \in Sources |-> IF Out(p, s) THEN "timeout" ELSE polls[p][s]]
<1>1. polls' = [polls EXCEPT ![p] = answers] /\ UNCHANGED <<rows, tile, details, inside>>
  BY DEF Timeout
<1>2. polls[p] \in [Sources -> Answer]
  BY DEF ListTypeOK, Timeout, Out, Idle
<1>3. answers \in [Sources -> Answer]
  BY <1>2 DEF Answer
<1>4. /\ \A s \in Sources : polls'[p][s] = IF Out(p, s) THEN "timeout" ELSE polls[p][s]
      /\ \A o \in Polls \ {p} : polls'[o] = polls[o]
  BY <1>1 DEF ListTypeOK
<1>5. ListTypeOK'
  <2>1. polls' \in [Polls -> [Sources -> Answer] \cup {Idle}]
    BY <1>1, <1>3 DEF ListTypeOK
  <2>2. late' \subseteq Sources
    BY DEF Timeout, ListTypeOK
  <2> HIDE DEF answers
  <2> QED BY <1>1, <2>1, <2>2 DEF ListTypeOK, Idle
<1>6. ASSUME NEW o \in Polls, NEW s \in Sources
      PROVE  /\ polls'[o][s] \in {"out", "timeout"} => tile'[s].state = "fetching"
             /\ polls'[o][s] = "timeout" => \A r \in Sources : ~Out(o, r)'
  <2>1. CASE o = p
    BY <1>1, <1>4, <2>1 DEF Out
  <2>2. CASE o # p
    BY <1>1, <1>4, <2>2 DEF Out
  <2> QED BY <2>1, <2>2
<1>7. \A s \in late' : tile'[s].state = "fetching"
  BY <1>1 DEF Timeout, Out
<1>8. ASSUME NEW s \in Sources, Awaited(s)
      PROVE  Awaited(s)'
  <2>1. CASE s \in late \/ Out(p, s)
    BY <2>1 DEF Timeout, Awaited
  <2>2. CASE ~(s \in late \/ Out(p, s))
    BY <1>4, <1>8, <2>2 DEF Awaited, Out
  <2> QED BY <2>1, <2>2
<1>9. \A s \in Sources : Held(s, "fresh") => Held(s, "fresh")'
  BY <1>4 DEF Held, Out
<1> QED BY <1>1, <1>5, <1>6, <1>7, <1>8, <1>9 DEF WaitingHasReason

LEMMA EndPollKeeps ==
    ASSUME ListInv, NEW p \in Polls, EndPoll(p)
    PROVE  ListInv'
<1> USE DEF ListInv
<1>1. /\ polls' = [polls EXCEPT ![p] = Idle] /\ UNCHANGED <<tile, late, details, inside>>
      /\ rows' = [s \in Sources |-> Recorded(rows[s], polls[p][s])]
      /\ \A s \in Sources : ~Out(p, s)
  BY DEF EndPoll, Answered
<1>2. /\ \A s \in Sources : polls'[p][s] = "idle"
      /\ \A o \in Polls \ {p} : polls'[o] = polls[o]
  BY <1>1 DEF ListTypeOK, Idle
<1>3. \A s \in Sources : polls[p][s] \in Answer \cup {"idle"} /\ rows[s] \in Row
  BY PollShape DEF ListTypeOK
<1>4. ListTypeOK'
  <2>1. rows' \in [Sources -> Row]
    BY <1>1, <1>3, RowShape
  <2>2. polls' \in [Polls -> [Sources -> Answer] \cup {Idle}]
    BY <1>1 DEF ListTypeOK
  <2> QED BY <1>1, <2>1, <2>2 DEF ListTypeOK, Idle
<1>5. \A o \in Polls : \A s \in Sources :
        /\ polls'[o][s] \in {"out", "timeout"} => tile'[s].state = "fetching"
        /\ polls'[o][s] = "timeout" => \A r \in Sources : ~Out(o, r)'
  BY <1>1, <1>2 DEF Out
<1>6. \A s \in Sources : Awaited(s) => Awaited(s)'
  BY <1>1, <1>2 DEF Awaited, Out
<1>7. ASSUME NEW s \in Sources, rows'[s].skip = "wait"
      PROVE  tile'[s].state # "ok" \/ tile'[s].pending \/ Held(s, "fresh")'
  <2>1. Recorded(rows[s], polls[p][s]).skip = "wait"
    BY <1>1, <1>7
  <2>2. polls[p][s] = "timeout" \/ (polls[p][s] # "fresh" /\ rows[s].skip = "wait")
    BY <1>3, <2>1, RowShape
  <2>3. CASE polls[p][s] = "timeout"
    BY <1>1, <2>3
  <2>4. CASE polls[p][s] # "fresh" /\ rows[s].skip = "wait"
    <3>1. Held(s, "fresh") => Held(s, "fresh")'
      BY <1>2, <2>4 DEF Held
    <3> QED BY <1>1, <2>4, <3>1 DEF WaitingHasReason
  <2> QED BY <2>2, <2>3, <2>4
<1> QED BY <1>1, <1>4, <1>5, <1>6, <1>7 DEF WaitingHasReason

LEMMA SameListInv ==
    ASSUME ListInv, UNCHANGED <<rows, tile, polls, late, details>>, inside' \in BOOLEAN
    PROVE  ListInv'
BY DEF ListInv, ListTypeOK, Out, Awaited, WaitingHasReason, Held, Idle

LEMMA ListInvStep == ListInv /\ [ListNext]_listVars => ListInv'
<1> SUFFICES ASSUME ListInv, [ListNext]_listVars
             PROVE  ListInv'
  OBVIOUS
<1>1. ASSUME NEW p \in Polls, EndPoll(p)
      PROVE  ListInv'
  BY <1>1, EndPollKeeps
<1>2. ASSUME Quiet, NEW p \in Polls, BeginPoll(p) \/ Timeout(p)
      PROVE  ListInv'
  BY <1>2, BeginPollKeeps, TimeoutKeeps
<1>3. ASSUME Quiet, NEW s \in Sources, SourceStep(s)
      PROVE  ListInv'
  BY <1>3, FetchResolvesKeeps, FetchRejectsKeeps, AloneKeeps DEF SourceStep
<1>4. CASE Crosses
  BY <1>4, SameListInv DEF Crosses
<1>5. CASE UNCHANGED listVars
  <2>1. inside' \in BOOLEAN
    BY <1>5 DEF listVars, ListInv, ListTypeOK
  <2> QED BY <1>5, <2>1, SameListInv DEF listVars
<1> QED BY <1>1, <1>2, <1>3, <1>4, <1>5 DEF ListNext

LEMMA ListInvInit == ListInit => ListInv
<1> SUFFICES ASSUME ListInit
             PROVE  ListInv
  OBVIOUS
<1>1. ListTypeOK
  BY TileShape DEF ListInit, ListTypeOK, Row, Idle
<1>2. \A s \in Sources : tile[s].state = "none" /\ rows[s].skip = "none" /\ s \notin late
  BY DEF ListInit, NoTile
<1>3. \A p \in Polls : \A s \in Sources : polls[p][s] = "idle"
  BY DEF ListInit, Idle
<1> QED BY <1>1, <1>2, <1>3 DEF ListInv, WaitingHasReason, Out, ListInit

LEMMA ListInvAlways == ListSpec => []ListInv
BY ListInvInit, ListInvStep, PTL DEF ListSpec

\* TypeOK of the listing, for any sources, polls and caches (input-registry.ts).
THEOREM ListTypeCorrect == ListSpec => []ListTypeOK
<1>1. ListInv => ListTypeOK
  BY DEF ListInv
<1> QED BY <1>1, ListInvAlways, PTL

\* However polls, timeouts, fetches, background refreshes and evictions interleave, no
\* source's row is left waiting beside markers that are on the chart
\* (input-registry.ts, plugin-status.ts).
THEOREM WaitingIsExplained == ListSpec => []WaitingHasReason
<1>1. ListInv => WaitingHasReason
  BY DEF ListInv
<1> QED BY <1>1, ListInvAlways, PTL

-----------------------------------------------------------------------------
(* A query of the Overpass endpoints. *)

\* The longest that an attempt and the wait behind it take.
Round == RequestTimeout + LongestWait

\* While the query goes on, what it has spent is what the endpoints before took, which
\* was within the budget, and a round per retry of this one.
QueryInv ==
    /\ phase \in {"queued", "slot", "sent", "over"} /\ given \in {"none", "aborted", "closed"}
    /\ at \in Nat \ {0} /\ attempt \in 0..MaxRetries /\ spent \in Nat /\ waited \in Nat
    /\ phase # "over" => spent < Budget + waited + attempt * Round /\ outcome = <<>>
    /\ phase = "queued" => spent < Budget /\ attempt = 0
    /\ phase = "sent" => Endpoint \in tried
    /\ QueryBounded

LEMMA Rounds ==
    /\ Round \in Nat /\ OneEndpoint \in Nat
    /\ \A n \in 0..MaxRetries : /\ n * Round \in Nat
                                /\ (n + 1) * Round = n * Round + Round
                                /\ n * Round + RequestTimeout <= OneEndpoint
<1>1. RequestTimeout \in Nat /\ LongestWait \in Nat /\ MaxRetries \in Nat
  BY OverpassAssumption
<1>2. Round \in Nat
  BY <1>1 DEF Round
<1>3. OneEndpoint = MaxRetries * Round + RequestTimeout
  BY <1>1 DEF OneEndpoint, Round
<1>4. \A m, n, k \in Nat : m <= n => m * k <= n * k /\ m * k \in Nat /\ (m + 1) * k = m * k + k
  OBVIOUS
<1>5. OneEndpoint \in Nat
  BY <1>1, <1>2, <1>3, <1>4
<1> QED BY <1>1, <1>2, <1>3, <1>4, <1>5

LEMMA QueryInvInit == OverpassInit => QueryInv
<1>1. Budget \in Nat \ {0} /\ MaxRetries \in Nat
  BY OverpassAssumption
<1>2. <<>> # <<"failed">>
  OBVIOUS
<1> QED BY <1>1, <1>2, Rounds DEF OverpassInit, QueryInv, QueryBounded

LEMMA TakesBounded == Takes \in 0..RequestTimeout
BY OverpassAssumption DEF Takes

LEMMA Sums ==
    ASSUME NEW time \in Nat, NEW budget \in Nat, NEW wait \in Nat, NEW long \in Nat,
           NEW last \in Nat, NEW whole \in Nat,
           time < budget + wait + long + last, long + last <= whole
    PROVE  time < budget + wait + whole
OBVIOUS

LEMMA FailOverKeeps ==
    ASSUME QueryInv, phase # "over", NEW time \in Nat, FailOver(time),
           waited' \in Nat, time < Budget + waited' + attempt * Round + RequestTimeout,
           pushedOut \subseteq pushedOut',
           given = "none" => Endpoint \in tried \cup pushedOut'
    PROVE  QueryInv'
<1> USE DEF QueryInv
<1>1. /\ spent' = time /\ UNCHANGED <<endpointList, health, given, tried>>
      /\ Budget \in Nat \ {0} /\ MaxRetries \in Nat
  BY OverpassAssumption DEF FailOver
<1>2. attempt * Round + RequestTimeout <= OneEndpoint /\ OneEndpoint \in Nat /\ attempt * Round \in Nat
  BY Rounds
<1>3. spent' \in Nat /\ spent' < Budget + waited' + OneEndpoint
  <2>1. RequestTimeout \in Nat /\ Budget \in Nat
    BY OverpassAssumption
  <2>2. time < Budget + waited' + OneEndpoint
    BY <1>2, <2>1, Sums
  <2> QED BY <1>1, <2>2
<1>4. \A i \in 1..at : given = "none" => endpointList[i] \in tried \cup pushedOut'
  BY DEF QueryBounded, Endpoint
<1>5. <<>> # <<"failed">>
  OBVIOUS
<1>6. ~abandoned'
  BY DEF FailOver, LastFailure, QueryBounded
<1>7. CASE LastFailure(time)
  <2>1. outcome' = <<"failed">> /\ phase' = "over" /\ UNCHANGED <<at, attempt>>
    BY <1>7 DEF FailOver
  <2>2. given = "none" /\ time < Budget => at = Len(endpointList)
    BY <1>1, <1>7 DEF LastFailure
  <2>3. given = "none" /\ time < Budget =>
          \A i \in 1..Len(endpointList) : endpointList[i] \in tried \cup pushedOut'
    BY <1>4, <2>2
  <2> QED BY <1>1, <1>3, <1>4, <1>6, <2>1, <2>3 DEF QueryBounded
<1>8. CASE ~LastFailure(time)
  <2>1. at' = at + 1 /\ attempt' = 0 /\ phase' = "queued" /\ outcome' = <<>>
    BY <1>8 DEF FailOver
  <2>2. time < Budget
    BY <1>1, <1>8 DEF LastFailure
  <2>3. 0 * Round = 0
    BY Rounds
  <2>4. spent' < Budget + waited' + attempt' * Round
    BY <1>1, <2>1, <2>2, <2>3
  <2> QED BY <1>1, <1>3, <1>4, <1>5, <1>6, <2>1, <2>2, <2>4 DEF QueryBounded
<1> QED BY <1>7, <1>8

LEMMA QueryInvStep == QueryInv /\ [OverpassNext]_overpassVars => QueryInv'
<1> SUFFICES ASSUME QueryInv, [OverpassNext]_overpassVars
             PROVE  QueryInv'
  OBVIOUS
<1> USE DEF QueryInv
<1>1. CASE Send
  BY <1>1 DEF Send, QueryBounded, Endpoint
<1>2. CASE EndpointAnswers
  <2>1. \A x : <<"list", x>> # <<"failed">> /\ <<"detail", x>> # <<"failed">>
    OBVIOUS
  <2>2. outcome' # <<"failed">>
    BY <1>2, <2>1 DEF EndpointAnswers
  <2> QED BY <1>2, <2>2 DEF EndpointAnswers, QueryBounded, Endpoint
<1>3. CASE Retry
  <2>1. PICK wait \in Waits : spent' = spent + Takes + wait
    BY <1>3 DEF Retry
  <2>2. wait \in 0..LongestWait
    BY OverpassAssumption DEF Waits
  <2>3. /\ attempt' = attempt + 1 /\ attempt < MaxRetries /\ phase' = "slot" /\ outcome = <<>>
        /\ waited' = waited /\ phase = "sent"
    BY <1>3 DEF Retry
  <2>4. Takes + wait \in 0..Round
    BY <2>2, TakesBounded, OverpassAssumption DEF Round
  <2>5. /\ attempt' * Round = attempt * Round + Round /\ attempt * Round \in Nat /\ Round \in Nat
        /\ attempt' * Round + RequestTimeout <= OneEndpoint /\ OneEndpoint \in Nat
    <3>1. attempt \in 0..MaxRetries /\ attempt + 1 \in 0..MaxRetries
      BY <2>3, OverpassAssumption
    <3>2. (attempt + 1) * Round = attempt * Round + Round /\ attempt * Round \in Nat /\ Round \in Nat
      BY <3>1, Rounds
    <3>3. (attempt + 1) * Round + RequestTimeout <= OneEndpoint /\ OneEndpoint \in Nat
      BY <3>1, Rounds
    <3> QED BY <2>3, <3>2, <3>3
  <2> DEFINE before == attempt * Round  long == attempt' * Round
  <2>6. /\ before \in Nat /\ long = before + Round /\ long + RequestTimeout <= OneEndpoint
        /\ spent < Budget + waited + before /\ spent' = spent + Takes + wait
    BY <2>1, <2>3, <2>5
  <2> HIDE DEF before, long
  <2>7. spent' \in Nat /\ spent' < Budget + waited' + long /\ attempt' \in 0..MaxRetries
    BY <2>2, <2>3, <2>4, <2>5, <2>6, TakesBounded, OverpassAssumption
  <2>8. spent' < Budget + waited' + OneEndpoint
    BY <2>3, <2>5, <2>6, <2>7, OverpassAssumption
  <2>9. <<>> # <<"failed">>
    OBVIOUS
  <2>10. spent' < Budget + waited' + attempt' * Round
    BY <2>7 DEF long
  <2> QED BY <1>3, <2>3, <2>7, <2>8, <2>9, <2>10 DEF Retry, QueryBounded, Endpoint
<1>4. CASE Rejected
  <2>1. /\ spent + Takes \in Nat /\ waited' = waited /\ pushedOut' = pushedOut
        /\ spent + Takes < Budget + waited + attempt * Round + RequestTimeout
    BY <1>4, TakesBounded, Rounds, OverpassAssumption DEF Rejected
  <2>2. phase = "sent" /\ FailOver(spent + Takes) /\ Endpoint \in tried
    BY <1>4 DEF Rejected
  <2> QED BY <2>1, <2>2, FailOverKeeps
<1>5. ASSUME NEW how \in {"aborted", "closed"}, GiveUp(how)
      PROVE  QueryInv'
  BY <1>5 DEF GiveUp, QueryBounded, Endpoint
<1>6. CASE CutOff
  <2>1. spent < Budget + waited + attempt * Round + RequestTimeout
    BY <1>6, Rounds, OverpassAssumption DEF CutOff
  <2> QED BY <1>6, <2>1, FailOverKeeps DEF CutOff
<1>7. CASE SlotComes
  <2>1. PICK wait \in QueueWaits : spent' = spent + wait /\ waited' = wait
    BY <1>7 DEF SlotComes
  <2>2. /\ wait \in Nat /\ spent < Budget /\ attempt = 0 /\ 0 * Round = 0 /\ Budget \in Nat
        /\ OneEndpoint \in Nat
    BY <1>7, Rounds, OverpassAssumption DEF SlotComes
  <2>3. /\ attempt' = 0 /\ phase' = "slot"
        /\ UNCHANGED <<endpointList, health, at, attempt, given, outcome, tried, pushedOut, abandoned>>
    BY <1>7, <2>2 DEF SlotComes
  <2>4. spent' < Budget + waited' + attempt' * Round /\ spent' < Budget + waited' + OneEndpoint
    BY <2>1, <2>2, <2>3
  <2>5. outcome = <<>> /\ <<>> # <<"failed">>
    BY <1>7 DEF SlotComes
  <2> QED BY <2>1, <2>2, <2>3, <2>4, <2>5 DEF QueryBounded, Endpoint
<1>8. CASE PushedOut
  <2>1. PICK wait \in QueueWaits : FailOver(spent + wait) /\ waited' = wait
    BY <1>8 DEF PushedOut
  <2>2. /\ wait \in Nat /\ spent < Budget /\ attempt = 0 /\ 0 * Round = 0 /\ Budget \in Nat
        /\ phase = "queued" /\ RequestTimeout \in Nat
    BY <1>8, Rounds, OverpassAssumption DEF PushedOut
  <2>3. spent + wait \in Nat /\ spent + wait < Budget + waited' + attempt * Round + RequestTimeout
    BY <2>1, <2>2
  <2>4. pushedOut' = pushedOut \cup {Endpoint}
    BY <1>8 DEF PushedOut
  <2> QED BY <2>1, <2>2, <2>3, <2>4, FailOverKeeps
<1>9. CASE UNCHANGED overpassVars
  BY <1>9 DEF overpassVars, QueryBounded, Endpoint
<1> QED BY <1>1, <1>2, <1>3, <1>4, <1>5, <1>6, <1>7, <1>8, <1>9 DEF OverpassNext

\* Whatever the endpoints and the queue do and whenever the query is given up, it holds
\* its callers, apart from the wait for its last slot, for its budget and one endpoint
\* at most, leaves no mirror unasked without a reason (the budget, or a full queue that
\* drops its request), and passes no outage off as an answer (overpass-client.ts).
THEOREM QueryStaysBounded == OverpassSpec => []QueryBounded
<1>1. QueryInv => QueryBounded
  BY DEF QueryInv
<1> QED BY <1>1, QueryInvInit, QueryInvStep, PTL DEF OverpassSpec

-----------------------------------------------------------------------------
(* The pages of an ArcGIS layer. *)

Queried == {"new", "checking", "paging", "resolved", "rejected"}
PartOf == [pages : Nat, features : Seq(Features), over : BOOLEAN]

\* What has come of a part is what the service lists first, all of it once the part is
\* over, and only a query of the right layer pages.
PagesInv ==
    /\ identity \in {"none", "asking", "matches"} \cup Barred
    /\ stored \in Stored /\ query \in [Queries -> Queried]
    /\ paged \in [Queries -> [Sides -> PartOf]]
    /\ \A q \in Queries : \A s \in Sides :
          LET came == paged[q][s].features IN
          /\ Len(came) <= Len(stored[s]) /\ \A i \in 1..Len(came) : came[i] = stored[s][i]
          /\ paged[q][s].over /\ q \notin faulted => Len(came) = Len(stored[s])
    /\ \A q \in Queries : /\ query[q] = "resolved" => \A s \in Sides : paged[q][s].over
                          /\ query[q] \in {"paging", "resolved"} => identity = "matches"
    /\ identity = "mismatch" => renumbered

LEMMA StoredShape ==
    ASSUME NEW held \in Stored, NEW s \in Sides
    PROVE  /\ held[s] \in Seq(Features) /\ DOMAIN held[s] = 1..Len(held[s]) /\ Len(held[s]) \in Nat
           /\ \A i, j \in 1..Len(held[s]) : held[s][i] = held[s][j] => i = j
BY ArcgisAssumption

\* What a sequence lists from an offset on.
LEMMA RestShape ==
    ASSUME NEW held \in Seq(Features), NEW k \in Nat, k <= Len(held)
    PROVE  LET rest == SubSeq(held, k + 1, Len(held))
           IN /\ rest \in Seq(Features) /\ Len(rest) = Len(held) - k
              /\ \A i \in 1..Len(rest) : rest[i] = held[k + i]
<1>1. \A i \in (k + 1)..Len(held) : held[i] \in Features
  OBVIOUS
<1>2. SubSeq(held, k + 1, Len(held)) = [i \in 1..(Len(held) - k) |-> held[k + i]]
  OBVIOUS
<1> QED BY <1>1, <1>2

\* Two stretches that agree with a sequence one after the other agree with it joined.
LEMMA JoinAgrees ==
    ASSUME NEW all, NEW came, NEW page, NEW rest, NEW held, NEW k \in Nat, NEW n \in Nat, NEW m \in Nat,
           n <= m, \A i \in 1..k : came[i] = held[i], \A i \in 1..m : rest[i] = held[k + i],
           \A i \in 1..n : page[i] = rest[i],
           \A i \in 1..(k + n) : all[i] = IF i <= k THEN came[i] ELSE page[i - k]
    PROVE  \A i \in 1..(k + n) : all[i] = held[i]
<1> TAKE i \in 1..(k + n)
<1>1. CASE i <= k
  BY <1>1
<1>2. CASE i > k
  <2>1. i - k \in 1..n /\ i - k \in 1..m /\ k + (i - k) = i
    BY <1>2
  <2>2. page[i - k] = rest[i - k] /\ rest[i - k] = held[k + (i - k)]
    BY <2>1
  <2> QED BY <1>2, <2>1, <2>2
<1> QED BY <1>1, <1>2

\* Another page adds to what came before it what the service lists next.
LEMMA PageAdds ==
    ASSUME NEW held \in Seq(Features), NEW came \in Seq(Features), Len(came) <= Len(held),
           \A i \in 1..Len(came) : came[i] = held[i],
           NEW n \in Nat, n <= Len(held) - Len(came)
    PROVE  LET all == came \o SubSeq(SubSeq(held, Len(came) + 1, Len(held)), 1, n)
           IN /\ all \in Seq(Features) /\ Len(all) = Len(came) + n
              /\ \A i \in 1..Len(all) : all[i] = held[i]
<1> DEFINE rest == SubSeq(held, Len(came) + 1, Len(held))
           page == SubSeq(rest, 1, n)
<1>1. Len(came) \in Nat /\ Len(held) \in Nat
  OBVIOUS
<1>2. /\ rest \in Seq(Features) /\ Len(rest) = Len(held) - Len(came)
      /\ \A i \in 1..Len(rest) : rest[i] = held[Len(came) + i]
  BY <1>1, RestShape
<1> HIDE DEF rest
<1>3. /\ page \in Seq(Features) /\ Len(page) = n
      /\ \A i \in 1..n : page[i] = rest[i]
  <2>1. page = [i \in 1..n |-> rest[i]]
    BY <1>1, <1>2
  <2> QED BY <1>1, <1>2, <2>1
<1> HIDE DEF page
<1>4. /\ came \o page \in Seq(Features) /\ Len(came \o page) = Len(came) + n
      /\ \A i \in 1..(Len(came) + n) :
            (came \o page)[i] = IF i <= Len(came) THEN came[i] ELSE page[i - Len(came)]
  BY SMTT(20), <1>1, <1>3
<1>5. \A i \in 1..(Len(came) + n) : (came \o page)[i] = held[i]
  <2> DEFINE all == came \o page
             k == Len(came)
             m == Len(rest)
  <2>1. /\ k \in Nat /\ m \in Nat /\ n <= m
        /\ \A i \in 1..k : came[i] = held[i]
        /\ \A i \in 1..m : rest[i] = held[k + i]
        /\ \A i \in 1..n : page[i] = rest[i]
        /\ \A i \in 1..(k + n) : all[i] = IF i <= k THEN came[i] ELSE page[i - k]
    BY <1>1, <1>2, <1>3, <1>4
  <2> HIDE DEF all, k, m
  <2>2. \A i \in 1..(k + n) : all[i] = held[i]
    BY <2>1, JoinAgrees
  <2> QED BY <2>2 DEF all, k
<1> QED BY <1>4, <1>5 DEF page, rest

LEMMA PageKeeps ==
    ASSUME PagesInv, NEW q \in Queries, NEW side \in Sides, Page(q, side)
    PROVE  PagesInv'
<1> USE DEF PagesInv
<1> DEFINE p == paged[q][side]
           L == Len(p.features)
           N == Len(stored[side])
<1>1. /\ p \in PartOf /\ p.features \in Seq(Features) /\ L \in Nat /\ p.pages \in Nat
      /\ stored[side] \in Seq(Features) /\ N \in Nat /\ L <= N
  BY StoredShape DEF PartOf
<1>2. Rest(side, L) \in Seq(Features) /\ Len(Rest(side, L)) = N - L
  BY <1>1, RestShape DEF Rest
<1>3. PICK error, pinned \in BOOLEAN, n \in 0..PageSize :
        LET rest == Rest(side, L)
            sent == IF error THEN 0 ELSE n
            more == ~error /\ (pinned \/ n < Len(rest))
            over == LastPage(sent, more)
        IN /\ n <= Len(rest) /\ (n = 0 => error \/ rest = <<>>)
           /\ faulted' = IF error THEN faulted \cup {q} ELSE faulted
           /\ paged' = [paged EXCEPT ![q][side] =
                 [pages |-> p.pages + 1, features |-> p.features \o SubSeq(rest, 1, sent), over |-> over]]
           /\ query' = [query EXCEPT ![q] = IF ~over /\ p.pages + 1 = MaxPages THEN "rejected" ELSE @]
  BY DEF Page, Offset
<1> DEFINE sent == IF error THEN 0 ELSE n
           more == ~error /\ (pinned \/ n < Len(Rest(side, L)))
           over == LastPage(sent, more)
           all == p.features \o SubSeq(Rest(side, L), 1, sent)
           now == [pages |-> p.pages + 1, features |-> all, over |-> over]
<1>4. /\ faulted' = IF error THEN faulted \cup {q} ELSE faulted
      /\ paged' = [paged EXCEPT ![q][side] = now]
      /\ query' = [query EXCEPT ![q] = IF ~over /\ p.pages + 1 = MaxPages THEN "rejected" ELSE @]
      /\ n <= Len(Rest(side, L)) /\ (n = 0 => error \/ Rest(side, L) = <<>>)
  BY <1>3
<1>5. query[q] = "paging" /\ UNCHANGED <<identity, renumbered, stored>>
  BY DEF Page
<1>6. n \in Nat /\ sent \in Nat /\ sent <= N - L /\ (n = 0 => error \/ N = L) /\ L + sent <= N
  <2>1. n \in Nat
    BY ArcgisAssumption
  <2>2. Rest(side, L) = <<>> => N - L = 0
    BY <1>2
  <2>3. n <= N - L
    BY <1>2, <1>4
  <2> HIDE DEF L, N
  <2> QED BY <1>1, <1>4, <2>1, <2>2, <2>3
<1>7. /\ all \in Seq(Features) /\ Len(all) = L + sent
      /\ \A i \in 1..Len(all) : all[i] = stored[side][i]
  BY ZenonT(30), <1>1, <1>6, PageAdds DEF Rest
<1>8. over \in BOOLEAN /\ (over /\ ~error => Len(all) = N)
  <2>1. over <=> ~more \/ sent = 0
    BY DEF LastPage
  <2>2. over \in BOOLEAN
    BY DEF LastPage
  <2>3. ASSUME over, ~error
        PROVE  sent = N - L
    <3>1. sent = n
      BY <2>3
    <3>2. CASE sent = 0
      <4> HIDE DEF L, N, sent
      <4> QED BY <1>1, <1>6, <2>3, <3>1, <3>2
    <3>3. CASE ~more
      <4>1. ~(n < N - L)
        BY <1>2, <2>3, <3>3
      <4> HIDE DEF L, N, sent
      <4> QED BY <1>1, <1>6, <3>1, <4>1
    <3> QED BY <2>1, <2>3, <3>2, <3>3
  <2> HIDE DEF L, N, sent, all, over
  <2> QED BY <1>1, <1>7, <2>2, <2>3
<1> HIDE DEF all, over, L, N
<1>9. now \in PartOf /\ now.features = all /\ now.over = over
  BY <1>1, <1>7, <1>8 DEF PartOf
<1> HIDE DEF now, p
<1>10. /\ paged' \in [Queries -> [Sides -> PartOf]] /\ paged'[q][side] = now
       /\ \A r \in Queries : \A s \in Sides : r # q \/ s # side => paged'[r][s] = paged[r][s]
  BY <1>4, <1>9
<1>11. /\ query' \in [Queries -> Queried] /\ query'[q] \in {"paging", "rejected"}
       /\ \A r \in Queries \ {q} : query'[r] = query[r]
  BY <1>4, <1>5 DEF Queried
<1>12. ASSUME NEW r \in Queries, NEW s \in Sides
       PROVE  LET came == paged'[r][s].features IN
              /\ Len(came) <= Len(stored[s]) /\ \A i \in 1..Len(came) : came[i] = stored[s][i]
              /\ paged'[r][s].over /\ r \notin faulted' => Len(came) = Len(stored[s])
  <2>1. CASE r = q /\ s = side
    <3>1. q \notin faulted' => ~error
      BY <1>4
    <3>2. paged'[r][s].features = all /\ paged'[r][s].over = over
      BY <1>9, <1>10, <2>1
    <3>3. Len(all) <= N
      BY <1>6, <1>7
    <3> QED BY <1>7, <1>8, <2>1, <3>1, <3>2, <3>3 DEF N
  <2>2. CASE r # q \/ s # side
    <3>1. r \notin faulted' => r \notin faulted
      BY <1>4
    <3> QED BY <1>10, <2>2, <3>1
  <2> QED BY <2>1, <2>2
<1>13. \A r \in Queries : /\ query'[r] = "resolved" => \A s \in Sides : paged'[r][s].over
                          /\ query'[r] \in {"paging", "resolved"} => identity' = "matches"
  BY <1>5, <1>10, <1>11
<1> QED BY <1>5, <1>10, <1>11, <1>12, <1>13

LEMMA PagesInvInit == ArcgisInit => PagesInv
<1> SUFFICES ASSUME ArcgisInit
             PROVE  PagesInv
  OBVIOUS
<1>1. NoPages \in PartOf /\ NoPages.features = <<>> /\ NoPages.over = FALSE
  BY DEF NoPages, PartOf
<1>2. \A s \in Sides : Len(stored[s]) \in Nat
  BY StoredShape DEF ArcgisInit
<1>3. \A q \in Queries : \A s \in Sides : paged[q][s] = NoPages
  BY DEF ArcgisInit
<1>4. \A q \in Queries : query[q] = "new"
  BY DEF ArcgisInit
<1>5. query \in [Queries -> Queried] /\ paged \in [Queries -> [Sides -> PartOf]]
  BY <1>1 DEF ArcgisInit, Queried
<1>6. Len(<<>>) = 0
  OBVIOUS
<1> QED BY <1>1, <1>2, <1>3, <1>4, <1>5, <1>6 DEF ArcgisInit, PagesInv

LEMMA PagesInvStep == PagesInv /\ [ArcgisNext]_arcgisVars => PagesInv'
<1> SUFFICES ASSUME PagesInv, [ArcgisNext]_arcgisVars
             PROVE  PagesInv'
  OBVIOUS
<1>1. ASSUME NEW q \in Queries, Query(q)
      PROVE  PagesInv'
  BY <1>1 DEF Query, PagesInv, Queried
<1>2. CASE Verify
  BY <1>2 DEF Verify, FailOpen, Barred, PagesInv
<1>3. ASSUME NEW q \in Queries, Checked(q)
      PROVE  PagesInv'
  BY <1>3 DEF Checked, Barred, PagesInv, Queried
<1>4. ASSUME NEW q \in Queries, PageFails(q)
      PROVE  PagesInv'
  BY <1>4 DEF PageFails, PagesInv, Queried
<1>5. ASSUME NEW q \in Queries, Resolve(q)
      PROVE  PagesInv'
  BY <1>5 DEF Resolve, PagesInv, Queried
<1>6. ASSUME NEW q \in Queries, NEW s \in Sides, Page(q, s)
      PROVE  PagesInv'
  BY <1>6, PageKeeps
<1>7. CASE UNCHANGED arcgisVars
  BY <1>7 DEF arcgisVars, PagesInv
<1> QED BY <1>1, <1>2, <1>3, <1>4, <1>5, <1>6, <1>7 DEF ArcgisNext

\* Merging the parts as the service holds them keeps each feature just once.
LEMMA MergeIsWhole ==
    ASSUME stored \in Stored
    PROVE  WholeOnce(stored)
<1> DEFINE merged == MergeFeatureSets(stored)
<1>1. \A place : place \in Places(stored) <=>
        \E s \in Sides : \E i \in 1..Len(stored[s]) : place = <<s, i>>
  BY DEF Places
<1>2. \A s \in Sides : \A i \in 1..Len(stored[s]) : At(stored, <<s, i>>) = stored[s][i]
  BY DEF At
<1>3. \A s, t \in Sides : \A i, j \in Nat :
        Precedes(<<s, i>>, <<t, j>>) <=> (s = "west" /\ t = "east") \/ (s = t /\ i < j)
  BY DEF Precedes
<1>4. \A s \in Sides : Len(stored[s]) \in Nat /\ DOMAIN stored[s] = 1..Len(stored[s])
  BY StoredShape
<1>5. ASSUME NEW t \in Sides, NEW j \in 1..Len(stored[t]),
             t = "east" => \A i \in 1..Len(stored["west"]) : stored["west"][i] # stored[t][j]
      PROVE  <<t, j>> \in merged
  <2>1. <<t, j>> \in Places(stored)
    BY <1>1
  <2>2. ASSUME NEW a \in Places(stored), Precedes(a, <<t, j>>), At(stored, a) = At(stored, <<t, j>>)
        PROVE  FALSE
    <3>1. PICK s \in Sides : \E i \in 1..Len(stored[s]) : a = <<s, i>>
      BY <1>1
    <3>2. PICK i \in 1..Len(stored[s]) : a = <<s, i>>
      BY <3>1
    <3>3. stored[s][i] = stored[t][j]
      BY <1>2, <2>2, <3>2
    <3>4. (s = "west" /\ t = "east") \/ (s = t /\ i < j)
      BY <1>3, <1>4, <2>2, <3>2
    <3>5. CASE s = "west" /\ t = "east"
      BY <1>5, <3>3, <3>5
    <3>6. CASE s = t /\ i < j
      BY <3>3, <3>6, StoredShape
    <3> QED BY <3>4, <3>5, <3>6
  <2> QED BY <2>1, <2>2 DEF MergeFeatureSets
<1>6. {At(stored, place) : place \in merged} = UNION {Range(stored[s]) : s \in Sides}
  <2>1. ASSUME NEW place \in merged
        PROVE  At(stored, place) \in UNION {Range(stored[s]) : s \in Sides}
    <3>1. PICK s \in Sides : \E i \in 1..Len(stored[s]) : place = <<s, i>>
      BY <1>1 DEF MergeFeatureSets
    <3>2. PICK i \in 1..Len(stored[s]) : place = <<s, i>>
      BY <3>1
    <3> QED BY <1>2, <1>4, <3>2 DEF Range
  <2>2. ASSUME NEW x \in UNION {Range(stored[s]) : s \in Sides}
        PROVE  \E place \in merged : At(stored, place) = x
    <3>1. PICK t \in Sides : x \in Range(stored[t])
      OBVIOUS
    <3>2. PICK j \in 1..Len(stored[t]) : x = stored[t][j]
      BY <1>4, <3>1 DEF Range
    <3>3. CASE t = "east" => \A i \in 1..Len(stored["west"]) : stored["west"][i] # x
      BY <1>2, <1>5, <3>2, <3>3
    <3>4. CASE ~(t = "east" => \A i \in 1..Len(stored["west"]) : stored["west"][i] # x)
      <4>1. PICK i \in 1..Len(stored["west"]) : stored["west"][i] = x
        BY <3>4
      <4>2. <<"west", i>> \in merged
        BY <1>5 DEF Sides
      <4> QED BY <1>2, <4>1, <4>2 DEF Sides
    <3> QED BY <3>3, <3>4
  <2> QED BY <2>1, <2>2
<1>7. ASSUME NEW a \in merged, NEW b \in merged, At(stored, a) = At(stored, b)
      PROVE  a = b
  <2>1. a \in Places(stored) /\ b \in Places(stored) /\ ~Precedes(a, b) /\ ~Precedes(b, a)
    BY <1>7 DEF MergeFeatureSets
  <2>2. PICK s \in Sides : \E i \in 1..Len(stored[s]) : a = <<s, i>>
    BY <1>1, <2>1
  <2>3. PICK i \in 1..Len(stored[s]) : a = <<s, i>>
    BY <2>2
  <2>4. PICK t \in Sides : \E j \in 1..Len(stored[t]) : b = <<t, j>>
    BY <1>1, <2>1
  <2>5. PICK j \in 1..Len(stored[t]) : b = <<t, j>>
    BY <2>4
  <2>6. s = t
    BY <1>3, <1>4, <2>1, <2>3, <2>5 DEF Sides
  <2>7. ~(i < j) /\ ~(j < i) /\ i \in Nat /\ j \in Nat
    BY <1>3, <1>4, <2>1, <2>3, <2>5, <2>6
  <2> QED BY <2>3, <2>5, <2>6, <2>7
<1> HIDE DEF merged
<1> QED BY <1>6, <1>7 DEF WholeOnce, merged

\* However the pages of a layer are cut, whoever asks first and whatever fails on the
\* way, a query that resolves without an error answer has the whole layer, each feature
\* once; none resolves once the check of the layer rejects, for another name or for an
\* answer without one; and no other name is found where there is none (arcgis-query.ts).
THEOREM QueriesAreComplete == ArcgisSpec => []QueryComplete
<1>1. PagesInv => QueryComplete
  <2> SUFFICES ASSUME PagesInv
               PROVE  QueryComplete
    OBVIOUS
  <2> USE DEF PagesInv
  <2>1. ASSUME NEW q \in Queries, query[q] = "resolved", q \notin faulted
        PROVE  WholeOnce(Parts(q))
    <3>1. ASSUME NEW s \in Sides
          PROVE  paged[q][s].features = stored[s]
      <4>1. paged[q][s] \in PartOf /\ paged[q][s].over
        BY <2>1
      <4>2. paged[q][s].features \in Seq(Features) /\ stored[s] \in Seq(Features)
        BY <4>1, StoredShape DEF PartOf
      <4>3. /\ Len(paged[q][s].features) = Len(stored[s])
            /\ \A i \in 1..Len(stored[s]) : paged[q][s].features[i] = stored[s][i]
        BY <2>1, <4>1
      <4>4. \A one, other \in Seq(Features) :
              Len(one) = Len(other) /\ (\A i \in 1..Len(other) : one[i] = other[i]) => one = other
        OBVIOUS
      <4> QED BY <4>2, <4>3, <4>4
    <3>2. stored = [s \in Sides |-> stored[s]]
      BY ArcgisAssumption
    <3>3. Parts(q) = stored
      BY <3>1, <3>2 DEF Parts
    <3> QED BY <3>3, MergeIsWhole
  <2>2. identity \in Barred => \A q \in Queries : query[q] # "resolved"
    BY DEF Barred
  <2> QED BY <2>1, <2>2 DEF QueryComplete
<1> QED BY <1>1, PagesInvInit, PagesInvStep, PTL DEF ArcgisSpec

-----------------------------------------------------------------------------
(* The two renderings of a chart source's record.  No record is assumed to be one the *)
(* wire may hold: they agree by how its fields are read. *)

\* The facts are of these fields.
Of(facts, fields) == \A fact \in facts : fact[1] \in fields

LEMMA FactsOf ==
    ASSUME NEW r, NEW fields
    PROVE  /\ Of(Present(r, fields), fields) /\ Of(Finite(r, fields), fields)
           /\ Of(LabelFor(r, fields), fields) /\ Of(Granted(r, fields), fields)
           /\ Of(Given(r, fields), fields)
  BY DEF Of, Present, Finite, LabelFor, Granted, Given

\* Each way of reading a record takes its fields one by one.
LEMMA PresentSeparately ==
    ASSUME NEW r, NEW A, NEW B PROVE Present(r, A \cup B) = Present(r, A) \cup Present(r, B)
  BY DEF Present

LEMMA FiniteSeparately ==
    ASSUME NEW r, NEW A, NEW B PROVE Finite(r, A \cup B) = Finite(r, A) \cup Finite(r, B)
  BY DEF Finite

LEMMA GivenSeparately ==
    ASSUME NEW r, NEW A, NEW B PROVE Given(r, A \cup B) = Given(r, A) \cup Given(r, B)
  BY DEF Given

LEMMA ReadNone ==
    ASSUME NEW r
    PROVE  Present(r, {}) = {} /\ Finite(r, {}) = {} /\ Given(r, {}) = {}
  BY DEF Present, Finite, Given

Agree(k, r) ==
    /\ Html(k, r) \ Sections(k, r) = OnlyInHtml(k, r)
    /\ Sections(k, r) \ Html(k, r) = OnlyInSections(k, r)

LEMMA PilotApart ==
    ASSUME NEW r
    PROVE  /\ PilotagePhrase(r) \ PilotageItems(r) =
                 IF WpiFlag(r, "ptCompulsory") = "N" THEN Granted(r, {"ptAdvisable"}) ELSE {}
           /\ PilotageItems(r) \ PilotagePhrase(r) =
                 IF Granted(r, {"ptAdvisable"}) # {}
                   THEN {<<"ptCompulsory", v>> : v \in {WpiFlag(r, "ptCompulsory")} \cap {"N"}}
                   ELSE {}
<1>1. WpiFlag(r, "ptCompulsory") \in {"Y", "N", "U"} /\ WpiFlag(r, "ptAdvisable") \in {"Y", "N", "U"}
  BY DEF WpiFlag
<1>2. Granted(r, {"ptAdvisable"}) =
         IF WpiFlag(r, "ptAdvisable") = "Y" THEN {<<"ptAdvisable", "Y">>} ELSE {}
  BY DEF Granted
<1>3. CASE WpiFlag(r, "ptCompulsory") = "Y"
  BY <1>2, <1>3 DEF PilotagePhrase, PilotageItems
<1>4. CASE WpiFlag(r, "ptCompulsory") = "N"
  <2>1. PilotageItems(r) = {<<"ptCompulsory", "N">>}
    BY <1>4 DEF PilotageItems
  <2>2. CASE WpiFlag(r, "ptAdvisable") = "Y"
    <3>1. PilotagePhrase(r) = {<<"ptAdvisable", "Y">>}
      BY <1>4, <2>2 DEF PilotagePhrase
    <3>2. {<<"ptCompulsory", v>> : v \in {WpiFlag(r, "ptCompulsory")} \cap {"N"}}
             = {<<"ptCompulsory", "N">>}
      BY <1>4
    <3>3. <<"ptCompulsory", "N">> # <<"ptAdvisable", "Y">>
      OBVIOUS
    <3>4. QED
      BY <1>2, <1>4, <2>1, <2>2, <3>1, <3>2, <3>3
  <2>3. CASE WpiFlag(r, "ptAdvisable") # "Y"
    <3>1. PilotagePhrase(r) = {<<"ptCompulsory", "N">>}
      BY <1>4, <2>3 DEF PilotagePhrase
    <3>2. QED
      BY <1>2, <1>4, <2>1, <2>3, <3>1
  <2>4. QED
    BY <2>2, <2>3
<1>5. CASE WpiFlag(r, "ptCompulsory") = "U"
  <2>1. PilotageItems(r) = Granted(r, {"ptAdvisable"})
    BY <1>5 DEF PilotageItems
  <2>2. PilotagePhrase(r) = Granted(r, {"ptAdvisable"})
    BY <1>1, <1>2, <1>5 DEF PilotagePhrase
  <2>3. {<<"ptCompulsory", v>> : v \in {WpiFlag(r, "ptCompulsory")} \cap {"N"}} = {}
    BY <1>5
  <2>4. QED
    BY <1>5, <2>1, <2>2, <2>3
<1>6. QED
  BY <1>1, <1>3, <1>4, <1>5

LEMMA PortsAgree == ASSUME NEW r PROVE Agree("port", r)
<1> DEFINE common ==
        LabelFor(r, PortCodes) \cup EntranceRestrictions(r) \cup Overhead(r)
        \cup MeterValue(r, PortNumbers) \cup Tugs(r)
        \cup Granted(r, {"medFacilities", "qtPratique"}) \cup AvailableSupplies(r)
        \cup Present(r, {"publicationNumber", "chartNumber", "navArea"})
<1> DEFINE pilot == {"ptCompulsory", "ptAdvisable"}
<1> DEFINE names == {"alternateName", "countryName"}
<1>1. Html("port", r) = PortDisplayName(r) \cup common \cup PilotagePhrase(r)
  <2>1. Html("port", r) = RenderWpiDetail(r)
    BY DEF Html, EncKinds
  <2>2. QED
    BY <2>1 DEF RenderWpiDetail
<1>2. Sections("port", r) = common \cup PilotageItems(r)
  <2>1. Sections("port", r) = BuildWpiSections(r)
    BY DEF Sections, EncKinds
  <2>2. QED
    BY <2>1 DEF BuildWpiSections
<1>3. \A fact \in common : fact[1] \notin pilot \cup names
  <2>1. \A fact \in Overhead(r) : fact[1] = "overheadLimits"
    BY DEF Overhead
  <2>2. \A fact \in Tugs(r) : fact[1] \in {"tugsAssist", "tugsSalvage"}
    BY DEF Tugs, Granted
  <2>3. /\ \A fact \in LabelFor(r, PortCodes) : fact[1] \in PortCodes
        /\ \A fact \in EntranceRestrictions(r) : fact[1] \in {"erTide", "erSwell", "erIce", "erOther"}
        /\ \A fact \in MeterValue(r, PortNumbers) : fact[1] \in PortNumbers
        /\ \A fact \in Granted(r, {"medFacilities", "qtPratique"}) :
              fact[1] \in {"medFacilities", "qtPratique"}
        /\ \A fact \in AvailableSupplies(r) :
              fact[1] \in {"suProvisions", "suWater", "suFuel", "suDiesel"}
        /\ \A fact \in Present(r, {"publicationNumber", "chartNumber", "navArea"}) :
              fact[1] \in {"publicationNumber", "chartNumber", "navArea"}
    BY FactsOf DEF Of, EntranceRestrictions, MeterValue, AvailableSupplies
  <2>4. QED
    BY <2>1, <2>2, <2>3 DEF PortCodes, PortNumbers
<1>4. /\ \A fact \in PilotagePhrase(r) : fact[1] \in pilot
      /\ \A fact \in PilotageItems(r) : fact[1] \in pilot
  BY DEF PilotagePhrase, PilotageItems, Granted
<1>5. \A fact \in PortDisplayName(r) : fact[1] \in names
  BY FactsOf DEF Of, PortDisplayName
<1>6. pilot \cap names = {}
  OBVIOUS
<1> HIDE DEF common, pilot, names
<1>7. /\ Html("port", r) \ Sections("port", r)
           = PortDisplayName(r) \cup (PilotagePhrase(r) \ PilotageItems(r))
      /\ Sections("port", r) \ Html("port", r) = PilotageItems(r) \ PilotagePhrase(r)
  BY <1>1, <1>2, <1>3, <1>4, <1>5, <1>6
<1>8. OnlyInSections("port", r) =
         IF Granted(r, {"ptAdvisable"}) # {}
           THEN {<<"ptCompulsory", v>> : v \in {WpiFlag(r, "ptCompulsory")} \cap {"N"}} ELSE {}
  BY DEF OnlyInSections, EncKinds
<1>9. OnlyInHtml("port", r) = PortDisplayName(r) \cup
         (IF WpiFlag(r, "ptCompulsory") = "N" THEN Granted(r, {"ptAdvisable"}) ELSE {})
  BY DEF OnlyInHtml
<1>10. QED
  BY <1>7, <1>8, <1>9, PilotApart DEF Agree

LEMMA FeaturesAgree == ASSUME NEW r, NEW k \in EncKinds PROVE Agree(k, r)
<1> DEFINE common ==
        CategoryLabel(k, r) \cup LookupCode(r, {"WATLEV", "TECSOU"}) \cup Sounding(r)
        \cup PositionQuality(r) \cup Present(r, {"OBJNAM", "INFORM", "DSNM"})
<1> DEFINE dated == IF Present(r, {"DSNM"}) = {} THEN {} ELSE Surveyed(r)
<1>1. k # "port" /\ k # "lock" /\ k # "seamark"
  BY DEF EncKinds
<1>2. Html(k, r) = common \cup dated
  <2>1. Html(k, r) = RenderEncDirectDetail(k, r)
    BY DEF Html, EncKinds
  <2>2. QED
    BY <2>1 DEF RenderEncDirectDetail
<1>3. LET dangerous == ClassifyDangerous(CategoryLabel(k, r))
      IN (IF dangerous # {} THEN dangerous ELSE CategoryLabel(k, r)) = CategoryLabel(k, r)
  <2>1. \A a, b \in CategoryLabel(k, r) : a = b
    BY DEF CategoryLabel, Present
  <2>2. QED
    BY <2>1 DEF ClassifyDangerous
<1>4. Sections(k, r) = common \cup Surveyed(r)
  <2>1. Sections(k, r) = BuildNoaaEncSections(k, r)
    BY DEF Sections, EncKinds
  <2>2. QED
    BY <1>3, <2>1 DEF BuildNoaaEncSections
<1>5. \A fact \in common : fact[1] # "SORDAT"
  <2>1. \A fact \in CategoryLabel(k, r) : fact[1] \in {"CATWRK", "CATOBS"}
    BY DEF CategoryLabel, Present
  <2>2. \A fact \in Sounding(r) : fact[1] \in {"VALSOU", "SOUACC"}
    BY DEF Sounding, Finite
  <2>3. \A fact \in PositionQuality(r) : fact[1] = "QUASOU"
    BY DEF PositionQuality
  <2>4. /\ \A fact \in LookupCode(r, {"WATLEV", "TECSOU"}) : fact[1] \in {"WATLEV", "TECSOU"}
        /\ \A fact \in Present(r, {"OBJNAM", "INFORM", "DSNM"}) :
              fact[1] \in {"OBJNAM", "INFORM", "DSNM"}
    BY FactsOf DEF Of, LookupCode
  <2>5. QED
    BY <2>1, <2>2, <2>3, <2>4
<1>6. \A fact \in Surveyed(r) : fact[1] = "SORDAT"
  <2>1. Surveyed(r) \subseteq {<<"SORDAT", r["SORDAT"]>>}
    BY DEF Surveyed
  <2>2. QED
    BY <2>1
<1> HIDE DEF common
<1>7. /\ Html(k, r) \ Sections(k, r) = {}
      /\ Sections(k, r) \ Html(k, r) = IF Present(r, {"DSNM"}) = {} THEN Surveyed(r) ELSE {}
  BY <1>2, <1>4, <1>5, <1>6
<1>8. OnlyInHtml(k, r) = {}
      /\ OnlyInSections(k, r) = IF Present(r, {"DSNM"}) = {} THEN Surveyed(r) ELSE {}
  BY <1>1 DEF OnlyInHtml, OnlyInSections
<1>9. QED
  BY <1>7, <1>8 DEF Agree

LEMMA LocksAgree == ASSUME NEW r PROVE Agree("lock", r)
<1> DEFINE texts == Present(r, LockTexts \ {"RIVER"})
<1> DEFINE numbers == Finite(r, LockNumbers \ {"RIVERMI"})
<1>1. Html("lock", r) = texts \cup RiverParagraph(r, "RIVER", {"RIVERMI"}) \cup numbers
  <2>1. Html("lock", r) = RenderLock(r)
    BY DEF Html, EncKinds
  <2>2. QED
    BY <2>1 DEF RenderLock
<1>2. Sections("lock", r) = texts \cup Present(r, {"RIVER"}) \cup Finite(r, {"RIVERMI"}) \cup numbers
  <2>1. Sections("lock", r) = LockSections(r)
    BY DEF Sections, EncKinds
  <2>2. /\ LockTexts = (LockTexts \ {"RIVER"}) \cup {"RIVER"}
        /\ LockNumbers = (LockNumbers \ {"RIVERMI"}) \cup {"RIVERMI"}
    BY DEF LockTexts, LockNumbers
  <2>3. Present(r, LockTexts) = texts \cup Present(r, {"RIVER"})
    BY <2>2, PresentSeparately
  <2>4. Finite(r, LockNumbers) = numbers \cup Finite(r, {"RIVERMI"})
    BY <2>2, FiniteSeparately
  <2> HIDE DEF texts, numbers
  <2>5. QED
    BY <2>1, <2>3, <2>4 DEF LockSections
<1>3. /\ \A fact \in texts : fact[1] \in LockTexts
      /\ \A fact \in numbers : fact[1] \in LockNumbers \ {"RIVERMI"}
      /\ \A fact \in Finite(r, {"RIVERMI"}) : fact[1] = "RIVERMI"
  BY FactsOf DEF Of
<1>4. "RIVERMI" \notin LockTexts
  BY DEF LockTexts
<1> HIDE DEF texts, numbers
<1>5. /\ Html("lock", r) \ Sections("lock", r) = {}
      /\ Sections("lock", r) \ Html("lock", r) =
            IF Present(r, {"RIVER"}) = {} THEN Finite(r, {"RIVERMI"}) ELSE {}
  BY <1>1, <1>2, <1>3, <1>4 DEF RiverParagraph
<1>6. OnlyInHtml("lock", r) = {}
      /\ OnlyInSections("lock", r) = IF Present(r, {"RIVER"}) = {} THEN Finite(r, {"RIVERMI"}) ELSE {}
  BY DEF OnlyInHtml, OnlyInSections, EncKinds
<1>7. QED
  BY <1>5, <1>6 DEF Agree

\* Of the other kinds nothing but the words for a seamark's type is on one side alone.
LEMMA AgreeWhole ==
    ASSUME NEW r, NEW k \in {"dam", "notice", "discrepancy", "light", "station"},
           Html(k, r) = Sections(k, r)
    PROVE  Agree(k, r)
  BY DEF Agree, OnlyInHtml, OnlyInSections, EncKinds

LEMMA DamsAgree == ASSUME NEW r PROVE Agree("dam", r)
<1>1. Html("dam", r) = RenderDam(r) /\ Sections("dam", r) = DamSections(r)
  BY DEF Html, Sections, EncKinds
<1>2. DamTexts = (DamTexts \ {"RIVER_OR_STREAM"}) \cup {"RIVER_OR_STREAM"}
  BY DEF DamTexts
<1>3. Present(r, DamTexts) =
         Present(r, DamTexts \ {"RIVER_OR_STREAM"}) \cup Present(r, {"RIVER_OR_STREAM"})
  BY <1>2, PresentSeparately
<1>4. RiverParagraph(r, "RIVER_OR_STREAM", {}) = Present(r, {"RIVER_OR_STREAM"})
  BY ReadNone DEF RiverParagraph
<1>5. RenderDam(r) = DamSections(r)
  BY <1>3, <1>4 DEF RenderDam, DamSections
<1>6. QED
  BY <1>1, <1>5, AgreeWhole

\* What the record does not carry is not told, whichever way it is asked for.
LEMMA GivenOfCarried ==
    ASSUME NEW r, NEW A, NEW B, A \cap DOMAIN r = B \cap DOMAIN r
    PROVE  Given(r, A) = Given(r, B)
  BY DEF Given

LEMMA NoticesAgree == ASSUME NEW r PROVE Agree("notice", r)
<1>1. Html("notice", r) = RenderNotice(r) /\ Sections("notice", r) = NoticeSections(r)
  BY DEF Html, Sections, EncKinds
<1>2. NoticeCategory(r) = Given(r, {"subCategory", "noticeType"})
  <2>1. CASE {"subCategory", "noticeType"} \subseteq DOMAIN r
    BY <2>1 DEF NoticeCategory
  <2>2. CASE "subCategory" \in DOMAIN r /\ "noticeType" \notin DOMAIN r
    <3>1. NoticeCategory(r) = Given(r, {"subCategory"})
      BY <2>2 DEF NoticeCategory
    <3>2. QED
      BY <2>2, <3>1, GivenOfCarried
  <2>3. CASE "subCategory" \notin DOMAIN r
    <3>1. NoticeCategory(r) = Given(r, {"noticeType"})
      BY <2>3 DEF NoticeCategory
    <3>2. QED
      BY <2>3, <3>1, GivenOfCarried
  <2>4. QED
    BY <2>1, <2>2, <2>3
<1>3. Effective(r) = Given(r, {"beginDate", "endDate"})
  <2>1. CASE {"beginDate", "endDate"} \subseteq DOMAIN r
    BY <2>1 DEF Effective
  <2>2. CASE "beginDate" \in DOMAIN r /\ "endDate" \notin DOMAIN r
    <3>1. Effective(r) = Given(r, {"beginDate"})
      BY <2>2 DEF Effective
    <3>2. QED
      BY <2>2, <3>1, GivenOfCarried
  <2>3. CASE "beginDate" \notin DOMAIN r
    <3>1. Effective(r) = Given(r, {"endDate"})
      BY <2>3 DEF Effective
    <3>2. QED
      BY <2>3, <3>1, GivenOfCarried
  <2>4. QED
    BY <2>1, <2>2, <2>3
<1>4. Given(r, {"subCategory", "noticeType", "waterway", "beginDate", "endDate", "description"})
        = Given(r, {"subCategory", "noticeType"}) \cup Given(r, {"waterway", "description"})
          \cup Given(r, {"beginDate", "endDate"})
  <2> DEFINE what == {"subCategory", "noticeType", "waterway", "description"}
  <2>1. {"subCategory", "noticeType", "waterway", "beginDate", "endDate", "description"}
          = what \cup {"beginDate", "endDate"}
    OBVIOUS
  <2>2. Given(r, {"subCategory", "noticeType", "waterway", "beginDate", "endDate", "description"})
          = Given(r, what) \cup Given(r, {"beginDate", "endDate"})
    BY <2>1, GivenSeparately
  <2>3. what = {"subCategory", "noticeType"} \cup {"waterway", "description"}
    OBVIOUS
  <2>4. Given(r, what) = Given(r, {"subCategory", "noticeType"})
                         \cup Given(r, {"waterway", "description"})
    BY <2>3, GivenSeparately
  <2>5. QED
    BY <2>2, <2>4
<1>5. RenderNotice(r) = NoticeSections(r)
  BY <1>2, <1>3, <1>4 DEF RenderNotice, NoticeSections
<1>6. QED
  BY <1>1, <1>5, AgreeWhole

LEMMA DiscrepanciesAgree == ASSUME NEW r PROVE Agree("discrepancy", r)
<1>1. Html("discrepancy", r) = RenderDiscrepancy(r)
      /\ Sections("discrepancy", r) = LnmDiscrepancySections(r)
  BY DEF Html, Sections, EncKinds
<1>2. QED
  BY <1>1, AgreeWhole DEF RenderDiscrepancy, LnmDiscrepancySections

LEMMA LightsAgree == ASSUME NEW r PROVE Agree("light", r)
<1>1. Html("light", r) = RenderLightListDetail(r) /\ Sections("light", r) = BuildLightListSections(r)
  BY DEF Html, Sections, EncKinds
<1> DEFINE rest == {"soundEmitterType", "racon", "remark", "modifiedDate", "inactive"}
<1> DEFINE lamp == {"nominalRange", "focalPlane"}
<1> DEFINE tower == {"structureType", "structureHeight"}
<1> DEFINE daymark == {"daymarkColor", "daymarkShape"}
<1> DEFINE marks == lamp \cup tower
<1> DEFINE shape == marks \cup daymark
<1>2. LightFields = shape \cup rest
  BY DEF LightFields
<1>3. Given(r, LightFields) =
         Given(r, lamp) \cup Given(r, tower) \cup Given(r, daymark) \cup Given(r, rest)
  <2> HIDE DEF lamp, tower, daymark, rest
  <2>1. Given(r, marks) = Given(r, lamp) \cup Given(r, tower)
    BY GivenSeparately
  <2> HIDE DEF marks
  <2>2. Given(r, shape) = Given(r, marks) \cup Given(r, daymark)
    BY GivenSeparately
  <2> HIDE DEF shape
  <2>3. Given(r, LightFields) = Given(r, shape) \cup Given(r, rest)
    BY <1>2, GivenSeparately
  <2>4. QED
    BY <2>1, <2>2, <2>3
<1>4. RenderLightListDetail(r) = BuildLightListSections(r)
  BY <1>3 DEF RenderLightListDetail, BuildLightListSections, LightLine, StructureLine, DaymarkLine
<1>5. QED
  BY <1>1, <1>4, AgreeWhole

LEMMA StationsAgree == ASSUME NEW r PROVE Agree("station", r)
<1>1. Html("station", r) = RenderCoopsDetail(r) /\ Sections("station", r) = BuildCoopsSections(r)
  BY DEF Html, Sections, EncKinds
<1>2. QED
  BY <1>1, AgreeWhole DEF RenderCoopsDetail, BuildCoopsSections

LEMMA SeamarksAgree == ASSUME NEW r PROVE Agree("seamark", r)
<1> DEFINE common == ReadFamilyTags(r) \cup ReadLightTags(r) \cup Present(r, {"information", "notice"})
<1>1. Html("seamark", r) = SeamarkLabel(r) \cup common
  <2>1. Html("seamark", r) = RenderOpenSeaMapDetail(r)
    BY DEF Html, EncKinds
  <2>2. QED
    BY <2>1 DEF RenderOpenSeaMapDetail
<1>2. Sections("seamark", r) = common
  BY DEF Sections, EncKinds, BuildOpenSeaMapSections
<1>3. \A fact \in common : fact[1] # "seamark:type"
  <2>1. \A fact \in ReadFamilyTags(r) : fact[1] \in FamilyTags
    BY FactsOf DEF Of, ReadFamilyTags
  <2>2. /\ \A fact \in ReadLightTags(r) : fact[1] \in LightTags
        /\ \A fact \in Present(r, {"information", "notice"}) : fact[1] \in {"information", "notice"}
    BY FactsOf DEF Of, ReadLightTags
  <2>3. QED
    BY <2>1, <2>2 DEF FamilyTags, LightTags
<1>4. \A fact \in SeamarkLabel(r) : fact[1] = "seamark:type"
  BY FactsOf DEF Of, SeamarkLabel
<1> HIDE DEF common
<1>5. OnlyInHtml("seamark", r) = SeamarkLabel(r) /\ OnlyInSections("seamark", r) = {}
  BY DEF OnlyInHtml, OnlyInSections, EncKinds
<1>6. QED
  BY <1>1, <1>2, <1>3, <1>4, <1>5 DEF Agree

LEMMA KindsAgree == ASSUME NEW r, NEW k \in ChartKinds PROVE Agree(k, r)
<1>1. k \in EncKinds \cup {"port", "lock", "dam", "notice", "discrepancy", "light", "station",
                            "seamark"}
  BY ChartAssumption
<1>2. QED
  BY <1>1, PortsAgree, FeaturesAgree, LocksAgree, DamsAgree, NoticesAgree, DiscrepanciesAgree,
     LightsAgree, StationsAgree, SeamarksAgree

-----------------------------------------------------------------------------
(* The two renderings of a point of interest of ActiveCaptain. *)

\* What a field of a section may hold, and of the rest of the point of interest.
SectionFact(s, f, v) ==
    \/ f \in Availabilities[s] /\ v \in {"Yes", "Nearby", "Unknown"}
    \/ f \in Measurements[s] /\ v \in {"positive", "zero", "negative"}
    \/ f = "notes" /\ v \in {"text", "none"}
    \/ f = "isFree" /\ s \in Priced /\ v \in {"true", "false"}
    \/ f = "current" /\ s = "navigation" /\ v \in {"Strong", "Unknown"}

PointFact(s, f, v) ==
    \/ s = "contact" /\ f \in ContactTexts /\ v \in {"text", ""}
    \/ s = "contact" /\ f = "website" /\ v \in {"https", "javascript"}
    \/ s = "point" /\ f = "notes" /\ v \in {"text", "none"}
    \/ s = "point" /\ f = "dateLastModified" /\ v \in {"recent", "old", "unreadable"}
    \/ s = "reviewSummary" /\ f = "numberOfReviews" /\ v \in {"positive", "zero"}
    \/ s = "featuredReview" /\ f = "text" /\ v \in {"text", ""}

MarinaFilled ==
    \A p \in DOMAIN filled :
        \/ p[1] \in Capabilities /\ SectionFact(p[1], p[2], filled[p])
        \/ PointFact(p[1], p[2], filled[p])

\* One of these tuples is made of its parts.
LEMMA FactOf ==
    ASSUME NEW s, NEW f, NEW values, NEW c \in {<<s, f, v>> : v \in values}
    PROVE  c[1] = s /\ c[2] = f /\ c[3] \in values
  OBVIOUS

LEMMA CarriedFacts ==
    ASSUME NEW c \in Carried
    PROVE  (c[1] \in Capabilities /\ SectionFact(c[1], c[2], c[3])) \/ PointFact(c[1], c[2], c[3])
<1> DEFINE ofSection(s) ==
        ({s} \X Availabilities[s] \X {"Yes", "Nearby", "Unknown"})
        \cup ({s} \X Measurements[s] \X {"positive", "zero", "negative"})
        \cup {<<s, "notes", v>> : v \in {"text", "none"}}
<1> DEFINE sections == UNION {ofSection(s) : s \in Capabilities}
<1> DEFINE prices == Priced \X {"isFree"} \X {"true", "false"}
<1> DEFINE currents == {<<"navigation", "current", v>> : v \in {"Strong", "Unknown"}}
<1> DEFINE contacts == {"contact"} \X ContactTexts \X {"text", ""}
<1> DEFINE websites == {<<"contact", "website", v>> : v \in {"https", "javascript"}}
<1> DEFINE notes == {<<"point", "notes", v>> : v \in {"text", "none"}}
<1> DEFINE dates == {<<"point", "dateLastModified", v>> : v \in {"recent", "old", "unreadable"}}
<1> DEFINE counts == {<<"reviewSummary", "numberOfReviews", v>> : v \in {"positive", "zero"}}
<1> DEFINE reviews == {<<"featuredReview", "text", v>> : v \in {"text", ""}}
<1>0. Carried = sections \cup prices \cup currents \cup contacts \cup websites \cup notes \cup dates
                \cup counts \cup reviews
  BY DEF Carried
<1>1. CASE c \in sections
  <2>1. PICK s \in Capabilities : c \in ofSection(s)
    BY <1>1
  <2>2. QED
    BY <2>1 DEF SectionFact
<1>2. CASE c \in prices
  BY <1>2 DEF SectionFact, Priced, Capabilities
<1>3. CASE c \in currents
  <2>1. c[1] = "navigation" /\ c[2] = "current" /\ c[3] \in {"Strong", "Unknown"}
    BY <1>3, FactOf
  <2>2. QED
    BY <2>1 DEF SectionFact, Capabilities
<1>4. CASE c \in contacts
  BY <1>4 DEF PointFact
<1>5. CASE c \in websites
  <2>1. c[1] = "contact" /\ c[2] = "website" /\ c[3] \in {"https", "javascript"}
    BY <1>5, FactOf
  <2>2. QED
    BY <2>1 DEF PointFact
<1>6. CASE c \in notes
  <2>1. c[1] = "point" /\ c[2] = "notes" /\ c[3] \in {"text", "none"}
    BY <1>6, FactOf
  <2>2. QED
    BY <2>1 DEF PointFact
<1>7. CASE c \in dates
  <2>1. c[1] = "point" /\ c[2] = "dateLastModified" /\ c[3] \in {"recent", "old", "unreadable"}
    BY <1>7, FactOf
  <2>2. QED
    BY <2>1 DEF PointFact
<1>8. CASE c \in counts
  <2>1. c[1] = "reviewSummary" /\ c[2] = "numberOfReviews" /\ c[3] \in {"positive", "zero"}
    BY <1>8, FactOf
  <2>2. QED
    BY <2>1 DEF PointFact
<1>9. CASE c \in reviews
  <2>1. c[1] = "featuredReview" /\ c[2] = "text" /\ c[3] \in {"text", ""}
    BY <1>9, FactOf
  <2>2. QED
    BY <2>1 DEF PointFact
<1> HIDE DEF sections, prices, currents, contacts, websites, notes, dates, counts, reviews
<1>10. QED
  BY <1>0, <1>1, <1>2, <1>3, <1>4, <1>5, <1>6, <1>7, <1>8, <1>9

LEMMA MarinaInit1 == ASSUME MarinaInit PROVE MarinaFilled
  BY DEF MarinaInit, MarinaFilled

LEMMA MarinaStep == ASSUME MarinaFilled, MarinaCarries PROVE MarinaFilled'
<1>1. PICK c \in Carried :
         filled' = [f \in DOMAIN filled \cup {<<c[1], c[2]>>} |->
                       IF f = <<c[1], c[2]>> THEN c[3] ELSE filled[f]]
  BY DEF MarinaCarries
<1>2. ASSUME NEW p \in DOMAIN filled'
      PROVE  (p[1] \in Capabilities /\ SectionFact(p[1], p[2], filled'[p]))
             \/ PointFact(p[1], p[2], filled'[p])
  <2>1. CASE p = <<c[1], c[2]>>
    <3>1. filled'[p] = c[3] /\ p[1] = c[1] /\ p[2] = c[2]
      BY <1>1, <2>1
    <3>2. QED
      BY <3>1, CarriedFacts
  <2>2. CASE p # <<c[1], c[2]>>
    <3>1. p \in DOMAIN filled /\ filled'[p] = filled[p]
      BY <1>1, <1>2, <2>2
    <3>2. QED
      BY <3>1 DEF MarinaFilled
  <2>3. QED
    BY <2>1, <2>2
<1>3. QED
  BY <1>2 DEF MarinaFilled

LEMMA FieldsApart ==
    ASSUME NEW s \in Capabilities
    PROVE  /\ Availabilities[s] \cap Measurements[s] = {}
           /\ \A f \in {"notes", "isFree", "current"} :
                 f \notin Availabilities[s] /\ f \notin Measurements[s]
<1>1. CASE s = "dockage"
  BY <1>1 DEF Availabilities, Measurements
<1>2. CASE s = "mooring"
  BY <1>2 DEF Availabilities, Measurements
<1>3. CASE s = "fuel"
  BY <1>3 DEF Availabilities, Measurements
<1>4. CASE s = "amenities"
  BY <1>4 DEF Availabilities, Measurements
<1>5. CASE s = "services"
  BY <1>5 DEF Availabilities, Measurements
<1>6. CASE s = "retail"
  BY <1>6 DEF Availabilities, Measurements
<1>7. CASE s = "navigation"
  BY <1>7 DEF Availabilities, Measurements
<1>8. CASE s = "business"
  BY <1>8 DEF Availabilities, Measurements
<1>9. QED
  BY <1>1, <1>2, <1>3, <1>4, <1>5, <1>6, <1>7, <1>8 DEF Capabilities

LEMMA ApartFromSections ==
    \A s \in {"contact", "point", "reviewSummary", "featuredReview"} : s \notin Capabilities
  BY DEF Capabilities

LEMMA SectionHolds ==
    ASSUME MarinaFilled, NEW s \in Capabilities, NEW f
    PROVE  Holds(s, f) = "absent" \/ SectionFact(s, f, Holds(s, f))
<1>1. CASE <<s, f>> \in DOMAIN filled
  <2>1. ~PointFact(s, f, filled[<<s, f>>])
    BY ApartFromSections DEF PointFact
  <2>2. QED
    BY <1>1, <2>1 DEF MarinaFilled, Holds
<1>2. CASE <<s, f>> \notin DOMAIN filled
  BY <1>2 DEF Holds
<1>3. QED
  BY <1>1, <1>2

LEMMA PointHolds ==
    ASSUME MarinaFilled, NEW s, s \notin Capabilities, NEW f
    PROVE  Holds(s, f) = "absent" \/ PointFact(s, f, Holds(s, f))
  BY DEF MarinaFilled, Holds

\* What a section's field holds, by how it is read.
LEMMA FieldValues ==
    ASSUME MarinaFilled, NEW s \in Capabilities
    PROVE  /\ \A f \in Measurements[s] : Holds(s, f) \in {"absent", "positive", "zero", "negative"}
           /\ Holds(s, "isFree") \in {"absent", "true", "false"}
           /\ s \notin Priced => Holds(s, "isFree") = "absent"
           /\ s # "navigation" => Holds(s, "current") = "absent"
<1>1. ASSUME NEW f \in Measurements[s]
      PROVE  Holds(s, f) \in {"absent", "positive", "zero", "negative"}
  <2>1. f \notin Availabilities[s] /\ f \notin {"notes", "isFree", "current"}
    BY FieldsApart
  <2>2. QED
    BY <2>1, SectionHolds DEF SectionFact
<1>2. /\ Holds(s, "isFree") \in {"absent", "true", "false"}
      /\ s \notin Priced => Holds(s, "isFree") = "absent"
  <2>1. /\ "isFree" \notin Availabilities[s] /\ "isFree" \notin Measurements[s]
        /\ "isFree" # "notes" /\ "isFree" # "current"
    BY FieldsApart
  <2>2. Holds(s, "isFree") = "absent" \/ SectionFact(s, "isFree", Holds(s, "isFree"))
    BY SectionHolds
  <2>3. QED
    BY <2>1, <2>2 DEF SectionFact
<1>3. s # "navigation" => Holds(s, "current") = "absent"
  <2>1. /\ "current" \notin Availabilities[s] /\ "current" \notin Measurements[s]
        /\ "current" # "notes" /\ "isFree" # "current"
    BY FieldsApart
  <2>2. Holds(s, "current") = "absent" \/ SectionFact(s, "current", Holds(s, "current"))
    BY SectionHolds
  <2>3. QED
    BY <2>1, <2>2 DEF SectionFact
<1>4. QED
  BY <1>1, <1>2, <1>3

\* The predicates of the sections are of one form.
LEMMA ShownFor ==
    ASSUME NEW s \in Capabilities
    PROVE  IsShown(s) <=>
              \/ IsDefinite(s) \/ HasNotes(s) \/ IsPositive(s, Measurements[s])
              \/ s = "dockage" /\ Holds(s, "isFree") # "absent"
              \/ s = "navigation" /\ Holds(s, "current") = "Strong"
<1>1. CASE s = "dockage"
  <2>1. IsShown(s) <=> HasDockage
    BY <1>1 DEF IsShown
  <2>2. Measurements[s] = {"total", "transient", "loaMax", "beamMax"}
    BY <1>1 DEF Measurements
  <2>3. QED
    BY <1>1, <2>1, <2>2 DEF HasDockage
<1>2. CASE s = "mooring"
  <2>1. IsShown(s) <=> HasMooring
    BY <1>2 DEF IsShown
  <2>2. Measurements[s] = {"transient", "total"}
    BY <1>2 DEF Measurements
  <2>3. QED
    BY <1>2, <2>1, <2>2 DEF HasMooring
<1>3. CASE s = "fuel"
  <2>1. IsShown(s) <=> HasFuel
    BY <1>3 DEF IsShown
  <2>2. Measurements[s] = {"depthFuel"}
    BY <1>3 DEF Measurements
  <2>3. QED
    BY <1>3, <2>1, <2>2 DEF HasFuel
<1>4. CASE s = "navigation"
  <2>1. IsShown(s) <=> HasNavigation
    BY <1>4 DEF IsShown
  <2>2. Measurements[s] = {"bridgeHeight", "tide", "depthApproach"}
    BY <1>4 DEF Measurements
  <2>3. QED
    BY <1>4, <2>1, <2>2 DEF HasNavigation
<1>5. CASE s \in {"amenities", "services", "retail", "business"}
  <2>1. IsShown(s) <=> HasPlain(s)
    BY <1>5 DEF IsShown
  <2>2. Measurements[s] = {}
    BY <1>5 DEF Measurements
  <2>3. ~IsPositive(s, {})
    BY DEF IsPositive
  <2>4. QED
    BY <1>5, <2>1, <2>2, <2>3 DEF HasPlain
<1>6. QED
  BY <1>1, <1>2, <1>3, <1>4, <1>5 DEF Capabilities

\* The items of a section, and the lines of one below zero.
Items(s) == PushFreeFlag(s) \cup PushMeasure(s) \cup PushAvailability(s)
            \cup Facts(s, {"current"}, {"Strong"}) \cup Facts(s, {"notes"}, {"text"})
Below(s) == Facts(s, Measurements[s], {"negative"})

LEMMA FactsShown ==
    ASSUME NEW s, NEW fields, NEW shown
    PROVE  /\ \A fact \in Facts(s, fields, shown) : fact[1] = s /\ fact[2] \in fields
                                                   /\ fact[3] \in shown
           /\ Facts(s, fields, shown) # {} <=> \E f \in fields : Holds(s, f) \in shown
<1>1. \A fact \in Facts(s, fields, shown) :
         fact[1] = s /\ fact[2] \in fields /\ fact[3] \in shown /\ Holds(s, fact[2]) = fact[3]
  BY DEF Facts
<1>2. ASSUME NEW f \in fields, Holds(s, f) \in shown
      PROVE  <<s, f, Holds(s, f)>> \in Facts(s, fields, shown)
  BY <1>2 DEF Facts
<1>3. QED
  BY <1>1, <1>2

LEMMA FactsAlike ==
    ASSUME NEW s, NEW fields, NEW shown, NEW alike,
           \A f \in fields : Holds(s, f) \in shown <=> Holds(s, f) \in alike
    PROVE  Facts(s, fields, shown) = Facts(s, fields, alike)
  BY DEF Facts

LEMMA FactsOfEither ==
    ASSUME NEW s, NEW fields, NEW shown, NEW too
    PROVE  Facts(s, fields, shown \cup too) = Facts(s, fields, shown) \cup Facts(s, fields, too)
  BY DEF Facts

LEMMA LinesAreItems ==
    ASSUME MarinaFilled, NEW s \in Capabilities
    PROVE  SectionLines(s) = Items(s) \cup Below(s)
<1>1. Facts(s, Measurements[s], Truthy) = Facts(s, Measurements[s], {"positive"} \cup {"negative"})
  <2>1. \A f \in Measurements[s] :
           Holds(s, f) \in Truthy <=> Holds(s, f) \in {"positive"} \cup {"negative"}
    BY FieldValues DEF Truthy
  <2>2. QED
    BY <2>1, FactsAlike
<1>2. Facts(s, Measurements[s], Truthy) = PushMeasure(s) \cup Below(s)
  BY <1>1, FactsOfEither DEF PushMeasure, Below
<1>3. QED
  BY <1>2 DEF SectionLines, Items, PushFreeFlag, PushAvailability

\* Of a section that is not shown, no more than a mooring's price is an item.
LEMMA ItemsHidden ==
    ASSUME MarinaFilled, NEW s \in Capabilities, ~IsShown(s)
    PROVE  Items(s) = IF s = "mooring" THEN PushFreeFlag(s) ELSE {}
<1>1. PushMeasure(s) = {}
  <2>1. ~IsPositive(s, Measurements[s])
    BY ShownFor
  <2>2. QED
    BY <2>1, FactsShown DEF PushMeasure, IsPositive
<1>2. PushAvailability(s) = {}
  <2>1. ~IsDefinite(s)
    BY ShownFor
  <2>2. QED
    BY <2>1, FactsShown DEF PushAvailability, IsDefinite
<1>3. Facts(s, {"notes"}, {"text"}) = {}
  <2>1. ~HasNotes(s)
    BY ShownFor
  <2>2. QED
    BY <2>1, FactsShown DEF HasNotes
<1>4. Facts(s, {"current"}, {"Strong"}) = {}
  <2>1. Holds(s, "current") # "Strong"
    BY ShownFor, FieldValues
  <2>2. QED
    BY <2>1, FactsShown
<1>5. s # "mooring" => PushFreeFlag(s) = {}
  <2>1. s # "mooring" => Holds(s, "isFree") = "absent"
    BY ShownFor, FieldValues DEF Priced
  <2>2. QED
    BY <2>1, FactsShown DEF PushFreeFlag
<1>6. QED
  BY <1>1, <1>2, <1>3, <1>4, <1>5 DEF Items

LEMMA ContactsAgree ==
    ASSUME MarinaFilled
    PROVE  ContactItems = IF HasContact THEN ContactLines ELSE {}
<1>1. "contact" \notin Capabilities
  BY ApartFromSections
<1>2. ASSUME NEW f \in ContactTexts
      PROVE  Holds("contact", f) \in {"absent", "text", ""}
  <2>1. Holds("contact", f) = "absent" \/ PointFact("contact", f, Holds("contact", f))
    BY <1>1, PointHolds
  <2>2. f # "website"
    BY DEF ContactTexts
  <2>3. QED
    BY <2>1, <2>2 DEF PointFact
<1>3. Facts("contact", ContactTexts, Truthy) = Facts("contact", ContactTexts, {"text"})
  <2>1. \A f \in ContactTexts : Holds("contact", f) \in Truthy <=> Holds("contact", f) \in {"text"}
    BY <1>2 DEF Truthy
  <2>2. QED
    BY <2>1, FactsAlike
<1>4. ContactItems = ContactLines
  BY <1>3 DEF ContactItems, ContactLines
<1>5. ASSUME ~HasContact PROVE ContactItems = {}
  <2>1. Facts("contact", ContactTexts, {"text"}) = {}
    BY <1>5, FactsShown DEF HasContact
  <2>2. Facts("contact", {"website"}, {"https"}) = {}
    BY <1>5, FactsShown DEF HasContact
  <2>3. QED
    BY <2>1, <2>2 DEF ContactItems
<1>6. QED
  BY <1>4, <1>5

ReviewItems ==
    IF PoiTypeShowsReviews
      THEN Facts("reviewSummary", {"numberOfReviews"}, {"positive"})
           \cup Facts("featuredReview", {"text"}, {"text"})
      ELSE {}

LEMMA HeadersAgree ==
    ASSUME MarinaFilled
    PROVE  HeaderLines = LastUpdated \cup StaleHazard \cup Facts("point", {"notes"}, {"text"})
                            \cup ReviewItems
<1>1. "reviewSummary" \notin Capabilities /\ "featuredReview" \notin Capabilities
  BY ApartFromSections
<1>2. Holds("reviewSummary", "numberOfReviews") \in {"absent", "positive", "zero"}
  <2>1. \/ Holds("reviewSummary", "numberOfReviews") = "absent"
        \/ PointFact("reviewSummary", "numberOfReviews", Holds("reviewSummary", "numberOfReviews"))
    BY <1>1, PointHolds
  <2>2. QED
    BY <2>1 DEF PointFact
<1>3. Holds("featuredReview", "text") \in {"absent", "text", ""}
  <2>1. \/ Holds("featuredReview", "text") = "absent"
        \/ PointFact("featuredReview", "text", Holds("featuredReview", "text"))
    BY <1>1, PointHolds
  <2>2. QED
    BY <2>1 DEF PointFact
<1>4. Facts("reviewSummary", {"numberOfReviews"}, Truthy)
         = Facts("reviewSummary", {"numberOfReviews"}, {"positive"})
  <2>1. \A f \in {"numberOfReviews"} :
           Holds("reviewSummary", f) \in Truthy <=> Holds("reviewSummary", f) \in {"positive"}
    BY <1>2 DEF Truthy
  <2>2. QED
    BY <2>1, FactsAlike
<1>5. Facts("featuredReview", {"text"}, Truthy) = Facts("featuredReview", {"text"}, {"text"})
  <2>1. \A f \in {"text"} :
           Holds("featuredReview", f) \in Truthy <=> Holds("featuredReview", f) \in {"text"}
    BY <1>3 DEF Truthy
  <2>2. QED
    BY <2>1, FactsAlike
<1>6. QED
  BY <1>4, <1>5 DEF HeaderLines, ReviewItems

LEMMA MarinaAgrees == ASSUME MarinaFilled PROVE MarinaDetailsAgree
<1> DEFINE shown == {c \in Capabilities : IsShown(c)}
<1> DEFINE below == UNION {Facts(s, Measurements[s], {"negative"}) : s \in shown}
<1> DEFINE header == Facts("point", {"notes"}, {"text"}) \cup ReviewItems \cup ContactItems
<1> DEFINE items == UNION {Items(s) : s \in shown}
<1> DEFINE price == IF HasMooring THEN {} ELSE PushFreeFlag("mooring")
<1> DEFINE age == LastUpdated \cup StaleHazard
<1>1. RenderDescription = age \cup header \cup items \cup below
  <2>1. UNION {SectionLines(s) : s \in shown} = items \cup below
    BY LinesAreItems DEF Below
  <2> HIDE DEF items, below, shown
  <2>2. RenderDescription = HeaderLines \cup ContactItems \cup UNION {SectionLines(s) : s \in shown}
    BY ContactsAgree DEF RenderDescription, shown
  <2>3. QED
    BY <2>1, <2>2, HeadersAgree
<1>2. BuildActiveCaptainSections = header \cup items \cup price
  <2>1. UNION {Items(s) : s \in Capabilities} = items \cup price
    <3>1. "mooring" \in Capabilities /\ (IsShown("mooring") <=> HasMooring)
      BY DEF IsShown, Capabilities
    <3>2. ASSUME NEW fact, NEW s \in Capabilities, fact \in Items(s)
          PROVE  fact \in items \cup price
      <4>1. CASE IsShown(s)
        BY <3>2, <4>1
      <4>2. CASE ~IsShown(s)
        BY <3>1, <3>2, <4>2, ItemsHidden
      <4>3. QED
        BY <4>1, <4>2
    <3>3. ASSUME NEW fact \in price
          PROVE  fact \in Items("mooring")
      BY DEF Items
    <3>4. QED
      BY <3>1, <3>2, <3>3
  <2> HIDE DEF items, price
  <2>2. BuildActiveCaptainSections = header \cup UNION {Items(s) : s \in Capabilities}
    BY DEF BuildActiveCaptainSections, Items, ReviewItems
  <2>3. QED
    BY <2>1, <2>2
<1>3. \A fact \in header : fact[1] \notin Capabilities
                           /\ fact \notin age
  <2>1. /\ \A fact \in Facts("point", {"notes"}, {"text"}) : fact[1] = "point" /\ fact[2] = "notes"
        /\ \A fact \in ReviewItems : fact[1] \in {"reviewSummary", "featuredReview"}
        /\ \A fact \in ContactItems : fact[1] = "contact"
        /\ \A fact \in StaleHazard : fact[1] = "point" /\ fact[2] = "dateLastModified"
        /\ \A fact \in LastUpdated : fact[1] = "point" /\ fact[2] = "lastUpdated"
    BY FactsShown DEF ReviewItems, ContactItems, StaleHazard, LastUpdated
  <2>2. QED
    BY <2>1, ApartFromSections
<1>4. \A fact \in age : fact[1] = "point"
  BY FactsShown DEF StaleHazard, LastUpdated
<1>5. \A fact \in items : fact[1] \in Capabilities /\ fact[3] # "negative"
  BY FactsShown DEF Items, PushFreeFlag, PushMeasure, PushAvailability, Definite
<1>6. \A fact \in below : fact[1] \in Capabilities /\ fact[3] = "negative"
  BY FactsShown
<1>7. \A fact \in price : fact[1] \in Capabilities /\ fact[3] # "negative" /\ fact \notin items
  <2>1. \A fact \in price : fact[1] = "mooring" /\ fact[3] \in {"true", "false"}
    BY FactsShown DEF PushFreeFlag
  <2>2. \A s \in Capabilities : \A fact \in Items(s) : fact[1] = s
    BY FactsShown DEF Items, PushFreeFlag, PushMeasure, PushAvailability
  <2>3. price # {} => "mooring" \notin shown
    BY DEF IsShown
  <2>4. "mooring" \in Capabilities
    BY DEF Capabilities
  <2>5. QED
    BY <2>1, <2>2, <2>3, <2>4
<1>8. "point" \notin Capabilities
  BY ApartFromSections
<1> HIDE DEF header, items, below, price, shown, age
<1>9. BuildActiveCaptainSections \ RenderDescription = price
  BY <1>1, <1>2, <1>3, <1>4, <1>5, <1>6, <1>7, <1>8
<1>10. RenderDescription \ BuildActiveCaptainSections = age \cup below
  BY <1>1, <1>2, <1>3, <1>4, <1>5, <1>6, <1>7, <1>8
<1>11. QED
  BY <1>9, <1>10 DEF MarinaDetailsAgree, age, price, below, shown

LEMMA HeadingsFilled == ASSUME MarinaFilled PROVE NoEmptyHeading
<1>1. ASSUME NEW s \in Capabilities, IsShown(s)
      PROVE  SectionLines(s) # {}
  <2>1. CASE IsDefinite(s)
    BY <2>1, FactsShown DEF SectionLines, IsDefinite
  <2>2. CASE HasNotes(s)
    BY <2>2, FactsShown DEF SectionLines, HasNotes
  <2>3. CASE IsPositive(s, Measurements[s])
    BY <2>3, FactsShown DEF SectionLines, IsPositive, Truthy
  <2>4. CASE Holds(s, "isFree") # "absent"
    BY <2>4, FieldValues, FactsShown DEF SectionLines
  <2>5. CASE Holds(s, "current") = "Strong"
    BY <2>5, FactsShown DEF SectionLines
  <2>6. QED
    BY <1>1, <2>1, <2>2, <2>3, <2>4, <2>5, ShownFor
<1>2. ASSUME HasContact, Holds("contact", "website") # "javascript"
      PROVE  ContactLines # {}
  <2>1. CASE \E f \in ContactTexts : Holds("contact", f) = "text"
    BY <2>1, FactsShown DEF ContactLines, Truthy
  <2>2. CASE Holds("contact", "website") # "absent"
    <3>1. "contact" \notin Capabilities /\ "website" \notin ContactTexts
      BY ApartFromSections DEF ContactTexts
    <3>2. PointFact("contact", "website", Holds("contact", "website"))
      BY <2>2, <3>1, PointHolds
    <3>3. Holds("contact", "website") = "https"
      BY <1>2, <3>1, <3>2 DEF PointFact
    <3>4. QED
      BY <3>3, FactsShown DEF ContactLines
  <2>3. QED
    BY <1>2, <2>1, <2>2 DEF HasContact
<1>3. QED
  BY <1>1, <1>2 DEF NoEmptyHeading

-----------------------------------------------------------------------------
DetailsInv == kind \in ChartKinds /\ MarinaFilled

LEMMA DetailsInvStep == DetailsInv /\ [DetailsNext]_<<chartVars, marinaVars>> => DetailsInv'
<1> SUFFICES ASSUME DetailsInv, [DetailsNext]_<<chartVars, marinaVars>> PROVE DetailsInv'
  OBVIOUS
<1>1. CASE Carries /\ UNCHANGED marinaVars
  BY <1>1 DEF DetailsInv, Carries, marinaVars, MarinaFilled
<1>2. CASE MarinaCarries /\ UNCHANGED chartVars
  BY <1>2, MarinaStep DEF DetailsInv, chartVars
<1>3. CASE UNCHANGED <<chartVars, marinaVars>>
  BY <1>3 DEF DetailsInv, chartVars, marinaVars, MarinaFilled
<1>4. QED
  BY <1>1, <1>2, <1>3 DEF DetailsNext

\* Whatever the wire leaves out of a record or a point of interest, of any source, the
\* description and the sections of it tell the same, but for the exceptions each source
\* names, and the description has no empty section (the renderers and the *-sections
\* modules).
THEOREM DescriptionsAgree == DetailsSpec => []DetailsAgree
<1>1. DetailsInit => DetailsInv
  BY MarinaInit1 DEF DetailsInit, ChartInit, DetailsInv
<1>2. DetailsInv => DetailsAgree
  BY KindsAgree, MarinaAgrees, HeadingsFilled
     DEF DetailsInv, DetailsAgree, ChartDetailsAgree, MarinaDetailsSound, Agree
<1>3. QED
  BY <1>1, <1>2, DetailsInvStep, PTL DEF DetailsSpec

-----------------------------------------------------------------------------
(* The merge of points that several sources report.  A cell is as wide as the widest    *)
(* radius, at the latitude nearest a pole, so points that coincide lie in cells that    *)
(* touch: ClosePointsMeet, for any scale of the parallels that does not grow towards a  *)
(* pole. *)

\* A set of numbers that are bounded has a greatest.
LEMMA GreatestIsGreatest ==
    ASSUME NEW n \in Nat, NEW S, S \subseteq 0..n, S # {}
    PROVE  Max(S) \in S /\ \A y \in S : y <= Max(S)
<1> DEFINE T == {n - x : x \in S}
<1>1. T \subseteq Nat /\ T # {}
  <2>1. \A x \in S : x \in 0..n /\ n - x \in Nat
    OBVIOUS
  <2> QED BY <2>1
<1>2. PICK t \in T : \A y \in T : ~(<<y, t>> \in OpToRel(<, Nat))
  BY <1>1, WFMin, NatLessThanWellFounded
<1>3. PICK x \in S : t = n - x
  OBVIOUS
<1>4. ASSUME NEW y \in S PROVE y <= x
  <2>1. n - y \in T /\ n - y \in Nat /\ t \in Nat
    BY <1>1
  <2>2. n - y < t => <<n - y, t>> \in OpToRel(<, Nat)
    BY <2>1 DEF OpToRel
  <2>3. ~(n - y < t)
    BY <1>2, <2>1, <2>2
  <2> QED BY <1>3, <2>1, <2>3
<1>5. \A y \in S : x >= y
  BY <1>4, x \in Nat /\ S \subseteq Int
<1>6. Max(S) \in S /\ \A y \in S : Max(S) >= y
  BY <1>5 DEF Max
<1>7. QED
  BY <1>6, S \subseteq Int

\* No radius is beyond that of the grid.
LEMMA RadiusShape ==
    GridRadius \in Nat \ {0} /\ \A s : RadiusFor(s) \in 1..GridRadius
<1> DEFINE S == {DefaultRadius} \cup Range(Radius)
<1>1. S \subseteq 0..MaxRadius /\ S # {} /\ MaxRadius \in Nat /\ S \subseteq 1..MaxRadius
  BY DedupeConstants DEF Range
<1>2. GridRadius \in S /\ \A y \in S : y <= GridRadius
  BY <1>1, GreatestIsGreatest DEF GridRadius
<1>3. ASSUME NEW s PROVE RadiusFor(s) \in S
  BY DEF RadiusFor, Range
<1>4. QED
  BY <1>1, <1>2, <1>3

\* A poll, point by point.
Polled == /\ Len(pois) \in Nat /\ DOMAIN pois = 1..Len(pois)
          /\ \A i \in DOMAIN pois : pois[i] \in Reports

\* At first a point is handed on as it was reported, and nothing is merged.
LEMMA PolledAtFirst == DedupeInit => Polled
<1> SUFFICES ASSUME DedupeInit PROVE Polled
  OBVIOUS
<1>1. PICK n \in 0..MaxReports : pois \in [1..n -> Reports]
  BY DEF DedupeInit
<1>2. n \in Nat
  BY DedupeConstants
<1>3. QED
  BY <1>1, <1>2 DEF Polled

\* What is measured of a point, and how a parallel at the reference compares with its own.
LEMMA PointMeasures ==
    ASSUME Polled, NEW i \in DOMAIN pois
    PROVE  /\ pois[i].lat \in Int /\ pois[i].lon \in -HalfTurn..HalfTurn
           /\ (pois[i].clearance = Unknown \/ pois[i].clearance \in Int)
           /\ ReferenceLatitude \in 0..Pole
           /\ Scale[Abs(pois[i].lat)] \in Nat /\ Scale[ReferenceLatitude] \in Nat
           /\ Scale[ReferenceLatitude] <= Scale[Abs(pois[i].lat)]
<1> DEFINE S == {Abs(pois[k].lat) : k \in DOMAIN pois}
<1>1. \A k \in DOMAIN pois : Abs(pois[k].lat) \in 0..Pole /\ Abs(pois[k].lat) \in S
  BY DedupeConstants DEF Polled, Abs
<1>2. S \subseteq 0..Pole /\ S # {} /\ Pole \in Nat
  BY <1>1, DedupeConstants
<1>3. ReferenceLatitude \in S /\ \A y \in S : y <= ReferenceLatitude
  BY <1>2, GreatestIsGreatest DEF ReferenceLatitude
<1>4. ReferenceLatitude \in 0..Pole /\ Abs(pois[i].lat) \in 0..Pole /\ Abs(pois[i].lat) <= ReferenceLatitude
  BY <1>1, <1>2, <1>3
<1>5. ReferenceLatitude \in Abs(pois[i].lat)..Pole
  BY <1>4, <1>2
<1>6. QED
  BY <1>4, <1>5, DedupeConstants DEF Polled

\* A square within that of a number is of a number within it.
LEMMA RootBounds ==
    ASSUME NEW x \in Int, NEW r \in Nat, x * x <= r * r
    PROVE  x \in -r..r
<1>1. ASSUME NEW y \in Nat, y > r PROVE y * y > r * r
  <2>1. y * y >= y * r /\ y * r >= r * r
    BY <1>1
  <2>2. y * y - y * r = y * (y - r) /\ y - r >= 1 /\ y >= 1
    BY <1>1
  <2>3. y * (y - r) >= 1
    BY <2>2
  <2> QED BY <2>1, <2>2, <2>3
<1>2. CASE x > r
  BY <1>1, <1>2
<1>3. CASE -x > r
  <2>1. (-x) * (-x) = x * x
    OBVIOUS
  <2> QED BY <1>1, <1>3, <2>1
<1>4. QED
  BY <1>2, <1>3

\* Numbers no further apart than a cell is wide lie in cells that touch.
LEMMA CellsMeet ==
    ASSUME NEW a \in Int, NEW b \in Int, NEW n \in Nat \ {0}, a - b \in -n..n
    PROVE  a \div n - b \div n \in -1..1
<1> DEFINE p == a \div n  q == b \div n
<1>1. /\ p \in Int /\ n * p <= a /\ a < n * p + n
      /\ q \in Int /\ n * q <= b /\ b < n * q + n
  OBVIOUS
<1> HIDE DEF p, q
<1>2. ASSUME NEW x \in Int, NEW y \in Int, x >= y + 2 PROVE n * x >= n * y + n + n
  <2>1. n * x - (n * y + n + n) = n * (x - y - 2) /\ x - y - 2 \in Nat
    BY <1>2
  <2>2. n * (x - y - 2) >= 0
    BY <2>1
  <2> QED BY <2>1, <2>2
<1>3. ~(p >= q + 2)
  BY <1>1, <1>2
<1>4. ~(q >= p + 2)
  BY <1>1, <1>2
<1>5. p - q \in -1..1
  BY <1>1, <1>3, <1>4
<1>6. QED
  BY <1>5 DEF p, q

\* Two points within a radius of each other, on one side of the antimeridian, are in
\* cells that meet: the degrees of longitude between them are shorter at the latitude
\* the cells are laid out for than at their own.
LEMMA ClosePointsMeet ==
    ASSUME Polled, NEW i \in DOMAIN pois, NEW j \in DOMAIN pois, NEW radius \in 1..GridRadius,
           Coincide(i, j, radius), ~AcrossAntimeridian(i, j)
    PROVE  Beside(i, j)
<1> DEFINE R == GridRadius
           s == Scale[ReferenceLatitude]
           si == Scale[Abs(pois[i].lat)]
           sj == Scale[Abs(pois[j].lat)]
           dlon == pois[i].lon - pois[j].lon
           turn == Abs(dlon)
           dlat == (pois[i].lat - pois[j].lat) * EquatorScale
<1>1. /\ R \in Nat \ {0} /\ radius \in Nat /\ radius <= R
      /\ s \in Nat /\ si \in Nat /\ sj \in Nat /\ s <= si /\ s <= sj
      /\ pois[i].lon \in Int /\ pois[j].lon \in Int /\ pois[i].lat \in Int /\ pois[j].lat \in Int
      /\ EquatorScale \in Nat /\ HalfTurn \in Nat
  BY PointMeasures, RadiusShape, DedupeConstants
<1>2. turn \in Nat /\ turn <= HalfTurn /\ (turn = dlon \/ turn = -dlon) /\ dlat \in Int
  BY <1>1 DEF AcrossAntimeridian, Abs
<1>3. Min({turn, 2 * HalfTurn - turn}) = turn
  <2> DEFINE other == 2 * HalfTurn - turn
  <2>1. turn <= other /\ turn \in Int /\ other \in Int
    BY <1>1, <1>2
  <2> HIDE DEF turn, other
  <2>2. \A y \in {turn, other} : turn <= y
    BY <2>1
  <2>3. \A x \in {turn, other} : (\A y \in {turn, other} : x <= y) => x = turn
    BY <2>1
  <2>4. Min({turn, other}) = turn
    BY <2>2, <2>3 DEF Min
  <2> QED BY <2>4 DEF other
<1>4. dlat * dlat + turn * turn * si * sj <= radius * radius
  BY <1>3 DEF Coincide, SquaredDistance
<1> HIDE DEF turn, s, si, sj
<1>5. dlat * dlat >= 0 /\ turn * turn * si * sj >= 0
  <2>1. \A x \in Int : x * x >= 0
    OBVIOUS
  <2>2. \A x, y \in Nat : x * y \in Nat
    OBVIOUS
  <2>3. turn * turn * si * sj \in Nat
    BY <1>1, <1>2, <2>2
  <2> QED BY <1>2, <2>1, <2>3
<1>6. dlat \in -R..R
  <2>1. dlat * dlat \in Int /\ turn * turn * si * sj \in Int /\ radius * radius \in Int
    BY <1>1, <1>2
  <2>2. dlat * dlat <= radius * radius
    BY <1>4, <1>5, <2>1
  <2>3. dlat \in -radius..radius
    BY <1>1, <1>2, <2>2, RootBounds
  <2> QED BY <1>1, <1>2, <2>3
<1>7. turn * s \in 0..R
  <2>1. turn * s \in Nat
    BY <1>1, <1>2
  <2>2. \A x, a, b, c \in Nat : a <= b /\ a <= c => (x * a) * (x * a) <= x * x * b * c
    <3> TAKE x, a, b, c \in Nat
    <3> HAVE a <= b /\ a <= c
    <3>1. a * a <= b * c
      <4>1. a * a <= a * c /\ a * c <= b * c
        OBVIOUS
      <4> QED BY <4>1
    <3>2. (x * a) * (x * a) = (x * x) * (a * a) /\ x * x * b * c = (x * x) * (b * c)
      OBVIOUS
    <3>3. \A m, p, q \in Nat : p <= q => m * p <= m * q
      OBVIOUS
    <3>4. x * x \in Nat /\ a * a \in Nat /\ b * c \in Nat
      OBVIOUS
    <3>5. (x * x) * (a * a) <= (x * x) * (b * c)
      BY <3>1, <3>3, <3>4
    <3> QED BY <3>2, <3>5
  <2>3. (turn * s) * (turn * s) <= turn * turn * si * sj
    BY <1>1, <1>2, <2>2
  <2>4. (turn * s) * (turn * s) <= radius * radius
    <3> DEFINE v == (turn * s) * (turn * s)  w == turn * turn * si * sj  d == dlat * dlat
               q == radius * radius
    <3>1. v \in Int /\ w \in Int /\ d \in Int /\ q \in Int
      BY <1>1, <1>2, <2>1
    <3>2. v <= w /\ d + w <= q /\ d >= 0
      BY <1>4, <1>5, <2>3
    <3> HIDE DEF v, w, d, q
    <3>3. v <= q
      BY <3>1, <3>2
    <3> QED BY <3>3 DEF v, q
  <2>5. turn * s \in -radius..radius
    BY <1>1, <2>1, <2>4, RootBounds
  <2> QED BY <1>1, <2>1, <2>5
<1>8. pois[i].lon * s - pois[j].lon * s \in -R..R
  <2>1. pois[i].lon * s - pois[j].lon * s = dlon * s
    BY <1>1
  <2>2. (-dlon) * s = -(dlon * s) /\ dlon * s \in Int
    BY <1>1
  <2>3. turn * s = dlon * s \/ turn * s = -(dlon * s)
    BY <1>2, <2>2
  <2> QED BY <1>1, <1>7, <2>1, <2>2, <2>3
<1>9. pois[i].lat * EquatorScale - pois[j].lat * EquatorScale \in -R..R
  BY <1>1, <1>6
<1>10. /\ (pois[i].lon * s) \div R - (pois[j].lon * s) \div R \in -1..1
       /\ (pois[i].lat * EquatorScale) \div R - (pois[j].lat * EquatorScale) \div R \in -1..1
  <2>1. /\ pois[i].lon * s \in Int /\ pois[j].lon * s \in Int
        /\ pois[i].lat * EquatorScale \in Int /\ pois[j].lat * EquatorScale \in Int
    BY <1>1
  <2> QED BY <1>1, <1>8, <1>9, <2>1, CellsMeet
<1>11. QED
  BY <1>10 DEF Beside, Cell, s

\* Two points coincide, or not, whichever is asked.
LEMMA CoincideBothWays ==
    ASSUME Polled, NEW i \in DOMAIN pois, NEW j \in DOMAIN pois
    PROVE  /\ AcrossAntimeridian(i, j) <=> AcrossAntimeridian(j, i)
           /\ \A radius : Coincide(i, j, radius) <=> Coincide(j, i, radius)
<1>1. /\ pois[i].lon \in Int /\ pois[j].lon \in Int /\ pois[i].lat \in Int /\ pois[j].lat \in Int
      /\ Scale[Abs(pois[i].lat)] \in Nat /\ Scale[Abs(pois[j].lat)] \in Nat
      /\ EquatorScale \in Nat
  BY PointMeasures, DedupeConstants
<1>2. Abs(pois[i].lon - pois[j].lon) = Abs(pois[j].lon - pois[i].lon)
  BY <1>1 DEF Abs
<1>3. SquaredDistance(i, j) = SquaredDistance(j, i)
  <2> DEFINE d == pois[i].lat - pois[j].lat  e == pois[j].lat - pois[i].lat
             turn == Abs(pois[i].lon - pois[j].lon)
             m == Min({turn, 2 * HalfTurn - turn})
             si == Scale[Abs(pois[i].lat)]
             sj == Scale[Abs(pois[j].lat)]
  <2>1. (d * EquatorScale) * (d * EquatorScale) = (e * EquatorScale) * (e * EquatorScale)
    <3>1. e = -d /\ d \in Int
      BY <1>1
    <3>2. \A x \in Int, k \in Nat : (x * k) * (x * k) = ((-x) * k) * ((-x) * k)
      OBVIOUS
    <3> QED BY <1>1, <3>1, <3>2
  <2>2. m * m * si * sj = m * m * sj * si
    <3>1. m \in Int
      <4>1. turn \in Int /\ 2 * HalfTurn - turn \in Int
        BY <1>1, DedupeConstants DEF Abs
      <4>2. \A x, y \in Int : Min({x, y}) \in Int
        <5> TAKE x, y \in Int
        <5>1. CASE x <= y
          BY <5>1 DEF Min
        <5>2. CASE y <= x
          BY <5>2 DEF Min
        <5> QED BY <5>1, <5>2
      <4> QED BY <4>1, <4>2
    <3>2. \A x \in Int, a, b \in Nat : x * x * a * b = x * x * b * a
      OBVIOUS
    <3> QED BY <1>1, <3>1, <3>2
  <2> QED BY <1>2, <2>1, <2>2 DEF SquaredDistance
<1>4. QED
  BY <1>2, <1>3 DEF AcrossAntimeridian, Coincide

-----------------------------------------------------------------------------
(* The sweep over the cells. *)

\* Numbers given to the members of a set are least at one of them.
LEMMA LeastIsGiven ==
    ASSUME NEW S, S # {}, NEW f \in [S -> Nat]
    PROVE  \E x \in S : \A y \in S : f[x] <= f[y]
<1> DEFINE T == {f[x] : x \in S}
<1>1. T \subseteq Nat /\ T # {}
  OBVIOUS
<1>2. PICK t \in T : \A u \in T : ~(<<u, t>> \in OpToRel(<, Nat))
  BY <1>1, WFMin, NatLessThanWellFounded
<1>3. PICK x \in S : t = f[x]
  OBVIOUS
<1>4. ASSUME NEW y \in S PROVE f[x] <= f[y]
  <2>1. f[y] \in T /\ f[y] \in Nat /\ f[x] \in Nat
    OBVIOUS
  <2>2. f[y] < t => <<f[y], t>> \in OpToRel(<, Nat)
    BY <1>3, <2>1 DEF OpToRel
  <2>3. ~(f[y] < t)
    BY <1>2, <2>1, <2>2
  <2> QED BY <1>3, <2>1, <2>3
<1>5. QED
  BY <1>4

\* The cells are pairs of whole numbers, and the radius of a source at most that of the grid.
LEMMA CellShape ==
    ASSUME Polled, NEW i \in DOMAIN pois
    PROVE  Cell(i) = <<Cell(i)[1], Cell(i)[2]>> /\ Cell(i)[1] \in Int /\ Cell(i)[2] \in Int
<1>1. /\ GridRadius \in Nat \ {0} /\ pois[i].lon \in Int /\ pois[i].lat \in Int
      /\ Scale[ReferenceLatitude] \in Nat /\ EquatorScale \in Nat
  BY PointMeasures, RadiusShape, DedupeConstants
<1>2. pois[i].lon * Scale[ReferenceLatitude] \in Int /\ pois[i].lat * EquatorScale \in Int
  BY <1>1
<1>3. \A x \in Int : x \div GridRadius \in Int
  BY <1>1
<1>4. QED
  BY <1>2, <1>3 DEF Cell

\* The sweep finds a match of its nine cells when there is one.
LEMMA SweepFinds ==
    ASSUME Polled, NEW grid \in SUBSET DOMAIN pois, NEW i \in DOMAIN pois, NEW radius,
           NEW j \in grid, Beside(i, j), Coincide(i, j, radius)
    PROVE  ScanNeighborhood(grid, i, radius) # {}
<1> DEFINE found == {k \in grid : Beside(i, k) /\ Coincide(i, k, radius)}
<1>1. found \subseteq DOMAIN pois /\ j \in found
  OBVIOUS
<1>2. \A k \in found : /\ Cell(k) = <<Cell(k)[1], Cell(k)[2]>>
                       /\ Cell(k)[1] \in Int /\ Cell(k)[2] \in Int /\ k \in Nat
                       /\ Cell(k)[1] - Cell(i)[1] + 1 \in Nat
                       /\ Cell(k)[2] - Cell(i)[2] + 1 \in Nat
  <2> TAKE k \in found
  <2>1. /\ Cell(k)[1] \in Int /\ Cell(k)[2] \in Int /\ Cell(i)[1] \in Int /\ Cell(i)[2] \in Int
        /\ Cell(k) = <<Cell(k)[1], Cell(k)[2]>>
    BY <1>1, CellShape
  <2>2. Cell(i)[1] - Cell(k)[1] \in -1..1 /\ Cell(i)[2] - Cell(k)[2] \in -1..1
    BY DEF Beside
  <2>3. k \in Nat
    BY <1>1 DEF Polled
  <2> HIDE DEF found
  <2> QED BY <2>1, <2>2, <2>3
<1> HIDE DEF found
<1>3. PICK a \in found : \A k \in found : Cell(a)[1] <= Cell(k)[1]
  <2> DEFINE f == [k \in found |-> Cell(k)[1] - Cell(i)[1] + 1]
  <2>1. f \in [found -> Nat]
    BY <1>2
  <2>2. PICK a \in found : \A k \in found : f[a] <= f[k]
    BY <1>1, <2>1, LeastIsGiven
  <2>3. \A k \in found : Cell(a)[1] - Cell(i)[1] + 1 <= Cell(k)[1] - Cell(i)[1] + 1
    BY <2>2
  <2>4. \A k \in found : Cell(a)[1] <= Cell(k)[1]
    BY <1>1, <1>2, <2>3, CellShape
  <2> QED BY <2>4
<1> DEFINE column == {k \in found : Cell(k)[1] = Cell(a)[1]}
<1>4. PICK b \in column : \A k \in column : Cell(b)[2] <= Cell(k)[2]
  <2> DEFINE f == [k \in column |-> Cell(k)[2] - Cell(i)[2] + 1]
  <2>1. f \in [column -> Nat] /\ column # {}
    BY <1>2
  <2>2. PICK b \in column : \A k \in column : f[b] <= f[k]
    BY <2>1, LeastIsGiven
  <2>3. \A k \in column : Cell(b)[2] - Cell(i)[2] + 1 <= Cell(k)[2] - Cell(i)[2] + 1
    BY <2>2
  <2>4. \A k \in column : Cell(b)[2] <= Cell(k)[2]
    BY <1>1, <1>2, <2>3, CellShape
  <2> QED BY <2>4
<1> DEFINE bucket == {k \in column : Cell(k)[2] = Cell(b)[2]}
<1>5. PICK c \in bucket : \A k \in bucket : c <= k
  <2> DEFINE f == [k \in bucket |-> k]
  <2>1. f \in [bucket -> Nat] /\ bucket # {}
    BY <1>2
  <2>2. PICK c \in bucket : \A k \in bucket : f[c] <= f[k]
    BY <2>1, LeastIsGiven
  <2> QED BY <2>2
<1>6. ASSUME NEW k \in found \ {c} PROVE MetBefore(c, k)
  <2>1. /\ c \in found /\ Cell(c)[1] = Cell(a)[1] /\ Cell(c)[2] = Cell(b)[2]
    OBVIOUS
  <2>2. Cell(c)[1] <= Cell(k)[1]
    BY <1>3, <2>1
  <2>3. CASE Cell(c)[1] < Cell(k)[1]
    BY <2>3 DEF MetBefore
  <2>4. CASE Cell(c)[1] = Cell(k)[1] /\ Cell(c)[2] < Cell(k)[2]
    BY <2>4 DEF MetBefore
  <2>5. CASE Cell(c)[1] = Cell(k)[1] /\ Cell(c)[2] = Cell(k)[2]
    <3>1. k \in bucket /\ c <= k /\ k # c /\ k \in Nat /\ c \in Nat
      BY <1>2, <1>5, <2>1, <2>5
    <3>2. Cell(c) = Cell(k)
      BY <1>2, <2>1, <2>5
    <3> QED BY <3>1, <3>2 DEF MetBefore
  <2>6. k \in column => Cell(c)[2] <= Cell(k)[2]
    BY <1>4, <2>1
  <2> QED BY <1>2, <2>1, <2>2, <2>3, <2>4, <2>5, <2>6
<1>7. ScanNeighborhood(grid, i, radius) = {k \in found : \A l \in found \ {k} : MetBefore(k, l)}
  BY DEF ScanNeighborhood, found
<1>8. QED
  BY <1>6, <1>7

-----------------------------------------------------------------------------
(* The two loops. *)

DedupeTypeOK ==
    /\ Polled
    /\ next \in Nat \ {0} /\ stage \in {"base", "same", "done"}
    /\ kept \in Seq(DOMAIN pois) /\ out \in Seq(DOMAIN pois)
    /\ clearance \in [DOMAIN pois -> Int \cup {Unknown}]
    /\ credits = [i \in DOMAIN pois |-> credits[i]]
    /\ into = [i \in DOMAIN into |-> into[i]] /\ DOMAIN into \subseteq DOMAIN pois

Group(i) == {i} \cup {j \in DOMAIN into : into[j] = i}

\* The least that is known of a group.
Lowest(c, group) ==
    \/ c = Unknown /\ \A j \in group : pois[j].clearance = Unknown
    \/ /\ \E j \in group : c = pois[j].clearance
       /\ c # Unknown
       /\ \A j \in group : pois[j].clearance = Unknown \/ c <= pois[j].clearance

Apart(i, j) == ~Coincide(i, j, RadiusFor(pois[i].source)) \/ AcrossAntimeridian(i, j)

\* What is dropped was merged, and what is not has the clearance and credits of its group.
MergesSound ==
    /\ \A i \in DOMAIN into : /\ into[i] \in Handed /\ pois[i].source \in DedupeSources
                              /\ Coincide(i, into[i], RadiusFor(pois[i].source))
    /\ \A i \in DOMAIN pois \ DOMAIN into :
          /\ Lowest(clearance[i], Group(i))
          /\ credits[i] = {pois[j].source : j \in Group(i)}

\* What the two sweeps left apart.
KeptApart ==
    /\ \A i \in Range(kept), b \in BasePois : pois[i].source \in DedupeSources => Apart(i, b)
    /\ \A i, j \in Range(out) :
          i # j /\ pois[i].source \in DedupeSources /\ pois[i].source = pois[j].source => Apart(i, j)

\* Where the loops are: every point that is not of the base is dropped, kept or to come,
\* and every one that was kept is dropped, handed on or to come.
LoopsSound ==
    /\ \A k, l \in DOMAIN kept : kept[k] = kept[l] => k = l
    /\ Range(kept) \cap BasePois = {}
    /\ Range(out) \cap DOMAIN into = {} /\ Range(out) \subseteq Range(kept)
    /\ stage = "base" =>
          /\ out = <<>>
          /\ next <= Len(pois) + 1
          /\ DOMAIN into \cup Range(kept) = {i \in DOMAIN pois : i < next} \ BasePois
          /\ Range(kept) \cap DOMAIN into = {}
    /\ stage # "base" =>
          /\ next <= Len(kept) + 1
          /\ DOMAIN into \cup Range(kept) = DOMAIN pois \ BasePois
          /\ \A k \in DOMAIN kept : IF k < next THEN kept[k] \in Range(out) \cup DOMAIN into
                                     ELSE kept[k] \notin Range(out) \cup DOMAIN into
    /\ stage = "done" => next > Len(kept)

DedupeInv == DedupeTypeOK /\ MergesSound /\ KeptApart /\ LoopsSound

\* The same poll has the same distances.
LEMMA PollStays ==
    ASSUME pois' = pois
    PROVE  /\ (Polled <=> Polled') /\ BasePois' = BasePois
           /\ \A i, j : AcrossAntimeridian(i, j)' <=> AcrossAntimeridian(i, j)
           /\ \A i, j, radius : Coincide(i, j, radius)' <=> Coincide(i, j, radius)
           /\ \A i, j : Apart(i, j)' <=> Apart(i, j)
           /\ \A c, group : Lowest(c, group)' <=> Lowest(c, group)
BY DEF Polled, BasePois, AcrossAntimeridian, Coincide, SquaredDistance, Apart, Lowest

\* A point more in a group lowers the least clearance to its own.
LEMMA LowestOfMore ==
    ASSUME Polled, NEW c \in Int \cup {Unknown}, NEW group \in SUBSET DOMAIN pois,
           NEW i \in DOMAIN pois, Lowest(c, group)
    PROVE  Lowest(MinClearance(c, pois[i].clearance), group \cup {i})
<1> DEFINE d(j) == pois[j].clearance
<1>1. \A j \in DOMAIN pois : d(j) = Unknown \/ d(j) \in Int
  BY PointMeasures
<1>2. Unknown \notin Int
  BY DedupeConstants
<1> HIDE DEF d
<1>3. /\ MinClearance(c, d(i)) = c \/ MinClearance(c, d(i)) = d(i)
      /\ d(i) = Unknown => MinClearance(c, d(i)) = c
      /\ d(i) # Unknown /\ c = Unknown => MinClearance(c, d(i)) = d(i)
      /\ d(i) # Unknown /\ c # Unknown => /\ MinClearance(c, d(i)) <= d(i)
                                          /\ MinClearance(c, d(i)) <= c
  BY <1>1, <1>2 DEF MinClearance
<1>4. \/ c = Unknown /\ \A j \in group : d(j) = Unknown
      \/ /\ \E j \in group : c = d(j)
         /\ c # Unknown
         /\ \A j \in group : d(j) = Unknown \/ c <= d(j)
  BY DEF Lowest, d
<1> DEFINE m == MinClearance(c, d(i))  more == group \cup {i}
<1>5. m \in Int \cup {Unknown} /\ more \subseteq DOMAIN pois
  BY <1>1, <1>3
<1> HIDE DEF m
<1>6. CASE c = Unknown
  <2>1. CASE d(i) = Unknown
    BY <1>2, <1>3, <1>4, <1>6, <2>1 DEF Lowest, d, m
  <2>2. CASE d(i) # Unknown
    <3>1. m = d(i) /\ d(i) \in Int
      BY <1>1, <1>3, <1>6, <2>2 DEF m
    <3>2. \A j \in more : d(j) = Unknown \/ m <= d(j)
      BY <1>2, <1>4, <1>6, <3>1
    <3>3. Lowest(m, more)
      BY <2>2, <3>1, <3>2 DEF Lowest, d
    <3> QED BY <3>3 DEF m, d
  <2> QED BY <2>1, <2>2
<1>7. CASE c # Unknown
  <2>1. c \in Int /\ m # Unknown /\ (m = c \/ m = d(i)) /\ m \in Int /\ m <= c
    BY <1>1, <1>2, <1>3, <1>7 DEF m
  <2>2. \A j \in more : d(j) = Unknown \/ m <= d(j)
    <3> TAKE j \in more
    <3>1. CASE j = i
      BY <1>3, <1>7, <3>1 DEF m
    <3>2. CASE j \in group
      BY <1>1, <1>4, <1>7, <2>1, <3>2
    <3> QED BY <3>1, <3>2
  <2>3. \E j \in more : m = d(j)
    BY <1>4, <1>7, <2>1
  <2>4. Lowest(m, more)
    BY <2>1, <2>2, <2>3 DEF Lowest, d
  <2> QED BY <2>4 DEF m, d
<1>8. QED
  BY <1>6, <1>7

\* A point that nothing was merged into is merged into one that stays.
LEMMA FoldKeepsGroups ==
    ASSUME DedupeTypeOK, MergesSound, pois' = pois,
           NEW i \in DOMAIN pois \ DOMAIN into, \A j \in DOMAIN into : into[j] # i,
           NEW survivor \in DOMAIN pois \ DOMAIN into, survivor # i,
           Fold(i, survivor),
           credits' = [credits EXCEPT ![survivor] = @ \cup {pois[i].source}]
    PROVE  /\ clearance' \in [DOMAIN pois -> Int \cup {Unknown}]
           /\ credits' = [k \in DOMAIN pois |-> credits'[k]]
           /\ DOMAIN into' = DOMAIN into \cup {i}
           /\ into' = [k \in DOMAIN into' |-> into'[k]]
           /\ into'[i] = survivor /\ \A k \in DOMAIN into : into'[k] = into[k]
           /\ \A k \in DOMAIN pois \ DOMAIN into' :
                 /\ Lowest(clearance'[k], Group(k)')
                 /\ credits'[k] = {pois[j].source : j \in Group(k)'}
<1>1. /\ clearance' = [clearance EXCEPT ![survivor] = MinClearance(@, clearance[i])]
      /\ into' = [j \in DOMAIN into \cup {i} |-> IF j = i THEN survivor ELSE into[j]]
  BY DEF Fold
<1>2. /\ DOMAIN into' = DOMAIN into \cup {i}
      /\ into'[i] = survivor /\ \A k \in DOMAIN into : into'[k] = into[k]
  BY <1>1
<1>3. into' = [k \in DOMAIN into' |-> into'[k]]
  BY <1>1
<1>4. clearance \in [DOMAIN pois -> Int \cup {Unknown}] /\ DOMAIN credits = DOMAIN pois
  BY DEF DedupeTypeOK
<1>5. \A c, d \in Int \cup {Unknown} : MinClearance(c, d) \in Int \cup {Unknown}
  BY DEF MinClearance
<1>6. clearance' \in [DOMAIN pois -> Int \cup {Unknown}]
  BY <1>1, <1>4, <1>5
<1>7. credits' = [k \in DOMAIN pois |-> credits'[k]]
  BY <1>4
<1>8. clearance[i] = pois[i].clearance
  <2>1. Group(i) = {i}
    BY DEF Group
  <2>2. Lowest(clearance[i], {i})
    BY <2>1 DEF MergesSound
  <2> QED BY <2>2 DEF Lowest
<1>9. \A k \in DOMAIN pois \ DOMAIN into' :
         /\ Lowest(clearance[k], Group(k)) /\ credits[k] = {pois[j].source : j \in Group(k)}
         /\ Group(k)' = IF k = survivor THEN Group(k) \cup {i} ELSE Group(k)
         /\ Group(k) \subseteq DOMAIN pois
  <2> TAKE k \in DOMAIN pois \ DOMAIN into'
  <2>1. k \in DOMAIN pois \ DOMAIN into
    BY <1>2
  <2>2. Group(k)' = {k} \cup {j \in DOMAIN into \cup {i} : into'[j] = k}
    BY <1>2 DEF Group
  <2>3. Group(k) \subseteq DOMAIN pois
    BY DEF Group, DedupeTypeOK
  <2>4. Group(k)' = IF k = survivor THEN Group(k) \cup {i} ELSE Group(k)
    BY <1>2, <2>2 DEF Group
  <2> QED BY <2>1, <2>3, <2>4 DEF MergesSound
<1>10. ASSUME NEW k \in DOMAIN pois \ DOMAIN into'
       PROVE  /\ Lowest(clearance'[k], Group(k)')
              /\ credits'[k] = {pois[j].source : j \in Group(k)'}
  <2>1. CASE k # survivor
    BY <1>1, <1>4, <1>9, <2>1
  <2>2. CASE k = survivor
    <3>1. clearance'[k] = MinClearance(clearance[k], pois[i].clearance)
      BY <1>1, <1>4, <1>8, <2>2
    <3>2. Polled /\ clearance[k] \in Int \cup {Unknown}
      BY <1>4 DEF DedupeTypeOK
    <3>3. Lowest(clearance'[k], Group(k) \cup {i})
      <4> DEFINE c == clearance[k]  group == Group(k)
      <4>1. c \in Int \cup {Unknown} /\ group \in SUBSET DOMAIN pois /\ Lowest(c, group)
        BY <1>9, <3>2
      <4> HIDE DEF c, group
      <4>2. Lowest(MinClearance(c, pois[i].clearance), group \cup {i})
        BY <3>2, <4>1, LowestOfMore
      <4> QED BY <3>1, <4>2 DEF c, group
    <3>4. credits'[k] = credits[k] \cup {pois[i].source}
      BY <1>4, <2>2
    <3>5. credits'[k] = {pois[j].source : j \in Group(k) \cup {i}}
      BY <1>9, <3>4
    <3> QED BY <1>9, <2>2, <3>3, <3>5
  <2> QED BY <2>1, <2>2
<1>11. QED
  BY <1>2, <1>3, <1>6, <1>7, <1>10

\* A match of the sweep is in its grid, and no match leaves it all apart.
LEMMA SweepIsRight ==
    ASSUME Polled, NEW grid \in SUBSET DOMAIN pois, NEW i \in DOMAIN pois,
           NEW radius \in 1..GridRadius
    PROVE  /\ \A j \in ScanNeighborhood(grid, i, radius) : j \in grid /\ Coincide(i, j, radius)
           /\ ScanNeighborhood(grid, i, radius) = {} =>
                 \A j \in grid : ~Coincide(i, j, radius) \/ AcrossAntimeridian(i, j)
<1>1. \A j \in ScanNeighborhood(grid, i, radius) : j \in grid /\ Coincide(i, j, radius)
  BY DEF ScanNeighborhood
<1>2. ASSUME NEW j \in grid, Coincide(i, j, radius), ~AcrossAntimeridian(i, j)
      PROVE  ScanNeighborhood(grid, i, radius) # {}
  BY <1>2, ClosePointsMeet, SweepFinds
<1>3. QED
  BY <1>1, <1>2

\* The base points, and those handed on, are points of the poll.
LEMMA BaseIsOfThePoll ==
    /\ BasePois \subseteq DOMAIN pois
    /\ \A i \in DOMAIN pois : i \in BasePois <=> pois[i].source = Base
    /\ \A i \in BasePois : pois[i].source \notin DedupeSources
BY DedupeConstants DEF BasePois

\* What a list holds after one more.
LEMMA Appended ==
    ASSUME NEW S, NEW s \in Seq(S), NEW e \in S
    PROVE  /\ Append(s, e) \in Seq(S) /\ Range(Append(s, e)) = Range(s) \cup {e}
           /\ DOMAIN Append(s, e) = 1..(Len(s) + 1) /\ Len(Append(s, e)) = Len(s) + 1
           /\ Len(s) \in Nat /\ DOMAIN s = 1..Len(s)
           /\ \A k \in 1..Len(s) : Append(s, e)[k] = s[k]
           /\ Append(s, e)[Len(s) + 1] = e
<1>1. /\ Append(s, e) \in Seq(S) /\ Len(s) \in Nat /\ DOMAIN s = 1..Len(s)
      /\ Len(Append(s, e)) = Len(s) + 1 /\ DOMAIN Append(s, e) = 1..(Len(s) + 1)
      /\ \A k \in 1..Len(s) : Append(s, e)[k] = s[k]
      /\ Append(s, e)[Len(s) + 1] = e
  OBVIOUS
<1>2. Range(Append(s, e)) = Range(s) \cup {e}
  <2> DEFINE t == Append(s, e)
  <2> HIDE DEF t
  <2>1. /\ DOMAIN t = 1..(Len(s) + 1) /\ t[Len(s) + 1] = e /\ \A k \in 1..Len(s) : t[k] = s[k]
        /\ Len(s) \in Nat /\ DOMAIN s = 1..Len(s)
    BY <1>1 DEF t
  <2>2. \A k : k \in 1..(Len(s) + 1) <=> k \in 1..Len(s) \/ k = Len(s) + 1
    BY <2>1
  <2>3. Range(t) = Range(s) \cup {e}
    BY <2>1, <2>2, Zenon DEF Range
  <2> QED BY <2>3 DEF t
<1>3. QED
  BY <1>1, <1>2

\* What is handed on may grow while nothing is merged.
LEMMA SameMerges ==
    ASSUME MergesSound, pois' = pois, into' = into, clearance' = clearance, credits' = credits,
           Handed \subseteq Handed'
    PROVE  MergesSound'
<1>1. \A i : Group(i)' = Group(i)
  BY DEF Group
<1>2. /\ \A i, j, radius : Coincide(i, j, radius)' <=> Coincide(i, j, radius)
      /\ \A c, group : Lowest(c, group)' <=> Lowest(c, group)
  BY PollStays
<1>3. \A i \in DOMAIN into' :
         /\ into'[i] \in Handed' /\ pois'[i].source \in DedupeSources
         /\ Coincide(i, into[i], RadiusFor(pois[i].source))'
  BY <1>2 DEF MergesSound, Coincide, SquaredDistance
<1>4. \A i \in DOMAIN pois' \ DOMAIN into' :
         /\ Lowest(clearance[i], Group(i))'
         /\ credits'[i] = {pois'[j].source : j \in Group(i)'}
  BY <1>1 DEF MergesSound, Lowest
<1>5. QED
  BY <1>3, <1>4 DEF MergesSound

\* The first loop drops a point of another source, or keeps it.
LEMMA AgainstBaseKeeps ==
    ASSUME DedupeInv, AgainstBase
    PROVE  DedupeInv'
<1> USE DEF DedupeInv
<1> DEFINE i == next
           source == pois[i].source
           match == IF source \in DedupeSources
                      THEN ScanNeighborhood(BasePois, i, RadiusFor(source)) ELSE {}
<1>1. /\ stage = "base" /\ next <= Len(pois) /\ next' = next + 1
      /\ pois' = pois /\ stage' = stage /\ out' = out
      /\ out = <<>> /\ Range(out) = {} /\ i \in DOMAIN pois /\ next \in Nat /\ Len(pois) \in Nat
      /\ DOMAIN pois = 1..Len(pois) /\ Polled
  BY DEF AgainstBase, DedupeTypeOK, LoopsSound, Range, Polled
<1>2. /\ BasePois' = BasePois /\ Handed' = Handed /\ Handed = BasePois /\ Polled' /\ Range(out)' = Range(out)
      /\ \A k, l : Apart(k, l)' <=> Apart(k, l)
      /\ \A k, l, r : Coincide(k, l, r)' <=> Coincide(k, l, r)
      /\ \A c, g : Lowest(c, g)' <=> Lowest(c, g)
  BY <1>1, PollStays DEF Handed
<1>3. RadiusFor(source) \in 1..GridRadius
  BY RadiusShape
<1>4. /\ i \notin DOMAIN into /\ i \notin Range(kept)
      /\ DOMAIN into \cup Range(kept) = {k \in DOMAIN pois : k < next} \ BasePois
      /\ Range(kept) \cap DOMAIN into = {}
  BY <1>1 DEF LoopsSound
<1>5. {k \in DOMAIN pois : k < next'} = {k \in DOMAIN pois : k < next} \cup {i}
  BY <1>1
<1>6. CASE match = {}
  <2>1. /\ kept' = IF source = Base THEN kept ELSE Append(kept, i)
        /\ clearance' = clearance /\ credits' = credits /\ into' = into
    BY <1>6 DEF AgainstBase
  <2>2. /\ kept' \in Seq(DOMAIN pois)
        /\ Range(kept') = IF source = Base THEN Range(kept) ELSE Range(kept) \cup {i}
        /\ \A k, l \in DOMAIN kept' : kept'[k] = kept'[l] => k = l
    <3>1. kept \in Seq(DOMAIN pois) /\ \A k, l \in DOMAIN kept : kept[k] = kept[l] => k = l
      BY DEF DedupeTypeOK, LoopsSound
    <3>2. CASE source = Base
      BY <2>1, <3>1, <3>2
    <3>3. CASE source # Base
      <4>1. kept' = Append(kept, i)
        BY <2>1, <3>3
      <4>2. /\ kept' \in Seq(DOMAIN pois) /\ Range(kept') = Range(kept) \cup {i}
            /\ DOMAIN kept' = 1..(Len(kept) + 1) /\ Len(kept) \in Nat /\ DOMAIN kept = 1..Len(kept)
            /\ \A k \in 1..Len(kept) : kept'[k] = kept[k]
            /\ kept'[Len(kept) + 1] = i
        BY <1>1, <3>1, <4>1, Appended
      <4>3. \A k \in DOMAIN kept : kept[k] # i
        BY <1>4 DEF Range
      <4>4. \A k, l \in DOMAIN kept' : kept'[k] = kept'[l] => k = l
        BY <3>1, <4>2, <4>3
      <4> QED BY <3>3, <4>2, <4>4
    <3> QED BY <3>2, <3>3
  <2>3. DedupeTypeOK'
    BY <1>1, <1>2, <2>1, <2>2 DEF DedupeTypeOK
  <2>4. MergesSound'
    BY <1>1, <1>2, <2>1, SameMerges
  <2>5. KeptApart'
    <3>1. \A k \in Range(kept'), b \in BasePois : pois[k].source \in DedupeSources => Apart(k, b)
      <4> TAKE k \in Range(kept'), b \in BasePois
      <4>1. CASE k \in Range(kept)
        BY <4>1 DEF KeptApart
      <4>2. CASE k \notin Range(kept)
        <5>1. k = i
          BY <2>2, <4>2
        <5>2. source \in DedupeSources => ScanNeighborhood(BasePois, i, RadiusFor(source)) = {}
          BY <1>6
        <5>3. source \in DedupeSources => Apart(i, b)
          BY <1>1, <1>3, <5>2, BaseIsOfThePoll, SweepIsRight DEF Apart
        <5> QED BY <5>1, <5>3
      <4> QED BY <4>1, <4>2
    <3> QED BY <1>1, <1>2, <3>1 DEF KeptApart
  <2>6. LoopsSound'
    <3>1. Range(kept') \cap BasePois = {}
      BY <1>1, <2>2, BaseIsOfThePoll DEF LoopsSound
    <3>2. /\ DOMAIN into' \cup Range(kept') = {k \in DOMAIN pois : k < next'} \ BasePois
          /\ Range(kept') \cap DOMAIN into' = {}
      BY <1>1, <1>4, <1>5, <2>1, <2>2, BaseIsOfThePoll
    <3> QED BY <1>1, <1>2, <2>1, <2>2, <3>1, <3>2 DEF LoopsSound
  <2> QED BY <2>3, <2>4, <2>5, <2>6
<1>7. CASE match # {}
  <2>1. PICK survivor \in match :
           /\ Fold(i, survivor)
           /\ credits' = [credits EXCEPT ![survivor] = @ \cup {source}]
           /\ kept' = kept
    BY <1>7 DEF AgainstBase
  <2>2. /\ source \in DedupeSources /\ survivor \in BasePois
        /\ Coincide(i, survivor, RadiusFor(source))
    BY <1>1, <1>3, <1>7, <2>1, BaseIsOfThePoll, SweepIsRight
  <2>3. /\ survivor \in DOMAIN pois \ DOMAIN into /\ survivor # i /\ i \notin BasePois
        /\ \A j \in DOMAIN into : into[j] # i
    BY <1>2, <1>4, <2>2, BaseIsOfThePoll DEF MergesSound
  <2>4. /\ clearance' \in [DOMAIN pois -> Int \cup {Unknown}]
        /\ credits' = [k \in DOMAIN pois |-> credits'[k]]
        /\ DOMAIN into' = DOMAIN into \cup {i}
        /\ into' = [k \in DOMAIN into' |-> into'[k]]
        /\ into'[i] = survivor /\ \A k \in DOMAIN into : into'[k] = into[k]
        /\ \A k \in DOMAIN pois \ DOMAIN into' :
              /\ Lowest(clearance'[k], Group(k)')
              /\ credits'[k] = {pois[j].source : j \in Group(k)'}
    BY <1>1, <1>4, <2>1, <2>3, FoldKeepsGroups
  <2>5. DedupeTypeOK'
    BY <1>1, <1>2, <2>1, <2>4 DEF DedupeTypeOK
  <2>6. MergesSound'
    <3>1. \A k \in DOMAIN into' : /\ into'[k] \in Handed /\ pois[k].source \in DedupeSources
                                  /\ Coincide(k, into'[k], RadiusFor(pois[k].source))
      BY <1>2, <2>2, <2>4 DEF MergesSound
    <3>2. \A k \in DOMAIN into' :
             /\ into'[k] \in Handed' /\ pois'[k].source \in DedupeSources
             /\ Coincide(k, into[k], RadiusFor(pois[k].source))'
      BY <1>1, <3>1, <1>2 DEF Coincide, SquaredDistance
    <3>3. \A k \in DOMAIN pois' \ DOMAIN into' :
             /\ Lowest(clearance[k], Group(k))'
             /\ credits'[k] = {pois'[j].source : j \in Group(k)'}
      BY <1>1, <2>4 DEF Lowest
    <3> QED BY <3>2, <3>3 DEF MergesSound
  <2>7. KeptApart'
    BY <1>1, <1>2, <2>1 DEF KeptApart
  <2>8. LoopsSound'
    BY <1>1, <1>2, <1>4, <1>5, <2>1, <2>3, <2>4 DEF LoopsSound
  <2> QED BY <2>5, <2>6, <2>7, <2>8
<1>8. QED
  BY <1>6, <1>7

\* The second loop drops a point, or hands it on.
LEMMA AgainstSameKeeps ==
    ASSUME DedupeInv, AgainstSame
    PROVE  DedupeInv'
<1> USE DEF DedupeInv
<1> DEFINE i == kept[next]
           source == pois[i].source
           match == IF source \in DedupeSources /\ Len(kept) > 1
                      THEN ScanNeighborhood(SourceGrid(source), i, RadiusFor(source)) ELSE {}
<1>1. /\ stage = "same" /\ next <= Len(kept) /\ next' = next + 1
      /\ pois' = pois /\ stage' = stage /\ kept' = kept /\ credits' = credits
      /\ next \in Nat \ {0} /\ Len(kept) \in Nat /\ DOMAIN kept = 1..Len(kept)
      /\ next \in DOMAIN kept /\ Polled /\ kept \in Seq(DOMAIN pois)
      /\ i \in DOMAIN pois /\ i \in Range(kept)
  <2>1. kept \in Seq(DOMAIN pois) /\ next \in Nat \ {0} /\ stage = "same" /\ next <= Len(kept) /\ Polled
    BY DEF AgainstSame, DedupeTypeOK
  <2>2. Len(kept) \in Nat /\ DOMAIN kept = 1..Len(kept) /\ next \in DOMAIN kept /\ i \in DOMAIN pois
    BY <2>1
  <2>3. i \in Range(kept)
    BY <2>2 DEF Range
  <2> QED BY <2>1, <2>2, <2>3 DEF AgainstSame
<1>2. /\ BasePois' = BasePois /\ Polled'
      /\ \A k, l : Apart(k, l)' <=> Apart(k, l)
      /\ \A k, l, r : Coincide(k, l, r)' <=> Coincide(k, l, r)
  BY <1>1, PollStays
<1>3. RadiusFor(source) \in 1..GridRadius
  BY RadiusShape
<1>4. /\ i \notin DOMAIN into /\ i \notin Range(out) /\ i \notin BasePois
      /\ DOMAIN into \cup Range(kept) = DOMAIN pois \ BasePois
      /\ Range(out) \cap DOMAIN into = {} /\ Range(out) \subseteq Range(kept)
      /\ \A k, l \in DOMAIN kept : kept[k] = kept[l] => k = l
      /\ \A k \in DOMAIN kept : IF k < next THEN kept[k] \in Range(out) \cup DOMAIN into
                                 ELSE kept[k] \notin Range(out) \cup DOMAIN into
      /\ Range(kept) \cap BasePois = {}
      /\ Range(out) \subseteq DOMAIN pois /\ out \in Seq(DOMAIN pois)
  <2>1. out \in Seq(DOMAIN pois) /\ Range(out) \subseteq DOMAIN pois
    BY DEF DedupeTypeOK, Range
  <2> QED BY <1>1, <2>1 DEF LoopsSound
<1>5. \A k \in DOMAIN kept : k < next' <=> k < next \/ k = next
  BY <1>1
<1>6. SourceGrid(source) \in SUBSET DOMAIN pois
  BY <1>4 DEF SourceGrid
<1>7. ASSUME DOMAIN into' \cup Range(out') = DOMAIN into \cup Range(out) \cup {i},
             Range(out') \cap DOMAIN into' = {}, Range(out') \subseteq Range(kept),
             DOMAIN into' \subseteq DOMAIN into \cup {i}, DOMAIN into \subseteq DOMAIN into'
      PROVE  LoopsSound'
  <2>1. \A k \in DOMAIN kept : IF k < next' THEN kept[k] \in Range(out') \cup DOMAIN into'
                               ELSE kept[k] \notin Range(out') \cup DOMAIN into'
    BY <1>1, <1>4, <1>5, <1>7
  <2>2. DOMAIN into' \cup Range(kept) = DOMAIN pois \ BasePois
    BY <1>1, <1>4, <1>7
  <2>3. next' <= Len(kept) + 1
    BY <1>1
  <2> QED BY <1>1, <1>2, <1>4, <1>7, <2>1, <2>2, <2>3 DEF LoopsSound
<1>8. CASE match = {}
  <2>1. out' = Append(out, i) /\ clearance' = clearance /\ into' = into
    BY <1>8 DEF AgainstSame
  <2>2. out' \in Seq(DOMAIN pois) /\ Range(out') = Range(out) \cup {i}
    BY <1>1, <1>4, <2>1, Appended
  <2>3. DedupeTypeOK'
    BY <1>1, <1>2, <2>1, <2>2 DEF DedupeTypeOK
  <2>4. MergesSound'
    <3>1. Handed \subseteq Handed'
      BY <1>2, <2>2 DEF Handed
    <3> QED BY <1>1, <2>1, <3>1, SameMerges
  <2>5. KeptApart'
    <3>1. ASSUME NEW j \in Range(out), source \in DedupeSources, pois[j].source = source
          PROVE  Apart(i, j) /\ Apart(j, i)
      <4>1. j \in SourceGrid(source) /\ j \in DOMAIN pois
        BY <1>4, <3>1 DEF SourceGrid
      <4>2. Len(kept) > 1
        <5>1. PICK k \in DOMAIN kept : j = kept[k]
          BY <1>4 DEF Range
        <5>2. k # next
          BY <1>4, <5>1
        <5> QED BY <1>1, <5>2
      <4>3. ScanNeighborhood(SourceGrid(source), i, RadiusFor(source)) = {}
        BY <1>8, <3>1, <4>2
      <4>4. Apart(i, j)
        <5> DEFINE grid == SourceGrid(source)  radius == RadiusFor(source)
        <5>1. /\ Polled /\ grid \in SUBSET DOMAIN pois /\ i \in DOMAIN pois /\ radius \in 1..GridRadius
              /\ ScanNeighborhood(grid, i, radius) = {} /\ j \in grid
          BY <1>1, <1>3, <1>6, <4>1, <4>3
        <5> HIDE DEF grid, radius, i, source
        <5>2. ~Coincide(i, j, radius) \/ AcrossAntimeridian(i, j)
          BY <5>1, SweepIsRight
        <5> QED BY <5>2 DEF Apart, radius, source
      <4>5. Apart(j, i)
        BY <1>1, <3>1, <4>1, <4>4, CoincideBothWays DEF Apart
      <4> QED BY <4>4, <4>5
    <3>2. \A k, l \in Range(out') :
             k # l /\ pois[k].source \in DedupeSources /\ pois[k].source = pois[l].source => Apart(k, l)
      <4> TAKE k, l \in Range(out')
      <4> HAVE k # l /\ pois[k].source \in DedupeSources /\ pois[k].source = pois[l].source
      <4>1. CASE k \in Range(out) /\ l \in Range(out)
        BY <4>1 DEF KeptApart
      <4>2. CASE k = i /\ l \in Range(out)
        BY <3>1, <4>2
      <4>3. CASE l = i /\ k \in Range(out)
        BY <3>1, <4>3
      <4> QED BY <2>2, <4>1, <4>2, <4>3
    <3> QED BY <1>1, <1>2, <3>2 DEF KeptApart
  <2>6. LoopsSound'
    BY <1>1, <1>4, <1>7, <2>1, <2>2
  <2> QED BY <2>3, <2>4, <2>5, <2>6
<1>9. CASE match # {}
  <2>1. PICK survivor \in match : Fold(i, survivor) /\ out' = out
    BY <1>9 DEF AgainstSame
  <2>2. /\ source \in DedupeSources /\ survivor \in SourceGrid(source)
        /\ Coincide(i, survivor, RadiusFor(source))
    BY <1>1, <1>3, <1>6, <1>9, <2>1, SweepIsRight
  <2>3. /\ survivor \in Range(out) /\ pois[survivor].source = source /\ survivor # i
        /\ survivor \in DOMAIN pois \ DOMAIN into
    BY <1>4, <2>2 DEF SourceGrid
  <2>4. \A j \in DOMAIN into : into[j] # i
    BY <1>4 DEF MergesSound, Handed
  <2>5. credits' = [credits EXCEPT ![survivor] = @ \cup {source}]
    <3>1. source \in credits[survivor]
      <4>1. credits[survivor] = {pois[j].source : j \in Group(survivor)}
        BY <2>3 DEF MergesSound
      <4>2. survivor \in Group(survivor)
        BY DEF Group
      <4> QED BY <2>3, <4>1, <4>2, Zenon
    <3>2. credits = [k \in DOMAIN pois |-> credits[k]]
      BY DEF DedupeTypeOK
    <3>3. credits[survivor] \cup {source} = credits[survivor] /\ credits' = credits
      BY <1>1, <3>1
    <3> HIDE DEF source
    <3>4. [credits EXCEPT ![survivor] = @ \cup {source}] = [k \in DOMAIN pois |-> credits[k]]
      BY <3>2, <3>3
    <3> QED BY <3>2, <3>3, <3>4
  <2>6. /\ clearance' \in [DOMAIN pois -> Int \cup {Unknown}]
        /\ credits' = [k \in DOMAIN pois |-> credits'[k]]
        /\ DOMAIN into' = DOMAIN into \cup {i}
        /\ into' = [k \in DOMAIN into' |-> into'[k]]
        /\ into'[i] = survivor /\ \A k \in DOMAIN into : into'[k] = into[k]
        /\ \A k \in DOMAIN pois \ DOMAIN into' :
              /\ Lowest(clearance'[k], Group(k)')
              /\ credits'[k] = {pois[j].source : j \in Group(k)'}
    BY <1>1, <1>4, <2>1, <2>3, <2>4, <2>5, FoldKeepsGroups
  <2>7. DedupeTypeOK'
    BY <1>1, <1>2, <2>1, <2>6 DEF DedupeTypeOK
  <2>8. MergesSound'
    <3>1. Handed' = Handed /\ survivor \in Handed
      BY <1>2, <2>1, <2>3 DEF Handed
    <3>2. \A k \in DOMAIN into' : /\ into'[k] \in Handed /\ pois[k].source \in DedupeSources
                                  /\ Coincide(k, into'[k], RadiusFor(pois[k].source))
      BY <2>2, <2>6, <3>1 DEF MergesSound
    <3>3. \A k \in DOMAIN into' :
             /\ into'[k] \in Handed' /\ pois'[k].source \in DedupeSources
             /\ Coincide(k, into[k], RadiusFor(pois[k].source))'
      BY <1>1, <3>1, <3>2 DEF Coincide, SquaredDistance
    <3>4. \A k \in DOMAIN pois' \ DOMAIN into' :
             /\ Lowest(clearance[k], Group(k))'
             /\ credits'[k] = {pois'[j].source : j \in Group(k)'}
      BY <1>1, <2>6 DEF Lowest
    <3> QED BY <3>3, <3>4 DEF MergesSound
  <2>9. KeptApart'
    BY <1>1, <1>2, <2>1 DEF KeptApart
  <2>10. LoopsSound'
    BY <1>4, <1>7, <2>1, <2>6
  <2> QED BY <2>7, <2>8, <2>9, <2>10
<1>10. QED
  BY <1>8, <1>9

\* The second loop begins.
LEMMA BeginSameKeeps ==
    ASSUME DedupeInv, BeginSame
    PROVE  DedupeInv'
<1> USE DEF DedupeInv
<1>1. /\ stage = "base" /\ next > Len(pois) /\ stage' = "same" /\ next' = 1
      /\ pois' = pois /\ kept' = kept /\ out' = out /\ into' = into
      /\ clearance' = clearance /\ credits' = credits
  BY DEF BeginSame
<1>2. /\ BasePois' = BasePois /\ Polled' /\ Handed' = Handed
      /\ \A k, l : Apart(k, l)' <=> Apart(k, l)
  BY <1>1, PollStays DEF Handed, DedupeTypeOK
<1>3. DedupeTypeOK'
  BY <1>1, <1>2 DEF DedupeTypeOK
<1>4. MergesSound'
  BY <1>1, <1>2, SameMerges
<1>5. KeptApart'
  BY <1>1, <1>2 DEF KeptApart
<1>6. LoopsSound'
  <2>1. {k \in DOMAIN pois : k < next} = DOMAIN pois
    BY <1>1 DEF DedupeTypeOK, Polled
  <2>2. /\ DOMAIN into \cup Range(kept) = DOMAIN pois \ BasePois
        /\ Range(kept) \cap DOMAIN into = {} /\ out = <<>>
    BY <1>1, <2>1 DEF LoopsSound
  <2>3. /\ kept \in Seq(DOMAIN pois) /\ Len(kept) \in Nat /\ DOMAIN kept = 1..Len(kept)
        /\ Range(out) = {}
    BY <2>2 DEF DedupeTypeOK, Range
  <2>4. \A k \in DOMAIN kept : ~(k < 1) /\ kept[k] \notin Range(out) \cup DOMAIN into
    BY <2>2, <2>3 DEF Range
  <2> QED BY <1>1, <1>2, <2>2, <2>3, <2>4 DEF LoopsSound
<1>7. QED
  BY <1>3, <1>4, <1>5, <1>6

\* The merge ends.
LEMMA EndDedupeKeeps ==
    ASSUME DedupeInv, EndDedupe \/ UNCHANGED dedupeVars
    PROVE  DedupeInv'
<1> USE DEF DedupeInv
<1>1. /\ pois' = pois /\ kept' = kept /\ out' = out /\ into' = into /\ next' = next
      /\ clearance' = clearance /\ credits' = credits
      /\ stage' = stage \/ (stage = "same" /\ stage' = "done" /\ next > Len(kept))
  BY DEF EndDedupe, dedupeVars
<1>2. /\ BasePois' = BasePois /\ Polled' /\ Handed' = Handed
      /\ \A k, l : Apart(k, l)' <=> Apart(k, l)
  BY <1>1, PollStays DEF Handed, DedupeTypeOK
<1>3. DedupeTypeOK'
  BY <1>1, <1>2 DEF DedupeTypeOK
<1>4. MergesSound'
  BY <1>1, <1>2, SameMerges
<1>5. KeptApart'
  BY <1>1, <1>2 DEF KeptApart
<1>6. LoopsSound'
  BY <1>1, <1>2 DEF LoopsSound
<1>7. QED
  BY <1>3, <1>4, <1>5, <1>6

\* The invariant holds at first.
LEMMA DedupeInvInit == DedupeInit => DedupeInv
<1> SUFFICES ASSUME DedupeInit PROVE DedupeInv
  OBVIOUS
<1>1. /\ Polled /\ next = 1 /\ stage = "base" /\ kept = <<>> /\ out = <<>> /\ into = <<>>
      /\ clearance = [i \in DOMAIN pois |-> pois[i].clearance]
      /\ credits = [i \in DOMAIN pois |-> {pois[i].source}]
      /\ DOMAIN into = {} /\ Range(kept) = {} /\ Range(out) = {}
  BY PolledAtFirst DEF DedupeInit, Range
<1>2. DedupeTypeOK
  <2>1. \A i \in DOMAIN pois : pois[i].clearance \in Int \cup {Unknown}
    BY <1>1, PointMeasures
  <2>2. into = [i \in DOMAIN into |-> into[i]]
    BY <1>1
  <2> QED BY <1>1, <2>1, <2>2 DEF DedupeTypeOK
<1>3. MergesSound
  <2>1. \A i \in DOMAIN pois : Group(i) = {i}
    BY <1>1 DEF Group
  <2>2. \A i \in DOMAIN pois : pois[i].clearance = Unknown \/ pois[i].clearance \in Int
    BY <1>1, PointMeasures
  <2>3. \A i \in DOMAIN pois : Lowest(pois[i].clearance, {i})
    BY <2>2 DEF Lowest
  <2>4. \A i \in DOMAIN pois : Lowest(clearance[i], Group(i))
    BY <1>1, <2>1, <2>3
  <2>5. \A i \in DOMAIN pois : credits[i] = {pois[j].source : j \in Group(i)}
    BY <1>1, <2>1
  <2> QED BY <1>1, <2>4, <2>5 DEF MergesSound
<1>4. KeptApart
  BY <1>1 DEF KeptApart
<1>5. LoopsSound
  BY <1>1 DEF LoopsSound, Polled
<1>6. QED
  BY <1>2, <1>3, <1>4, <1>5 DEF DedupeInv

\* Every step keeps the invariant.
LEMMA DedupeInvStep == DedupeInv /\ [DedupeNext]_dedupeVars => DedupeInv'
BY AgainstBaseKeeps, AgainstSameKeeps, BeginSameKeeps, EndDedupeKeeps DEF DedupeNext

\* The invariant says that the merge is sound.
LEMMA DedupeInvSound == DedupeInv => DedupeSound
<1> SUFFICES ASSUME DedupeInv, stage = "done" PROVE DedupeSound
  BY DEF DedupeSound
<1> USE DEF DedupeInv
<1>1. /\ kept \in Seq(DOMAIN pois) /\ next \in Nat /\ next > Len(kept) /\ Polled
      /\ Range(kept) = Range(out) \cup {k \in DOMAIN into : k \in Range(kept)}
      /\ DOMAIN into \cup Range(kept) = DOMAIN pois \ BasePois
      /\ Range(out) \cap DOMAIN into = {}
  <2>1. kept \in Seq(DOMAIN pois) /\ next \in Nat /\ next > Len(kept) /\ Polled
    BY DEF DedupeTypeOK, LoopsSound
  <2>2. \A k \in DOMAIN kept : k < next
    BY <2>1
  <2>3. \A k \in DOMAIN kept : kept[k] \in Range(out) \cup DOMAIN into
    BY <2>2 DEF LoopsSound
  <2>4. Range(kept) = Range(out) \cup {k \in DOMAIN into : k \in Range(kept)}
    BY <2>3 DEF LoopsSound, Range
  <2> QED BY <2>1, <2>4 DEF LoopsSound
<1>2. Handed \cup DOMAIN into = DOMAIN pois /\ Handed \cap DOMAIN into = {}
  BY <1>1, BaseIsOfThePoll DEF Handed, LoopsSound
<1>3. \A i \in DOMAIN into : /\ into[i] \in Handed /\ pois[i].source \in DedupeSources
                              /\ Coincide(i, into[i], RadiusFor(pois[i].source))
  BY DEF MergesSound
<1>4. ASSUME NEW i \in Handed
      PROVE  LET group == {i} \cup {j \in DOMAIN into : into[j] = i}
                 known == {pois[j].clearance : j \in group} \ {Unknown}
             IN /\ clearance[i] = IF known = {} THEN Unknown ELSE Min(known)
                /\ credits[i] = {pois[j].source : j \in group}
  <2> DEFINE known == {pois[j].clearance : j \in Group(i)} \ {Unknown}
  <2>1. /\ i \in DOMAIN pois \ DOMAIN into /\ Lowest(clearance[i], Group(i))
        /\ credits[i] = {pois[j].source : j \in Group(i)}
    BY <1>2 DEF MergesSound
  <2>2. \A j \in Group(i) : pois[j].clearance = Unknown \/ pois[j].clearance \in Int
    <3>1. Group(i) \subseteq DOMAIN pois
      BY <2>1, <1>2 DEF Group
    <3> QED BY <1>1, <3>1, PointMeasures
  <2>3. clearance[i] = IF known = {} THEN Unknown ELSE Min(known)
    <3>1. CASE clearance[i] = Unknown
      <4>1. known = {}
        BY <2>1, <3>1 DEF Lowest
      <4> QED BY <3>1, <4>1
    <3>2. CASE clearance[i] # Unknown
      <4>1. clearance[i] \in known /\ \A c \in known : clearance[i] <= c
        BY <2>1, <3>2 DEF Lowest
      <4>2. known \subseteq Int
        BY <2>2
      <4> HIDE DEF known
      <4>3. ASSUME NEW c \in known, \A d \in known : c <= d PROVE c = clearance[i]
        <5>1. c \in Int /\ clearance[i] \in Int /\ c <= clearance[i] /\ clearance[i] <= c
          BY <4>1, <4>2, <4>3
        <5> QED BY <5>1
      <4>4. Min(known) = clearance[i]
        BY <4>1, <4>3 DEF Min
      <4> QED BY <4>1, <4>4
    <3> QED BY <3>1, <3>2
  <2> QED BY <2>1, <2>3 DEF Group
<1>5. \A i, j \in Handed : Missed(i, j) => AcrossAntimeridian(i, j)
  <2> TAKE i, j \in Handed
  <2> HAVE Missed(i, j)
  <2>1. /\ i # j /\ pois[i].source \in DedupeSources /\ pois[j].source \in {Base, pois[i].source}
        /\ Coincide(i, j, RadiusFor(pois[i].source)) /\ i \in DOMAIN pois /\ j \in DOMAIN pois
    BY <1>2 DEF Missed
  <2>2. i \in Range(out) /\ i \in Range(kept) /\ i \notin BasePois
    BY <2>1, BaseIsOfThePoll DEF Handed, LoopsSound
  <2>3. CASE pois[j].source = Base
    <3>1. j \in BasePois
      BY <2>1, <2>3, BaseIsOfThePoll
    <3>2. Apart(i, j)
      BY <2>1, <2>2, <3>1 DEF KeptApart
    <3> QED BY <2>1, <3>2 DEF Apart
  <2>4. CASE pois[j].source = pois[i].source
    <3>1. j \in Range(out)
      BY <2>1, <2>4, BaseIsOfThePoll DEF Handed
    <3>2. Apart(i, j)
      BY <2>1, <2>2, <2>4, <3>1 DEF KeptApart
    <3> QED BY <2>1, <3>2 DEF Apart
  <2> QED BY <2>1, <2>3, <2>4
<1>6. QED
  BY <1>2, <1>3, <1>4, <1>5 DEF DedupeSound

\* Nothing is lost by the merge, and nothing is left that should have been merged.
THEOREM MergedIsSound == DedupeSpec => []DedupeSound
<1>1. DedupeInit => DedupeInv
  BY DedupeInvInit
<1>2. DedupeInv /\ [DedupeNext]_dedupeVars => DedupeInv'
  BY DedupeInvStep
<1>3. DedupeInv => DedupeSound
  BY DedupeInvSound
<1>4. QED
  BY <1>1, <1>2, <1>3, PTL DEF DedupeSpec
=============================================================================
