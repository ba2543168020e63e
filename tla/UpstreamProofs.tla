---------------------------- MODULE UpstreamProofs ----------------------------
(***************************************************************************)
(* Four facts of how upstreams are asked, for any limits.                  *)
(*                                                                         *)
(* The queue of the HTTP client never leaks a slot, for any number of      *)
(* requests, slots and places.  The counter of the slots is tied to the    *)
(* requests that hold one (Accounts), through every way a request ends;    *)
(* and that no request waits beside a free slot is what one pump at each   *)
(* arrival and each release keeps: before it, either the slots were all    *)
(* taken or nobody waited.                                                 *)
(*                                                                         *)
(* A request of the one-shot client is settled by the first of its racers. *)
(* That a later one finds nothing to undo rests on what is left standing:  *)
(* a settled request whose connection is still open failed to be decoded,  *)
(* and its decompressor is gone (Standing).                                *)
(*                                                                         *)
(* The cache of a source's list requests shares one request per tile and   *)
(* contains failures, for any readers, tiles and capacity.  CacheSound is  *)
(* not inductive: that an entry has one request out says nothing of which. *)
(* CacheInv does: a first fetch serves an entry that has nothing yet, a    *)
(* refresh one that holds a value and is marked, and no failed entry is    *)
(* marked.  That an entry without a value is in no cool-down, which        *)
(* RetriesSpaced needs when a read joins its fetch, is the last of it.     *)
(*                                                                         *)
(* The boxes that requests are made of hold what they were made to hold,   *)
(* on a globe and with tiles and spans of any size.                        *)
(***************************************************************************)
EXTENDS RequestQueue, OneShotHttp, BboxDebounce, BoundingBoxes, FiniteSetTheorems,
        SequenceTheorems, WellFoundedInduction, TLAPS

Phases == {"new", "waiting"} \cup Holding \cup Settled

HoldingIn(phases) == {r \in Requests : phases[r] \in Holding}

Distinct(queue) == \A i, j \in 1..Len(queue) : queue[i] = queue[j] => i = j

\* The slots and the places are those of the requests that hold them.
Accounts(phases, queue, held) ==
    /\ phases \in [Requests -> Phases]
    /\ queue \in Seq(Requests) /\ Len(queue) <= MaxWaiting /\ Distinct(queue)
    /\ \A r \in Requests : phases[r] = "waiting" <=> \E i \in 1..Len(queue) : queue[i] = r
    /\ held \in Nat /\ held <= MaxConcurrency
    /\ IsFiniteSet(HoldingIn(phases)) /\ held = Cardinality(HoldingIn(phases))

\* The inductive invariant.
QueueInv ==
    /\ Accounts(phase, waiting, active)
    /\ WorkConserving
    /\ ClosedIsQuiet
    /\ closed => aborted = Requests

-----------------------------------------------------------------------------
(* Phases.                                                                 *)

\* A request that takes a slot counts once.
LEMMA TakesSlot ==
    ASSUME NEW phases \in [Requests -> Phases], IsFiniteSet(HoldingIn(phases)),
           NEW r \in Requests, phases[r] \notin Holding, NEW p \in Holding
    PROVE  /\ IsFiniteSet(HoldingIn([phases EXCEPT ![r] = p]))
           /\ Cardinality(HoldingIn([phases EXCEPT ![r] = p]))
                = Cardinality(HoldingIn(phases)) + 1
<1>1. HoldingIn([phases EXCEPT ![r] = p]) = HoldingIn(phases) \cup {r}
  BY DEF HoldingIn
<1>2. r \notin HoldingIn(phases)
  BY DEF HoldingIn
<1>3. QED
  BY <1>1, <1>2, FS_AddElement

\* A request that gives its slot back no longer counts.
LEMMA GivesSlotBack ==
    ASSUME NEW phases \in [Requests -> Phases], IsFiniteSet(HoldingIn(phases)),
           NEW r \in Requests, phases[r] \in Holding, NEW p \in Phases \ Holding
    PROVE  /\ IsFiniteSet(HoldingIn([phases EXCEPT ![r] = p]))
           /\ Cardinality(HoldingIn([phases EXCEPT ![r] = p]))
                = Cardinality(HoldingIn(phases)) - 1
<1>1. HoldingIn([phases EXCEPT ![r] = p]) = HoldingIn(phases) \ {r}
  BY DEF HoldingIn
<1>2. r \in HoldingIn(phases)
  BY DEF HoldingIn
<1>3. QED
  BY <1>1, <1>2, FS_RemoveElement

\* Other changes of phase do not touch the accounts.
LEMMA SameAccounts ==
    ASSUME NEW phases, NEW queue, NEW held, Accounts(phases, queue, held),
           NEW others \in [Requests -> Phases],
           \A r \in Requests : /\ others[r] = "waiting" <=> phases[r] = "waiting"
                               /\ others[r] \in Holding <=> phases[r] \in Holding
    PROVE  Accounts(others, queue, held)
<1>1. HoldingIn(others) = HoldingIn(phases)
  BY DEF HoldingIn
<1>2. QED
  BY <1>1 DEF Accounts

-----------------------------------------------------------------------------
(* The queue.                                                              *)

\* One more at the end of the queue.
LEMMA Queued ==
    ASSUME NEW queue \in Seq(Requests), Distinct(queue), NEW r \in Requests,
           \A i \in 1..Len(queue) : queue[i] # r
    PROVE  /\ Append(queue, r) \in Seq(Requests) /\ Len(Append(queue, r)) = Len(queue) + 1
           /\ Distinct(Append(queue, r))
           /\ \A x \in Requests : (\E i \in 1..Len(Append(queue, r)) : Append(queue, r)[i] = x)
                                    <=> x = r \/ \E i \in 1..Len(queue) : queue[i] = x
<1> DEFINE longer == Append(queue, r)
<1>1. /\ longer \in Seq(Requests) /\ Len(longer) = Len(queue) + 1 /\ Len(queue) \in Nat
      /\ \A i \in 1..Len(queue) : longer[i] = queue[i]
      /\ longer[Len(queue) + 1] = r
  BY AppendProperties
<1> HIDE DEF longer
<1>2. 1..Len(longer) = 1..Len(queue) \cup {Len(queue) + 1}
  BY <1>1
<1>3. Distinct(longer)
  BY <1>1, <1>2 DEF Distinct
<1>4. ASSUME NEW x \in Requests
      PROVE  (\E i \in 1..Len(longer) : longer[i] = x)
               <=> x = r \/ \E i \in 1..Len(queue) : queue[i] = x
  BY <1>1, <1>2
<1>5. QED
  BY <1>1, <1>3, <1>4 DEF longer

\* One less at its head.
LEMMA Dequeued ==
    ASSUME NEW queue \in Seq(Requests), Distinct(queue), queue # <<>>
    PROVE  /\ Head(queue) \in Requests /\ Tail(queue) \in Seq(Requests)
           /\ Len(Tail(queue)) = Len(queue) - 1 /\ Len(queue) \in Nat \ {0}
           /\ \E i \in 1..Len(queue) : queue[i] = Head(queue)
           /\ Distinct(Tail(queue))
           /\ \A x \in Requests : (\E i \in 1..Len(Tail(queue)) : Tail(queue)[i] = x)
                                    <=> x # Head(queue) /\ \E i \in 1..Len(queue) : queue[i] = x
<1> DEFINE rest == Tail(queue)
<1>1. /\ Head(queue) \in Requests /\ rest \in Seq(Requests)
      /\ Len(rest) = Len(queue) - 1 /\ Len(queue) \in Nat \ {0}
      /\ \A i \in 1..Len(rest) : rest[i] = queue[i + 1]
      /\ Head(queue) = queue[1]
  BY HeadTailProperties
<1> HIDE DEF rest
<1>2. 1 \in 1..Len(queue) /\ \A i \in 1..Len(rest) : i + 1 \in 1..Len(queue) /\ i + 1 # 1
  BY <1>1
<1>3. Distinct(rest)
  BY <1>1, <1>2 DEF Distinct
<1>4. ASSUME NEW x \in Requests, NEW i \in 1..Len(queue), queue[i] = x, x # Head(queue)
      PROVE  \E j \in 1..Len(rest) : rest[j] = x
  <2>1. i - 1 \in 1..Len(rest) /\ (i - 1) + 1 = i
    BY <1>1, <1>4
  <2>2. QED
    BY <1>1, <1>4, <2>1
<1>5. ASSUME NEW x \in Requests, NEW i \in 1..Len(rest), rest[i] = x
      PROVE  x # Head(queue) /\ \E j \in 1..Len(queue) : queue[j] = x
  BY <1>1, <1>2, <1>5 DEF Distinct
<1>6. QED
  BY <1>1, <1>2, <1>3, <1>4, <1>5 DEF rest

\* pump, over accounts that are right, when nobody waits beside a free slot but for the
\* one that has just come or the slot that has just been freed.
LEMMA PumpKeepsAccounts ==
    ASSUME NEW phases, NEW queue, NEW held, Accounts(phases, queue, held),
           Len(queue) <= 1 \/ held >= MaxConcurrency - 1,
           Pump(phases, queue, held)
    PROVE  Accounts(phase', waiting', active') /\ (waiting' # <<>> => active' = MaxConcurrency)
<1>1. CASE held < MaxConcurrency /\ queue # <<>>
  <2> DEFINE r == Head(queue)
  <2>1. /\ phase' = [phases EXCEPT ![r] = "scheduled"]
        /\ waiting' = Tail(queue) /\ active' = held + 1
    BY <1>1 DEF Pump
  <2>2. /\ r \in Requests /\ waiting' \in Seq(Requests)
        /\ Len(waiting') = Len(queue) - 1 /\ Len(queue) \in Nat \ {0}
        /\ Distinct(waiting')
        /\ \A x \in Requests : (\E i \in 1..Len(waiting') : waiting'[i] = x)
                                 <=> x # r /\ \E i \in 1..Len(queue) : queue[i] = x
        /\ phases[r] = "waiting"
    BY <1>1, <2>1, Dequeued DEF Accounts
  <2> HIDE DEF r
  <2>3. phases[r] \notin Holding /\ "scheduled" \in Holding /\ "scheduled" \in Phases
    BY <2>2 DEF Holding, Phases
  <2>4. IsFiniteSet(HoldingIn(phase')) /\ Cardinality(HoldingIn(phase')) = held + 1
    BY <2>1, <2>2, <2>3, TakesSlot DEF Accounts
  <2>5. /\ phase' \in [Requests -> Phases]
        /\ \A x \in Requests : phase'[x] = "waiting" <=> x # r /\ phases[x] = "waiting"
    BY <2>1, <2>2, <2>3 DEF Accounts
  <2>6. Len(waiting') <= MaxWaiting /\ held + 1 \in Nat /\ held + 1 <= MaxConcurrency
    BY <1>1, <2>2, LimitsAssumption DEF Accounts
  <2>7. Accounts(phase', waiting', active')
    BY <2>1, <2>2, <2>4, <2>5, <2>6 DEF Accounts
  <2>8. waiting' # <<>> => Len(waiting') # 0
    BY <2>2
  <2>9. waiting' # <<>> => active' = MaxConcurrency
    BY <1>1, <2>1, <2>2, <2>8, LimitsAssumption DEF Accounts
  <2>10. QED
    BY <2>7, <2>9
<1>2. CASE ~(held < MaxConcurrency /\ queue # <<>>)
  <2>1. phase' = phases /\ waiting' = queue /\ active' = held
    BY <1>2 DEF Pump
  <2>2. QED
    BY <1>2, <2>1, LimitsAssumption DEF Accounts
<1>3. QED
  BY <1>1, <1>2
-----------------------------------------------------------------------------
(* The steps.                                                              *)

\* A queue of which nobody is left to pump.
LEMMA NobodyWaitsClosed ==
    ASSUME QueueInv, closed
    PROVE  waiting = <<>>
<1>1. waiting # <<>> => 1 \in 1..Len(waiting) /\ waiting[1] \in Requests
  BY DEF QueueInv, Accounts
<1>2. ASSUME waiting # <<>> PROVE phase[waiting[1]] = "waiting" /\ waiting[1] \in Requests
  BY <1>1, <1>2 DEF QueueInv, Accounts
<1>3. QED
  BY <1>2 DEF QueueInv, ClosedIsQuiet, Settled

LEMMA SubmitKeeps ==
    ASSUME QueueInv, NEW r \in Requests, Submit(r)
    PROVE  QueueInv'
<1>1. /\ phase \in [Requests -> Phases] /\ waiting \in Seq(Requests) /\ Distinct(waiting)
      /\ phase[r] = "new" /\ closed' = closed /\ aborted' = aborted
      /\ Len(waiting) \in Nat /\ Len(waiting) <= MaxWaiting
  BY DEF QueueInv, Accounts, Submit
<1>2. \A i \in 1..Len(waiting) : waiting[i] # r
  BY <1>1 DEF QueueInv, Accounts
<1>3. CASE closed
  <2>1. /\ phase' = [phase EXCEPT ![r] = "rejected"]
        /\ waiting' = waiting /\ active' = active
    BY <1>3 DEF Submit
  <2>2. Accounts(phase', waiting, active)
    <3>1. phase' \in [Requests -> Phases]
      BY <1>1, <2>1 DEF Phases, Settled
    <3>2. \A x \in Requests : /\ phase'[x] = "waiting" <=> phase[x] = "waiting"
                              /\ phase'[x] \in Holding <=> phase[x] \in Holding
      BY <1>1, <2>1 DEF Holding
    <3>3. QED
      BY <3>1, <3>2, SameAccounts DEF QueueInv
  <2>3. ClosedIsQuiet'
    BY <1>1, <2>1 DEF QueueInv, ClosedIsQuiet, Settled
  <2>4. QED
    BY <1>1, <2>1, <2>2, <2>3 DEF QueueInv, WorkConserving
<1>4. CASE ~closed /\ Len(waiting) >= MaxWaiting
  <2> DEFINE oldest == Head(waiting)
  <2> DEFINE phases == [phase EXCEPT ![r] = "waiting", ![oldest] = "rejected"]
  <2> DEFINE queue == Append(Tail(waiting), r)
  <2>1. waiting # <<>> /\ active = MaxConcurrency
    <3>1. waiting # <<>>
      BY <1>1, <1>4, LimitsAssumption
    <3>2. QED
      BY <3>1 DEF QueueInv, WorkConserving
  <2>2. /\ oldest \in Requests /\ Tail(waiting) \in Seq(Requests)
        /\ Len(Tail(waiting)) = Len(waiting) - 1 /\ Distinct(Tail(waiting))
        /\ \A x \in Requests : (\E i \in 1..Len(Tail(waiting)) : Tail(waiting)[i] = x)
                                 <=> x # oldest /\ phase[x] = "waiting"
        /\ phase[oldest] = "waiting" /\ oldest # r
    BY <1>1, <2>1, Dequeued DEF QueueInv, Accounts
  <2>3. \A i \in 1..Len(Tail(waiting)) : Tail(waiting)[i] # r
    BY <1>1, <2>2
  <2>4. /\ queue \in Seq(Requests) /\ Len(queue) = Len(waiting) /\ Distinct(queue)
        /\ \A x \in Requests : (\E i \in 1..Len(queue) : queue[i] = x)
                                 <=> x = r \/ (x # oldest /\ phase[x] = "waiting")
    <3>1. /\ queue \in Seq(Requests) /\ Len(queue) = Len(Tail(waiting)) + 1 /\ Distinct(queue)
          /\ \A x \in Requests : (\E i \in 1..Len(queue) : queue[i] = x)
                                   <=> x = r \/ \E i \in 1..Len(Tail(waiting)) : Tail(waiting)[i] = x
      BY <2>2, <2>3, Queued
    <3> HIDE DEF queue, oldest
    <3>2. QED
      BY <1>1, <2>2, <3>1
  <2>5. Pump(phases, queue, active)
    BY <1>4, LimitsAssumption, <1>1 DEF Submit
  <2> HIDE DEF oldest
  <2>6. /\ phases \in [Requests -> Phases]
        /\ \A x \in Requests : phases[x] = "waiting" <=> x = r \/ (x # oldest /\ phase[x] = "waiting")
        /\ HoldingIn(phases) = HoldingIn(phase)
    <3>1. phases \in [Requests -> Phases]
      BY <1>1, <2>2 DEF Phases, Settled
    <3>2. \A x \in Requests :
            phases[x] = IF x = oldest THEN "rejected" ELSE IF x = r THEN "waiting" ELSE phase[x]
      BY <1>1, <2>2
    <3>3. QED
      BY <1>1, <2>2, <3>1, <3>2 DEF HoldingIn, Holding
  <2> HIDE DEF phases, queue
  <2>7. Accounts(phases, queue, active)
    BY <1>1, <2>4, <2>6 DEF QueueInv, Accounts
  <2>8. Accounts(phase', waiting', active') /\ (waiting' # <<>> => active' = MaxConcurrency)
    BY <2>1, <2>5, <2>7, PumpKeepsAccounts, LimitsAssumption
  <2>9. QED
    BY <1>1, <1>4, <2>8 DEF QueueInv, WorkConserving, ClosedIsQuiet
<1>5. CASE ~closed /\ Len(waiting) < MaxWaiting
  <2> DEFINE phases == [phase EXCEPT ![r] = "waiting"]
  <2> DEFINE queue == Append(waiting, r)
  <2>1. /\ queue \in Seq(Requests) /\ Len(queue) = Len(waiting) + 1 /\ Distinct(queue)
        /\ \A x \in Requests : (\E i \in 1..Len(queue) : queue[i] = x)
                                 <=> x = r \/ phase[x] = "waiting"
    BY <1>1, <1>2, Queued DEF QueueInv, Accounts
  <2>2. Pump(phases, queue, active)
    BY <1>5, <1>1, LimitsAssumption DEF Submit
  <2>3. /\ phases \in [Requests -> Phases]
        /\ \A x \in Requests : phases[x] = "waiting" <=> x = r \/ phase[x] = "waiting"
        /\ HoldingIn(phases) = HoldingIn(phase)
    BY <1>1 DEF Phases, HoldingIn, Holding
  <2> HIDE DEF phases, queue
  <2>4. Accounts(phases, queue, active)
    BY <1>1, <1>5, <2>1, <2>3, LimitsAssumption DEF QueueInv, Accounts
  <2>5. Len(queue) <= 1 \/ active >= MaxConcurrency - 1
    <3>1. waiting # <<>> => active = MaxConcurrency
      BY DEF QueueInv, WorkConserving
    <3>2. waiting = <<>> => Len(waiting) = 0
      OBVIOUS
    <3>3. QED
      BY <2>1, <3>1, <3>2, LimitsAssumption
  <2>6. Accounts(phase', waiting', active') /\ (waiting' # <<>> => active' = MaxConcurrency)
    BY <2>2, <2>4, <2>5, PumpKeepsAccounts
  <2>7. QED
    BY <1>1, <1>5, <2>6 DEF QueueInv, WorkConserving, ClosedIsQuiet
<1>6. QED
  BY <1>1, <1>3, <1>4, <1>5, LimitsAssumption

\* A request that settles gives its slot to the next.
LEMMA ReleaseKeeps ==
    ASSUME QueueInv, NEW r \in Requests, phase[r] \in Holding, NEW outcome \in Settled,
           Release(r, outcome), UNCHANGED <<aborted, closed>>
    PROVE  QueueInv'
<1> DEFINE phases == [phase EXCEPT ![r] = outcome]
<1>1. /\ phase \in [Requests -> Phases] /\ outcome \in Phases \ Holding
      /\ outcome # "waiting" /\ phase[r] # "waiting"
  BY DEF QueueInv, Accounts, Phases, Holding, Settled
<1>2. /\ IsFiniteSet(HoldingIn(phases)) /\ Cardinality(HoldingIn(phases)) = active - 1
  BY <1>1, GivesSlotBack DEF QueueInv, Accounts
<1>3. active - 1 \in Nat
  BY <1>2, FS_CardinalityType
<1>4. Accounts(phases, waiting, active - 1)
  <2>1. phases \in [Requests -> Phases]
    BY <1>1
  <2>2. \A x \in Requests : phases[x] = "waiting" <=> phase[x] = "waiting"
    BY <1>1
  <2>3. active \in Nat /\ active <= MaxConcurrency
    BY DEF QueueInv, Accounts
  <2> HIDE DEF phases
  <2>4. active - 1 <= MaxConcurrency
    BY <2>3, LimitsAssumption
  <2>5. QED
    BY <1>2, <1>3, <2>1, <2>2, <2>4 DEF QueueInv, Accounts
<1>5. Len(waiting) <= 1 \/ active - 1 >= MaxConcurrency - 1
  <2>1. waiting = <<>> => Len(waiting) = 0
    OBVIOUS
  <2>2. waiting # <<>> => active = MaxConcurrency
    BY DEF QueueInv, WorkConserving
  <2>3. QED
    BY <2>1, <2>2, LimitsAssumption
<1>6. Pump(phases, waiting, active - 1)
  BY DEF Release
<1>7. ClosedIsQuiet'
  <2>1. CASE closed
    <3>1. phase' = phases
      BY <1>6, <2>1, NobodyWaitsClosed DEF Pump
    <3>2. QED
      BY <1>1, <2>1, <3>1 DEF QueueInv, ClosedIsQuiet
  <2>2. QED
    BY <2>1 DEF ClosedIsQuiet
<1> HIDE DEF phases
<1>8. Accounts(phase', waiting', active') /\ (waiting' # <<>> => active' = MaxConcurrency)
  BY <1>4, <1>5, <1>6, PumpKeepsAccounts
<1>9. QED
  BY <1>7, <1>8 DEF QueueInv, WorkConserving

\* What moves on between slots and places, or ends with its slot still held.
LEMMA MovingOnKeeps ==
    ASSUME QueueInv, phase' \in [Requests -> Phases],
           \A r \in Requests : /\ phase'[r] = "waiting" <=> phase[r] = "waiting"
                               /\ phase'[r] \in Holding <=> phase[r] \in Holding
                               /\ phase'[r] # phase[r] => phase'[r] = "aborting" \/ ~closed,
           UNCHANGED <<waiting, active, closed>>, closed => aborted' = Requests
    PROVE  QueueInv'
<1>1. Accounts(phase', waiting, active)
  BY SameAccounts DEF QueueInv
<1>2. ClosedIsQuiet'
  BY DEF QueueInv, ClosedIsQuiet
<1>3. QED
  BY <1>1, <1>2 DEF QueueInv, WorkConserving

LEMMA StartsKeeps ==
    ASSUME QueueInv, NEW r \in Requests, Fire(r) \/ Retry(r)
    PROVE  QueueInv'
<1>1. /\ phase \in [Requests -> Phases] /\ phase[r] \in {"scheduled", "backoff"}
      /\ phase' = [phase EXCEPT ![r] = IF r \in aborted THEN "aborting" ELSE "fetching"]
      /\ UNCHANGED <<waiting, active, aborted, closed>>
  BY DEF QueueInv, Accounts, Fire, Retry, Starts
<1>2. ~closed
  BY <1>1 DEF QueueInv, ClosedIsQuiet, Settled
<1>3. phase' \in [Requests -> Phases]
  BY <1>1 DEF Phases, Holding
<1>4. QED
  BY <1>1, <1>2, <1>3, MovingOnKeeps DEF Holding

LEMMA FailKeeps ==
    ASSUME QueueInv, NEW r \in Requests, Fail(r)
    PROVE  QueueInv'
<1>1. phase \in [Requests -> Phases] /\ phase[r] = "fetching" /\ UNCHANGED <<aborted, closed>>
  BY DEF QueueInv, Accounts, Fail
<1>2. CASE phase' = [phase EXCEPT ![r] = "backoff"] /\ UNCHANGED <<waiting, active>>
  <2>1. ~closed
    BY <1>1 DEF QueueInv, ClosedIsQuiet, Settled
  <2>2. phase' \in [Requests -> Phases]
    BY <1>1, <1>2 DEF Phases, Holding
  <2>3. QED
    BY <1>1, <1>2, <2>1, <2>2, MovingOnKeeps DEF Holding
<1>3. CASE Release(r, "failed")
  BY <1>1, <1>3, ReleaseKeeps DEF Holding, Settled
<1>4. QED
  BY <1>2, <1>3 DEF Fail

LEMMA AbortKeeps ==
    ASSUME QueueInv, NEW r \in Requests, CallerAborts(r)
    PROVE  QueueInv'
<1>1. /\ phase \in [Requests -> Phases] /\ phase' = Aborting({r})
      /\ r \notin aborted /\ UNCHANGED <<waiting, active, closed>>
  BY DEF QueueInv, Accounts, CallerAborts
<1>2. ~closed
  BY <1>1 DEF QueueInv
<1>3. phase' \in [Requests -> Phases]
  BY <1>1 DEF Aborting, Phases, Holding
<1>4. QED
  BY <1>1, <1>2, <1>3, MovingOnKeeps DEF Aborting, Holding

LEMMA CloseKeeps ==
    ASSUME QueueInv, Close
    PROVE  QueueInv'
<1>1. /\ phase \in [Requests -> Phases] /\ waiting' = <<>> /\ active' = active
      /\ aborted' = Requests
      /\ \A r \in Requests : phase'[r] =
            IF phase[r] = "waiting" THEN "rejected"
            ELSE IF phase[r] \in {"scheduled", "fetching", "backoff"} THEN "aborting"
            ELSE phase[r]
  BY DEF QueueInv, Accounts, Close, Aborting
<1>2. phase' \in [Requests -> Phases]
  BY <1>1 DEF Close, Phases, Holding, Settled
<1>3. HoldingIn(phase') = HoldingIn(phase)
  BY <1>1 DEF HoldingIn, Holding
<1>4. \A r \in Requests : phase'[r] # "waiting"
  BY <1>1
<1>5. Accounts(phase', <<>>, active)
  <2>1. /\ <<>> \in Seq(Requests) /\ Len(<<>>) = 0 /\ Distinct(<<>>)
    BY DEF Distinct
  <2>2. 0 <= MaxWaiting
    BY LimitsAssumption
  <2>3. QED
    BY <1>2, <1>3, <1>4, <2>1, <2>2 DEF QueueInv, Accounts
<1>6. ClosedIsQuiet'
  BY <1>1 DEF QueueInv, Accounts, ClosedIsQuiet, Phases, Holding, Settled
<1>7. QED
  BY <1>1, <1>5, <1>6 DEF QueueInv, WorkConserving

LEMMA QueueInvStep ==
    ASSUME QueueInv, [Next]_vars
    PROVE  QueueInv'
<1>1. CASE UNCHANGED vars
  BY <1>1 DEF vars, QueueInv, WorkConserving, ClosedIsQuiet
<1>2. CASE Advance
  BY <1>2 DEF Advance, QueueInv, WorkConserving, ClosedIsQuiet
<1>3. CASE Close
  BY <1>3, CloseKeeps
<1>4. ASSUME NEW r \in Requests, Answer(r) \/ Rejects(r) PROVE QueueInv'
  BY <1>4, ReleaseKeeps DEF Answer, Rejects, Holding, Settled
<1>5. QED
  BY <1>1, <1>2, <1>3, <1>4, SubmitKeeps, StartsKeeps, FailKeeps, AbortKeeps
     DEF Next, Settles

\* The slots and the places are accounted for, whoever waits does so for a slot that is
\* taken, and a close leaves nothing to start (http-client.ts: acquire, release, pump,
\* close), for any requests and limits.
THEOREM SlotsAreConserved == Spec => []SlotsSound
<1>1. Init => QueueInv
  <2>1. ASSUME Init PROVE Accounts(phase, waiting, active)
    <3>1. HoldingIn(phase) = {} /\ Distinct(waiting)
      BY <2>1 DEF Init, HoldingIn, Holding, Distinct
    <3>2. phase \in [Requests -> Phases] /\ \A r \in Requests : phase[r] # "waiting"
      BY <2>1 DEF Init, Phases
    <3>3. QED
      BY <2>1, <3>1, <3>2, FS_EmptySet, LimitsAssumption DEF Init, Accounts
  <2>2. QED
    BY <2>1 DEF Init, QueueInv, WorkConserving, ClosedIsQuiet
<1>2. ASSUME QueueInv PROVE SlotsSound
  <2> DEFINE places == {waiting[i] : i \in 1..Len(waiting)}
  <2>1. /\ waiting \in Seq(Requests) /\ Distinct(waiting) /\ Len(waiting) \in Nat
        /\ {r \in Requests : phase[r] = "waiting"} = places
    BY <1>2 DEF QueueInv, Accounts
  <2>2. Cardinality(places) = Len(waiting)
    <3>1. waiting \in Bijection(1..Len(waiting), places)
      BY <2>1 DEF Distinct, Bijection, Injection, Surjection, IsInjective
    <3>2. IsFiniteSet(1..Len(waiting)) /\ Cardinality(1..Len(waiting)) = Len(waiting)
      BY SMTT(20), <2>1, FS_Interval
    <3> HIDE DEF places
    <3>3. QED
      BY <3>1, <3>2, FS_Bijection DEF ExistsBijection
  <2>3. SlotsConserved
    BY <1>2, <2>1, <2>2 DEF QueueInv, Accounts, HoldingIn, SlotsConserved
  <2>4. QED
    BY <1>2, <2>3 DEF QueueInv, SlotsSound
<1>3. QED
  BY <1>1, <1>2, QueueInvStep, PTL DEF Spec

-----------------------------------------------------------------------------
(* One request of the one-shot client.                                     *)

Reasons == {"aborted", "unsupported coding", "too large", "broken off", "undecodable",
            "timed out"}

Responses == {<<>>} \cup {<<head>> : head \in Heads}
Outcomes ==
    {<<>>} \cup {<<"rejected", why>> : why \in Reasons}
           \cup {<<"resolved", status, n>> : status \in {200, 304, 500}, n \in Nat}

HttpTypes ==
    /\ connection \in {"none", "open", "ended", "destroyed"}
    /\ decoder \in {"none", "open", "destroyed"}
    /\ size \in Nat /\ armed \in BOOLEAN /\ listening \in BOOLEAN /\ signal \in BOOLEAN
    /\ response \in Responses /\ settled \in Outcomes

\* A request that is not settled holds no more than the cap; one that never began has
\* nothing; one that is settled and still has its connection could not be decoded, and
\* has no decompressor left.
Standing ==
    /\ settled = <<>> => size <= Cap /\ connection \in {"none", "open"}
    /\ connection = "none" => ~armed /\ ~listening /\ decoder = "none" /\ response = <<>>
    /\ settled # <<>> /\ connection = "open" =>
          /\ settled = <<"rejected", "undecodable">>
          /\ decoder = "destroyed" /\ response # <<>>

\* What is streamed can be read, and a response without a body streams nothing.
Streamed ==
    /\ response = <<>> => size = 0
    /\ response # <<>> =>
          /\ response[1].status = 304 => size = 0
          /\ connection = "open" => ChooseDecoder(response[1]) # "unsupported"

Outcome ==
    /\ settled # <<>> => ~armed /\ ~listening
    /\ settled # <<>> /\ settled[1] = "rejected" => decoder # "open"
    /\ settled # <<>> /\ settled[1] = "resolved" =>
          /\ response # <<>> /\ settled[2] = response[1].status
          /\ settled[3] = size /\ size <= Cap
          /\ ChooseDecoder(response[1]) # "unsupported"
    /\ settled = <<"rejected", "too large">> =>
          size > Cap \/ response[1].coding = "identity" \/ response[1].status = 304
    /\ settled = <<"rejected", "aborted">> => signal

\* The inductive invariant.
HttpInv == HttpTypes /\ Standing /\ Streamed /\ Outcome

\* The outcomes of a request differ.
LEMMA OutcomesDiffer ==
    /\ \A why : /\ <<"rejected", why>> # <<>> /\ <<"rejected", why>>[1] = "rejected"
                /\ <<"rejected", why>>[2] = why
    /\ \A status, n : /\ <<"resolved", status, n>> # <<>>
                      /\ <<"resolved", status, n>>[1] = "resolved"
                      /\ <<"resolved", status, n>>[2] = status
                      /\ <<"resolved", status, n>>[3] = n
    /\ \A head : <<head>> # <<>> /\ <<head>>[1] = head
OBVIOUS

LEMMA OutcomesTyped ==
    /\ <<>> \in Responses /\ <<>> \in Outcomes
    /\ \A head \in Heads : <<head>> \in Responses
    /\ \A why \in Reasons : <<"rejected", why>> \in Outcomes
    /\ \A status \in {200, 304, 500}, n \in Nat : <<"resolved", status, n>> \in Outcomes
  BY DEF Responses, Outcomes

\* Whichever racer fails an unsettled request leaves nothing standing but, when it is
\* the decompressor, the connection.
LEMMA RejectKeeps ==
    ASSUME HttpInv, settled = <<>>, NEW why \in Reasons, Reject(why),
           UNCHANGED response, size' \in Nat, signal' \in BOOLEAN,
           connection' \in {"open", "ended", "destroyed"},
           connection' = "open" => /\ connection = "open" /\ why = "undecodable"
                                   /\ decoder = "open" /\ response # <<>>,
           size' # size => response # <<>> /\ response[1].status # 304,
           why = "too large" => size' > Cap,
           why = "aborted" => signal'
    PROVE  HttpInv'
<1>1. /\ settled' = <<"rejected", why>> /\ armed' = FALSE /\ listening' = FALSE
      /\ decoder' = IF decoder = "open" THEN "destroyed" ELSE decoder
  BY DEF Reject, Settle
<1>2. settled' # <<>> /\ settled'[1] = "rejected" /\ settled'[1] # "resolved" /\ settled'[2] = why
  BY <1>1, OutcomesDiffer
<1>3. HttpTypes'
  BY ZenonT(30), <1>1, OutcomesTyped DEF HttpInv, HttpTypes
<1>4. Standing'
  BY <1>1, <1>2 DEF HttpInv, HttpTypes, Standing
<1>5. Streamed'
  <2>1. response' = response /\ (connection' = "open" => connection = "open")
    OBVIOUS
  <2>2. response # <<>> /\ response[1].status = 304 => size' = size
    OBVIOUS
  <2>3. response = <<>> => size' = size
    OBVIOUS
  <2>4. QED
    BY <2>1, <2>2, <2>3 DEF HttpInv, Streamed
<1>6. Outcome'
  <2>1. decoder' # "open"
    BY <1>1
  <2>2. settled' = <<"rejected", "too large">> => why = "too large"
    BY ZenonT(30), <1>2, OutcomesDiffer
  <2>3. settled' = <<"rejected", "aborted">> => why = "aborted"
    BY ZenonT(30), <1>2, OutcomesDiffer
  <2>4. QED
    BY <1>1, <1>2, <2>1, <2>2, <2>3 DEF Outcome
<1>7. QED
  BY <1>3, <1>4, <1>5, <1>6 DEF HttpInv

LEMMA BeginKeeps ==
    ASSUME HttpInv, Begin
    PROVE  HttpInv'
<1>0. /\ connection = "none" /\ settled = <<>> /\ size = 0 /\ response = <<>>
      /\ decoder = "none" /\ ~armed /\ ~listening
      /\ UNCHANGED <<response, decoder, size, signal>>
      /\ 0 <= Cap /\ signal \in BOOLEAN /\ armed \in BOOLEAN /\ listening \in BOOLEAN
  BY HttpAssumption DEF Begin, HttpInv, HttpTypes, Standing, Streamed
<1>1. CASE signal
  <2>1. settled' = <<"rejected", "aborted">> /\ UNCHANGED <<connection, armed, listening>>
    BY <1>1 DEF Begin
  <2>2. settled' # <<>> /\ settled'[1] = "rejected" /\ settled'[2] = "aborted"
    BY <2>1, OutcomesDiffer
  <2>3. settled' # <<"rejected", "too large">>
    BY <2>2, OutcomesDiffer
  <2>4. HttpTypes' /\ Standing' /\ Streamed'
    BY <1>0, <2>1, <2>2, OutcomesTyped DEF HttpTypes, Standing, Streamed, Reasons
  <2>5. Outcome'
    BY <1>0, <1>1, <2>1, <2>2, <2>3 DEF Outcome
  <2>6. QED
    BY <2>4, <2>5 DEF HttpInv
<1>2. CASE ~signal
  <2>1. connection' = "open" /\ armed' = TRUE /\ listening' = TRUE /\ settled' = <<>>
    BY <1>0, <1>2 DEF Begin
  <2>2. settled' # <<"rejected", "too large">> /\ settled' # <<"rejected", "aborted">>
    BY <2>1, OutcomesDiffer
  <2>3. QED
    BY <1>0, <2>1, <2>2, OutcomesTyped DEF HttpInv, HttpTypes, Standing, Streamed, Outcome
<1>3. QED
  BY <1>1, <1>2

\* What is streaming is not settled.
LEMMA StreamsUnsettled ==
    ASSUME HttpInv, Streaming
    PROVE  settled = <<>> /\ connection = "open" /\ response # <<>>
  BY DEF HttpInv, Standing, Streaming

\* The head of the response.
LEMMA HeadedKeeps ==
    ASSUME HttpInv, Headed
    PROVE  HttpInv'
<1>1. /\ connection = "open" /\ response = <<>> /\ size = 0 /\ settled = <<>>
      /\ UNCHANGED <<size, signal>> /\ signal \in BOOLEAN
  BY DEF Headed, HttpInv, HttpTypes, Standing, Streamed
<1>2. PICK head \in Heads :
        /\ response' = <<head>>
        /\ CASE ChooseDecoder(head) = "unsupported" ->
                  Reject("unsupported coding") /\ connection' = "destroyed"
             [] ChooseDecoder(head) # "unsupported" /\ TooLongAsAnnounced(head) ->
                  Reject("too large") /\ connection' = "destroyed"
             [] OTHER ->
                  /\ decoder' = IF ChooseDecoder(head) = "decode" THEN "open" ELSE "none"
                  /\ UNCHANGED <<connection, armed, listening, settled>>
  BY DEF Headed
<1>3. response' # <<>> /\ response'[1] = head
  BY <1>2, OutcomesDiffer
<1>4. ASSUME NEW why \in Reasons, Reject(why), connection' = "destroyed",
             why = "too large" => TooLongAsAnnounced(head), why # "aborted"
      PROVE  HttpInv'
  <2>1. /\ settled' = <<"rejected", why>> /\ ~armed' /\ ~listening'
        /\ decoder' = IF decoder = "open" THEN "destroyed" ELSE decoder
        /\ armed' \in BOOLEAN /\ listening' \in BOOLEAN
    BY <1>1, <1>4 DEF Reject, Settle
  <2>2. /\ settled' # <<>> /\ settled'[1] = "rejected" /\ settled'[1] # "resolved"
        /\ settled'[2] = why
    BY <2>1, OutcomesDiffer
  <2>3. settled' = <<"rejected", "too large">> => TooLongAsAnnounced(head)
    BY <1>4, <2>2, OutcomesDiffer
  <2>4. settled' # <<"rejected", "aborted">>
    BY <1>4, <2>2, OutcomesDiffer
  <2>5. TooLongAsAnnounced(head) => head.coding = "identity" \/ head.status = 304
    BY DEF TooLongAsAnnounced, ChooseDecoder, StatusHasNoBody
  <2>6. HttpTypes'
    BY ZenonT(30), <1>1, <1>2, <1>4, <2>1, OutcomesTyped DEF HttpInv, HttpTypes
  <2>7. Standing' /\ Streamed'
    BY <1>1, <1>3, <1>4, <2>2 DEF Standing, Streamed
  <2>8. Outcome'
    BY <1>3, <2>1, <2>2, <2>3, <2>4, <2>5 DEF Outcome
  <2>9. QED
    BY <2>6, <2>7, <2>8 DEF HttpInv
<1>5. ASSUME ChooseDecoder(head) # "unsupported",
             decoder' = IF ChooseDecoder(head) = "decode" THEN "open" ELSE "none",
             UNCHANGED <<connection, armed, listening, settled>>
      PROVE  HttpInv'
  <2>1. settled' = <<>> /\ connection' = "open" /\ size' = 0 /\ 0 <= Cap
    BY <1>1, <1>5, HttpAssumption
  <2>2. settled' # <<"rejected", "too large">> /\ settled' # <<"rejected", "aborted">>
    BY <2>1, OutcomesDiffer
  <2>3. HttpTypes'
    BY <1>1, <1>2, <1>5, <2>1, OutcomesTyped DEF HttpInv, HttpTypes
  <2>4. Standing' /\ Streamed' /\ Outcome'
    BY <1>3, <1>5, <2>1, <2>2 DEF Standing, Streamed, Outcome
  <2>5. QED
    BY <2>3, <2>4 DEF HttpInv
<1>6. "unsupported coding" \in Reasons /\ "too large" \in Reasons
  BY DEF Reasons
<1>7. CASE ChooseDecoder(head) = "unsupported"
  <2>1. Reject("unsupported coding") /\ connection' = "destroyed"
    BY <1>2, <1>7
  <2>2. QED
    BY <2>1, <1>4, <1>6
<1>8. CASE ChooseDecoder(head) # "unsupported" /\ TooLongAsAnnounced(head)
  <2>1. Reject("too large") /\ connection' = "destroyed"
    BY <1>2, <1>8
  <2>2. QED
    BY <2>1, <1>4, <1>6, <1>8
<1>9. CASE ChooseDecoder(head) # "unsupported" /\ ~TooLongAsAnnounced(head)
  BY <1>2, <1>5, <1>9
<1>10. QED
  BY <1>7, <1>8, <1>9

LEMMA ChunkKeeps ==
    ASSUME HttpInv, Chunk
    PROVE  HttpInv'
<1>1. /\ settled = <<>> /\ connection = "open" /\ response # <<>>
      /\ response[1].status # 304 /\ size' = size + 1 /\ size' \in Nat
      /\ UNCHANGED <<response, signal>> /\ signal' \in BOOLEAN
  <2>1. settled = <<>> /\ connection = "open" /\ response # <<>>
    BY StreamsUnsettled DEF Chunk
  <2>2. size \in Nat /\ signal \in BOOLEAN
    BY DEF HttpInv, HttpTypes
  <2>3. response[1].status # 304 /\ size' = size + 1 /\ UNCHANGED <<response, signal>>
    BY DEF Chunk, StatusHasNoBody
  <2>4. QED
    BY <2>1, <2>2, <2>3
<1>2. CASE size' > Cap
  <2>1. Reject("too large") /\ connection' = "destroyed" /\ "too large" \in Reasons
    BY <1>2 DEF Chunk, OverCap, Reasons
  <2>2. QED
    BY <1>1, <1>2, <2>1, RejectKeeps
<1>3. CASE ~(size' > Cap)
  <2>1. UNCHANGED <<connection, decoder, armed, listening, settled>> /\ size' <= Cap
    BY <1>1, <1>3, HttpAssumption DEF Chunk, OverCap
  <2>2. settled # <<"rejected", "too large">> /\ settled # <<"rejected", "aborted">>
    BY <1>1, OutcomesDiffer
  <2>3. HttpTypes'
    BY <1>1, <2>1 DEF HttpInv, HttpTypes
  <2>4. Standing' /\ Streamed' /\ Outcome'
    BY <1>1, <2>1, <2>2 DEF HttpInv, Standing, Streamed, Outcome
  <2>5. QED
    BY <2>3, <2>4 DEF HttpInv
<1>4. QED
  BY <1>2, <1>3

LEMMA EndedKeeps ==
    ASSUME HttpInv, End
    PROVE  HttpInv'
<1>1. /\ settled = <<>> /\ connection = "open" /\ response # <<>>
      /\ ChooseDecoder(response[1]) # "unsupported" /\ size <= Cap /\ size \in Nat
  BY StreamsUnsettled DEF End, HttpInv, HttpTypes, Standing, Streamed
<1>2. /\ settled' = <<"resolved", response[1].status, size>>
      /\ ~armed' /\ ~listening' /\ armed' \in BOOLEAN /\ listening' \in BOOLEAN
      /\ connection' = "ended" /\ UNCHANGED <<response, decoder, size, signal>>
  BY <1>1 DEF End, Settle
<1>3. /\ settled' # <<>> /\ settled'[1] = "resolved" /\ settled'[1] # "rejected"
      /\ settled'[2] = response[1].status /\ settled'[3] = size
  BY <1>2, OutcomesDiffer
<1>4. settled' # <<"rejected", "too large">> /\ settled' # <<"rejected", "aborted">>
  BY <1>3, OutcomesDiffer
<1>5. response[1].status \in {200, 304, 500}
  <2>1. PICK head \in Heads : response = <<head>>
    BY <1>1 DEF HttpInv, HttpTypes, Responses
  <2>2. QED
    BY <2>1, OutcomesDiffer DEF Heads
<1>6. HttpTypes'
  BY <1>1, <1>2, <1>5, OutcomesTyped DEF HttpInv, HttpTypes
<1>7. Standing' /\ Streamed'
  BY <1>2, <1>3 DEF HttpInv, Standing, Streamed
<1>8. Outcome'
  BY <1>1, <1>2, <1>3, <1>4 DEF Outcome
<1>9. QED
  BY <1>6, <1>7, <1>8 DEF HttpInv

\* The racers that fail a request: the connection, the decompressor, the deadline and the
\* caller.
LEMMA RacersKeep ==
    ASSUME HttpInv, BrokenOff \/ Undecodable \/ Deadline \/ Abort
    PROVE  HttpInv'
<1>0. {"broken off", "undecodable", "timed out", "aborted"} \subseteq Reasons /\ size \in Nat
      /\ signal \in BOOLEAN
  BY DEF Reasons, HttpInv, HttpTypes
<1>1. CASE BrokenOff
  <2>1. /\ connection = "open" /\ Reject("broken off") /\ connection' = "ended"
        /\ UNCHANGED <<response, size, signal>>
    BY <1>1 DEF BrokenOff
  <2>2. CASE settled = <<>>
    BY <1>0, <2>1, <2>2, RejectKeeps
  <2>3. CASE settled # <<>>
    <3>1. /\ UNCHANGED settled /\ armed' = FALSE /\ listening' = FALSE
          /\ UNCHANGED decoder /\ settled = <<"rejected", "undecodable">>
      BY <2>1, <2>3 DEF Reject, Settle, HttpInv, Standing
    <3>2. settled # <<"rejected", "too large">> /\ settled # <<"rejected", "aborted">>
      BY <3>1, OutcomesDiffer
    <3>3. HttpTypes'
      BY <2>1, <3>1 DEF HttpInv, HttpTypes
    <3>4. Standing'
      BY <2>1, <2>3, <3>1 DEF Standing
    <3>5. Streamed'
      BY <2>1, <3>1 DEF HttpInv, Streamed
    <3>6. settled[1] = "rejected" /\ settled[1] # "resolved"
      BY <3>1, OutcomesDiffer
    <3>7. Outcome'
      BY <2>1, <2>3, <3>1, <3>2, <3>6 DEF HttpInv, Outcome
    <3>8. QED
      BY <3>3, <3>4, <3>5, <3>7 DEF HttpInv
  <2>4. QED
    BY <2>2, <2>3
<1>2. CASE Undecodable
  <2>1. settled = <<>> /\ connection = "open" /\ response # <<>>
    BY <1>2, StreamsUnsettled DEF Undecodable
  <2>2. /\ Reject("undecodable") /\ UNCHANGED <<connection, response, size, signal>>
        /\ decoder = "open"
    BY <1>2 DEF Undecodable
  <2>3. QED
    BY <1>0, <2>1, <2>2, RejectKeeps
<1>3. CASE Deadline
  <2>1. /\ settled = <<>> /\ Reject("timed out") /\ connection' = "destroyed"
        /\ UNCHANGED <<response, size, signal>>
    BY <1>3 DEF Deadline, HttpInv, Outcome
  <2>2. QED
    BY <1>0, <2>1, RejectKeeps
<1>4. CASE Abort
  <2>1. signal' = TRUE /\ UNCHANGED <<response, size>>
    BY <1>4 DEF Abort
  <2>2. CASE listening
    <3>1. settled = <<>> /\ Reject("aborted") /\ connection' = "destroyed"
      BY <1>4, <2>2 DEF Abort, HttpInv, Outcome
    <3>2. QED
      BY <1>0, <2>1, <3>1, RejectKeeps
  <2>3. CASE ~listening
    <3>1. UNCHANGED <<connection, decoder, armed, listening, settled>>
      BY <1>4, <2>3 DEF Abort
    <3>2. HttpTypes'
      BY <2>1, <3>1 DEF HttpInv, HttpTypes
    <3>3. Standing'
      BY <2>1, <3>1 DEF HttpInv, Standing
    <3>4. Streamed'
      BY <2>1, <3>1 DEF HttpInv, Streamed
    <3>5. Outcome'
      BY <2>1, <3>1 DEF HttpInv, Outcome
    <3>6. QED
      BY <3>2, <3>3, <3>4, <3>5 DEF HttpInv
  <2>4. QED
    BY <2>2, <2>3
<1>5. QED
  BY <1>1, <1>2, <1>3, <1>4

LEMMA HttpInvStep ==
    ASSUME HttpInv, [HttpNext]_httpVars
    PROVE  HttpInv'
<1>1. CASE UNCHANGED httpVars
  <2>1. UNCHANGED <<connection, response, decoder, size, armed, listening, signal, settled>>
    BY <1>1 DEF httpVars
  <2>2. HttpTypes'
    BY <2>1 DEF HttpInv, HttpTypes
  <2>3. Standing'
    BY <2>1 DEF HttpInv, Standing
  <2>4. Streamed'
    BY <2>1 DEF HttpInv, Streamed
  <2>5. Outcome'
    BY <2>1 DEF HttpInv, Outcome
  <2>6. QED
    BY <2>2, <2>3, <2>4, <2>5 DEF HttpInv
<1>2. QED
  BY <1>1, BeginKeeps, HeadedKeeps, ChunkKeeps, EndedKeeps, RacersKeep DEF HttpNext

\* Whichever racer settles a request first, what it resolves to is within the cap and was
\* decoded, nothing of it is left but the connection of a failed decompressor, and a
\* caller's abort never reads as a failed upstream (http-one-shot.ts: requestText;
\* http-conditional-get.ts), for any cap and any number of chunks.
THEOREM RequestsSettleSoundly == HttpSpec => []RequestSound
<1>1. ASSUME HttpInit PROVE HttpInv
  <2>1. settled = <<>> /\ response = <<>> /\ size = 0 /\ 0 <= Cap
    BY <1>1, HttpAssumption DEF HttpInit
  <2>2. settled # <<"rejected", "too large">> /\ settled # <<"rejected", "aborted">>
    BY <2>1, OutcomesDiffer
  <2>3. HttpTypes
    <3>1. /\ connection = "none" /\ decoder = "none" /\ armed = FALSE /\ listening = FALSE
          /\ signal \in BOOLEAN
      BY <1>1 DEF HttpInit
    <3>2. response \in Responses /\ settled \in Outcomes
      BY <2>1, OutcomesTyped
    <3>3. QED
      BY <2>1, <3>1, <3>2 DEF HttpTypes
  <2>4. Standing /\ Streamed /\ Outcome
    BY <1>1, <2>1, <2>2 DEF HttpInit, Standing, Streamed, Outcome
  <2>5. QED
    BY <2>3, <2>4 DEF HttpInv
<1>2. ASSUME HttpInv PROVE RequestSound
  <2> SUFFICES ASSUME settled # <<>> PROVE RequestSound
    BY DEF RequestSound
  <2>1. CASE settled[1] = "rejected"
    <3>1. ~armed /\ ~listening /\ decoder # "open" /\ settled[1] # "resolved"
      BY <1>2, <2>1 DEF HttpInv, Outcome
    <3>2. connection = "open" => settled = <<"rejected", "undecodable">>
      BY <1>2 DEF HttpInv, Standing
    <3>3. settled = <<"rejected", "too large">> =>
            size > Cap \/ (response[1].coding = "identity" \/ response[1].status = 304)
      BY <1>2 DEF HttpInv, Outcome
    <3>4. ConditionalGet = IF signal THEN "thrown" ELSE "error"
      BY <2>1 DEF ConditionalGet
    <3>5. FetchAllPorts(TRUE, TRUE) = "thrown"
      BY <2>1 DEF FetchAllPorts, RequestJson
    <3>6. settled = <<"rejected", "aborted">> => signal
      BY <1>2 DEF HttpInv, Outcome
    <3>7. QED
      BY <2>1, <3>1, <3>2, <3>3, <3>4, <3>5, <3>6 DEF RequestSound
  <2>2. CASE settled[1] = "resolved"
    <3>1. /\ ~armed /\ ~listening /\ response # <<>> /\ settled[2] = response[1].status
          /\ settled[3] = size /\ size <= Cap
          /\ ChooseDecoder(response[1]) # "unsupported"
          /\ response[1].status = 304 => size = 0
      BY <1>2, <2>2 DEF HttpInv, Outcome, Streamed
    <3>2. settled # <<"rejected", "aborted">> /\ settled # <<"rejected", "too large">>
          /\ settled # <<"rejected", "undecodable">> /\ settled[1] # "rejected"
      BY <2>2, OutcomesDiffer
    <3>3. connection # "open"
      BY <1>2, <3>2 DEF HttpInv, Standing
    <3>4. ConditionalGet = "not-modified" => settled[2] = 304
      BY <2>2, <3>2 DEF ConditionalGet
    <3>5. QED
      BY <2>2, <3>1, <3>2, <3>3, <3>4 DEF RequestSound
  <2>3. settled[1] = "rejected" \/ settled[1] = "resolved"
    BY <1>2, OutcomesDiffer DEF HttpInv, HttpTypes, Outcomes
  <2>4. QED
    BY <2>1, <2>2, <2>3
<1>3. QED
  BY <1>1, <1>2, HttpInvStep, PTL DEF HttpSpec

-----------------------------------------------------------------------------
(* The cache of the list requests.                                         *)

\* A sequence without repetitions of the tiles of a set.
Orders(order, tiles) ==
    order \in Seq(Tiles) /\ IsInjective(order) /\ ToSet(order) = tiles

Known(entries) == {t \in Tiles : entries[t] # NoEntry}

Live == {f \in fetches : f.live}

EntriesOK(entries) ==
    /\ entries \in [Tiles -> Entry \cup {NoEntry}]
    /\ \A t \in Known(entries) :
          /\ entries[t].state = "fetching" => entries[t].failedAge = CoolDown
          /\ entries[t].revalidating => entries[t].state = "ok"

Serves(f, entry) ==
    \/ f.kind = "first" /\ entry.state = "fetching"
    \/ f.kind = "refresh" /\ entry.state = "ok" /\ entry.revalidating

\* These fetches, and no others, are out for these entries.
Coherent(entries, live) ==
    /\ \A f \in live : f.tile \in Known(entries) /\ Serves(f, entries[f.tile])
    /\ \A f, g \in live : f.tile = g.tile => f = g
    /\ \A t \in Known(entries) :
          entries[t].state = "fetching" \/ entries[t].revalidating =>
             \E f \in live : f.tile = t

CacheInv ==
    /\ EntriesOK(cache)
    /\ Orders(recency, Known(cache)) /\ Len(recency) <= Capacity
    /\ fetches \subseteq Fetch
    /\ Coherent(cache, Live)

-----------------------------------------------------------------------------
(* The order of use. *)

\* A sequence without one of its elements.
LEMMA RemovedOrders ==
    ASSUME NEW s \in Seq(Tiles), IsInjective(s), NEW i \in 1..Len(s)
    PROVE  /\ Orders(RemoveAt(s, i), ToSet(s) \ {s[i]})
           /\ Len(RemoveAt(s, i)) = Len(s) - 1
  <1> DEFINE before == SubSeq(s, 1, i - 1)
             after  == SubSeq(s, i + 1, Len(s))
             rest   == RemoveAt(s, i)
  <1>0. Len(s) \in Nat /\ s \in [1..Len(s) -> Tiles] /\ DOMAIN s = 1..Len(s)
    BY LenProperties
  <1>1. /\ before \in Seq(Tiles) /\ Len(before) = i - 1
        /\ \A j \in 1..(i - 1) : before[j] = s[j]
    BY <1>0, SubSeqProperties
  <1>2. /\ after \in Seq(Tiles) /\ Len(after) = Len(s) - i
        /\ \A j \in 1..(Len(s) - i) : after[j] = s[i + j]
    <2>1. i + 1 \in Int /\ Len(s) \in Int /\ \A j \in (i + 1)..Len(s) : s[j] \in Tiles
      BY <1>0
    <2>2. /\ after \in Seq(Tiles)
          /\ Len(after) = IF i + 1 <= Len(s) THEN Len(s) - (i + 1) + 1 ELSE 0
          /\ \A j \in 1..(Len(s) - (i + 1) + 1) : after[j] = s[i + 1 + j - 1]
      BY <2>1, SubSeqProperties
    <2> HIDE DEF after
    <2>3. ASSUME NEW j \in 1..(Len(s) - i) PROVE after[j] = s[i + j]
      <3>1. j \in 1..(Len(s) - (i + 1) + 1) /\ i + 1 + j - 1 = i + j
        BY <1>0
      <3> QED  BY <2>2, <3>1
    <2>4. Len(after) = Len(s) - i
      <3>1. CASE i + 1 <= Len(s)
        <4>1. Len(after) = Len(s) - (i + 1) + 1
          BY <2>2, <3>1
        <4> QED  BY <1>0, <4>1
      <3>2. CASE ~(i + 1 <= Len(s))
        <4>1. Len(after) = 0
          BY <2>2, <3>2
        <4>2. i \in Int /\ Len(s) \in Int /\ i <= Len(s)
          BY <1>0
        <4>3. Len(s) - i = 0
          BY <3>2, <4>2
        <4> QED  BY <4>1, <4>3
      <3> QED  BY <3>1, <3>2
    <2> QED  BY <2>2, <2>3, <2>4, Zenon
  <1>3. /\ rest \in Seq(Tiles) /\ Len(rest) = Len(s) - 1
        /\ \A j \in 1..(Len(s) - 1) : rest[j] = IF j < i THEN s[j] ELSE s[j + 1]
    <2>1. rest = before \o after
      BY DEF RemoveAt
    <2> HIDE DEF before, after, rest
    <2>2. /\ before \o after \in Seq(Tiles)
          /\ Len(before \o after) = Len(before) + Len(after)
          /\ \A j \in 1..(Len(before) + Len(after)) :
                (before \o after)[j] =
                   IF j <= Len(before) THEN before[j] ELSE after[j - Len(before)]
      BY <1>1, <1>2, ConcatProperties
    <2>3. ASSUME NEW j \in 1..(Len(s) - 1)
          PROVE  rest[j] = IF j < i THEN s[j] ELSE s[j + 1]
      <3>1. CASE j < i
        BY <1>0, <1>1, <1>2, <2>1, <2>2, <3>1
      <3>2. CASE j >= i
        <4>1. rest[j] = after[j - (i - 1)] /\ j - (i - 1) \in 1..(Len(s) - i)
          BY <1>0, <1>1, <1>2, <2>1, <2>2, <3>2
        <4>2. i + (j - (i - 1)) = j + 1
          BY <1>0
        <4> QED  BY <1>2, <3>2, <4>1, <4>2
      <3> QED  BY <1>0, <3>1, <3>2
    <2> QED  BY <1>0, <1>1, <1>2, <2>1, <2>2, <2>3
  <1> HIDE DEF rest
  <1>4. DOMAIN rest = 1..(Len(s) - 1)
    BY <1>3, LenProperties
  <1>5. IsInjective(rest)
    <2> SUFFICES ASSUME NEW j \in 1..(Len(s) - 1), NEW k \in 1..(Len(s) - 1), rest[j] = rest[k]
                 PROVE  j = k
      BY <1>4 DEF IsInjective
    <2> DEFINE from(m) == IF m < i THEN m ELSE m + 1
    <2>1. /\ from(j) \in 1..Len(s) /\ rest[j] = s[from(j)]
          /\ from(k) \in 1..Len(s) /\ rest[k] = s[from(k)]
      BY <1>0, <1>3
    <2>2. from(j) = from(k)
      BY <1>0, <2>1 DEF IsInjective
    <2> QED  BY <1>0, <2>2
  <1>6. ASSUME NEW t \in ToSet(s), t # s[i] PROVE t \in ToSet(rest)
    <2>1. PICK j \in 1..Len(s) : s[j] = t
      BY <1>0 DEF ToSet
    <2>2. rest[IF j < i THEN j ELSE j - 1] = t /\ (IF j < i THEN j ELSE j - 1) \in 1..(Len(s) - 1)
      BY <1>0, <1>3, <1>6, <2>1
    <2> QED  BY <1>4, <2>2 DEF ToSet
  <1>7. ASSUME NEW t \in ToSet(rest) PROVE t \in ToSet(s) /\ t # s[i]
    <2>1. PICK j \in 1..(Len(s) - 1) : rest[j] = t
      BY <1>4 DEF ToSet
    <2> DEFINE k == IF j < i THEN j ELSE j + 1
    <2>2. k \in 1..Len(s) /\ k # i /\ s[k] = t
      BY <1>0, <1>3, <2>1
    <2> HIDE DEF k
    <2> QED  BY <1>0, <2>2 DEF ToSet, IsInjective
  <1>8. ToSet(rest) = ToSet(s) \ {s[i]}
    BY <1>6, <1>7
  <1> QED  BY <1>3, <1>5, <1>8 DEF Orders, rest

\* Two sequences of different tiles, one after the other.
LEMMA JoinedOrders ==
    ASSUME NEW S, NEW T, NEW s, NEW t, Orders(s, S), Orders(t, T), S \cap T = {}
    PROVE  Orders(s \o t, S \cup T) /\ Len(s \o t) = Len(s) + Len(t)
  <1>0. /\ Len(s) \in Nat /\ DOMAIN s = 1..Len(s) /\ Len(t) \in Nat /\ DOMAIN t = 1..Len(t)
        /\ s \in Seq(Tiles) /\ t \in Seq(Tiles)
    BY LenProperties DEF Orders
  <1>1. /\ s \o t \in Seq(Tiles) /\ Len(s \o t) = Len(s) + Len(t)
        /\ \A i \in 1..(Len(s) + Len(t)) :
              (s \o t)[i] = IF i <= Len(s) THEN s[i] ELSE t[i - Len(s)]
    BY <1>0, ConcatProperties
  <1>2. DOMAIN (s \o t) = 1..(Len(s) + Len(t))
    BY <1>0, <1>1, LenProperties
  <1>3. /\ \A i \in 1..Len(s) : s[i] \in S
        /\ \A i \in 1..Len(t) : t[i] \in T
    BY <1>0 DEF Orders, ToSet
  <1>4. IsInjective(s \o t)
    <2> SUFFICES ASSUME NEW i \in 1..(Len(s) + Len(t)), NEW j \in 1..(Len(s) + Len(t)),
                        (s \o t)[i] = (s \o t)[j]
                 PROVE  i = j
      BY <1>2 DEF IsInjective
    <2>1. CASE i <= Len(s) /\ j <= Len(s)
      BY <1>0, <1>1, <2>1 DEF Orders, IsInjective
    <2>2. CASE i > Len(s) /\ j > Len(s)
      <3>1. t[i - Len(s)] = t[j - Len(s)] /\ i - Len(s) \in 1..Len(t) /\ j - Len(s) \in 1..Len(t)
        BY <1>0, <1>1, <2>2
      <3>2. i - Len(s) = j - Len(s)
        BY <1>0, <3>1 DEF Orders, IsInjective
      <3> QED  BY <1>0, <3>2
    <2>3. CASE i <= Len(s) /\ j > Len(s)
      BY <1>0, <1>1, <1>3, <2>3
    <2>4. CASE i > Len(s) /\ j <= Len(s)
      BY <1>0, <1>1, <1>3, <2>4
    <2> QED  BY <1>0, <2>1, <2>2, <2>3, <2>4
  <1>5. ASSUME NEW x \in ToSet(s \o t) PROVE x \in S \cup T
    <2>1. PICK i \in 1..(Len(s) + Len(t)) : (s \o t)[i] = x
      BY <1>2 DEF ToSet
    <2> QED  BY <1>0, <1>1, <1>3, <2>1
  <1>6. ASSUME NEW x \in S PROVE x \in ToSet(s \o t)
    <2>1. PICK i \in 1..Len(s) : s[i] = x
      BY <1>0 DEF Orders, ToSet
    <2>2. (s \o t)[i] = x /\ i \in 1..(Len(s) + Len(t))
      BY <1>0, <1>1, <2>1
    <2> QED  BY <1>2, <2>2 DEF ToSet
  <1>7. ASSUME NEW x \in T PROVE x \in ToSet(s \o t)
    <2>1. PICK i \in 1..Len(t) : t[i] = x
      BY <1>0 DEF Orders, ToSet
    <2>2. (s \o t)[i + Len(s)] = x /\ i + Len(s) \in 1..(Len(s) + Len(t))
      BY <1>0, <1>1, <2>1
    <2> QED  BY <1>2, <2>2 DEF ToSet
  <1> QED  BY <1>1, <1>4, <1>5, <1>6, <1>7 DEF Orders

LEMMA OneOrders ==
    ASSUME NEW t \in Tiles
    PROVE  Orders(<<t>>, {t}) /\ Len(<<t>>) = 1
  BY DEF Orders, IsInjective, ToSet

\* A used tile comes first, and is there once.
LEMMA BumpedOrders ==
    ASSUME NEW tiles, Orders(recency, tiles), NEW t \in Tiles
    PROVE  /\ Orders(Bumped(t), tiles \cup {t})
           /\ t \in tiles => Len(Bumped(t)) = Len(recency)
           /\ t \notin tiles => Len(Bumped(t)) = Len(recency) + 1
  <1>0. /\ Len(recency) \in Nat /\ DOMAIN recency = 1..Len(recency)
        /\ recency \in Seq(Tiles) /\ IsInjective(recency) /\ ToSet(recency) = tiles
    BY LenProperties DEF Orders
  <1>1. Orders(<<t>>, {t}) /\ Len(<<t>>) = 1
    BY OneOrders
  <1>2. CASE t \in tiles
    <2> DEFINE place == CHOOSE i \in DOMAIN recency : recency[i] = t
    <2>1. \E i \in DOMAIN recency : recency[i] = t
      BY <1>0, <1>2 DEF ToSet
    <2>2. place \in 1..Len(recency) /\ recency[place] = t
      BY <1>0, <2>1
    <2>3. Without(t) = RemoveAt(recency, place)
      BY <2>1 DEF Without
    <2> HIDE DEF place
    <2>4. Orders(Without(t), tiles \ {t}) /\ Len(Without(t)) = Len(recency) - 1
      BY <1>0, <2>2, <2>3, RemovedOrders
    <2>5. Orders(Bumped(t), {t} \cup (tiles \ {t})) /\ Len(Bumped(t)) = 1 + (Len(recency) - 1)
      BY <1>1, <2>4, JoinedOrders DEF Bumped
    <2>6. {t} \cup (tiles \ {t}) = tiles \cup {t}
      OBVIOUS
    <2>7. Orders(Bumped(t), tiles \cup {t})
      BY <2>5, <2>6
    <2>8. Len(Bumped(t)) = Len(recency)
      BY <1>0, <2>5
    <2> QED  BY <1>2, <2>7, <2>8
  <1>3. CASE t \notin tiles
    <2>1. Without(t) = recency
      BY <1>0, <1>3 DEF Without, ToSet
    <2>2. Orders(Bumped(t), {t} \cup tiles) /\ Len(Bumped(t)) = 1 + Len(recency)
      BY <1>1, <1>3, <2>1, JoinedOrders DEF Bumped
    <2>3. {t} \cup tiles = tiles \cup {t}
      OBVIOUS
    <2>4. Orders(Bumped(t), tiles \cup {t})
      BY <2>2, <2>3
    <2>5. Len(Bumped(t)) = Len(recency) + 1
      BY <1>0, <2>2
    <2> QED  BY <1>3, <2>4, <2>5
  <1> QED  BY <1>2, <1>3

Gone(order) == {order[i] : i \in (Capacity + 1)..Len(order)}
Kept(order) == IF Len(order) > Capacity THEN SubSeq(order, 1, Capacity) ELSE order

\* What is kept of an order is the tiles that are not evicted, as many as fit.
LEMMA KeptOrders ==
    ASSUME NEW tiles, NEW order, Orders(order, tiles)
    PROVE  /\ Orders(Kept(order), tiles \ Gone(order))
           /\ Len(Kept(order)) <= Capacity
           /\ Gone(order) # {} => Len(Kept(order)) = Capacity
  <1>0. /\ Len(order) \in Nat /\ DOMAIN order = 1..Len(order)
        /\ order \in Seq(Tiles) /\ IsInjective(order) /\ ToSet(order) = tiles
        /\ Capacity \in Nat
    BY LenProperties, WindowsAssumption DEF Orders
  <1>1. CASE Len(order) <= Capacity
    <2>1. Gone(order) = {}
      BY <1>0, <1>1 DEF Gone
    <2>2. Kept(order) = order
      <3>1. ~(Len(order) > Capacity)
        BY <1>0, <1>1
      <3> QED  BY <3>1, Zenon DEF Kept
    <2> QED  BY <1>1, <2>1, <2>2
  <1>2. CASE Len(order) > Capacity
    <2> DEFINE kept == SubSeq(order, 1, Capacity)
    <2>1. Kept(order) = kept
      BY <1>2 DEF Kept
    <2>2. \A i \in 1..Capacity : order[i] \in Tiles
      BY <1>0, <1>2, ElementOfSeq
    <2>3. /\ kept \in Seq(Tiles)
          /\ Len(kept) = IF 1 <= Capacity THEN Capacity - 1 + 1 ELSE 0
          /\ \A i \in 1..(Capacity - 1 + 1) : kept[i] = order[1 + i - 1]
      BY <1>0, <2>2, SubSeqProperties
    <2> HIDE DEF kept
    <2>4. Len(kept) = Capacity /\ \A i \in 1..Capacity : kept[i] = order[i]
      BY <1>0, <2>3
    <2>5. DOMAIN kept = 1..Capacity
      BY <2>3, <2>4, LenProperties
    <2>6. IsInjective(kept)
      BY <1>0, <1>2, <2>4, <2>5 DEF IsInjective
    <2>7. ASSUME NEW t \in ToSet(kept) PROVE t \in tiles \ Gone(order)
      <3>1. PICK i \in 1..Capacity : order[i] = t
        BY <2>4, <2>5 DEF ToSet
      <3>2. t \in tiles
        BY <1>0, <1>2, <3>1 DEF ToSet
      <3>3. ASSUME NEW j \in (Capacity + 1)..Len(order), order[j] = t PROVE FALSE
        BY <1>0, <1>2, <3>1, <3>3 DEF IsInjective
      <3> QED  BY <3>2, <3>3 DEF Gone
    <2>8. ASSUME NEW t \in tiles, t \notin Gone(order) PROVE t \in ToSet(kept)
      <3>1. PICK i \in 1..Len(order) : order[i] = t
        BY <1>0 DEF ToSet
      <3>2. i \in 1..Capacity
        BY <1>0, <2>8, <3>1 DEF Gone
      <3> QED  BY <2>4, <2>5, <3>1, <3>2 DEF ToSet
    <2> QED  BY <1>0, <2>1, <2>3, <2>4, <2>6, <2>7, <2>8 DEF Orders
  <1> QED  BY <1>0, <1>1, <1>2

-----------------------------------------------------------------------------
(* The requests out. *)

\* A fetch that is told whether it is still wanted.
LEMMA Marked ==
    ASSUME NEW f \in Fetch, NEW b \in BOOLEAN
    PROVE  /\ [f EXCEPT !.live = b] \in Fetch
           /\ [f EXCEPT !.live = b].live = b
           /\ [f EXCEPT !.live = b].tile = f.tile
           /\ b = f.live => [f EXCEPT !.live = b] = f
  BY DEF Fetch

\* The requests out after a use are those of before and those that were started,
\* of the tiles that are kept and whose entry was not replaced.
LEMMA UseFetches ==
    ASSUME NEW order, NEW entries, NEW started, started \subseteq Fetch,
           \A f \in started : f.live, fetches \subseteq Fetch, Use(order, entries, started)
    PROVE  /\ fetches' \subseteq Fetch
           /\ \A f \in Live' : f \in Live \cup started /\ f.tile \notin Gone(order)
           /\ \A f \in Live \cup started :
                 /\ f.tile \notin Gone(order)
                 /\ f \in started \/ \A g \in started : g.tile # f.tile
                 => f \in Live'
  <1> DEFINE replaced == Gone(order) \cup {f.tile : f \in {x \in started : x.kind # "refresh"}}
             wanted(f) == f.live /\ f.tile \notin replaced
             spared(f) == f.tile \notin Gone(order)
  <1>1. fetches' = {[f EXCEPT !.live = wanted(f)] : f \in fetches}
                     \cup {[f EXCEPT !.live = spared(f)] : f \in started}
    BY DEF Use, Gone
  <1>2. \A f \in Fetch : wanted(f) \in BOOLEAN /\ spared(f) \in BOOLEAN
    BY DEF Fetch
  <1>3. ASSUME NEW g \in fetches'
        PROVE  g \in Fetch /\ (g.live => g \in Live \cup started /\ g.tile \notin Gone(order))
    <2>1. CASE \E f \in fetches : g = [f EXCEPT !.live = wanted(f)]
      <3> PICK f \in fetches : g = [f EXCEPT !.live = wanted(f)]
        BY <2>1
      <3>1. g \in Fetch /\ g.live = wanted(f) /\ g.tile = f.tile /\ (wanted(f) = f.live => g = f)
        BY <1>2, Marked
      <3> QED  BY <3>1 DEF Live
    <2>2. CASE \E f \in started : g = [f EXCEPT !.live = spared(f)]
      <3> PICK f \in started : g = [f EXCEPT !.live = spared(f)]
        BY <2>2
      <3>1. g \in Fetch /\ g.live = spared(f) /\ g.tile = f.tile /\ (spared(f) = f.live => g = f)
        BY <1>2, Marked
      <3>2. f.live = TRUE
        BY DEF Fetch
      <3> QED  BY <3>1, <3>2
    <2> QED  BY <1>1, <2>1, <2>2
  <1>4. ASSUME NEW f \in Live, f.tile \notin Gone(order), \A g \in started : g.tile # f.tile
        PROVE  f \in Live'
    <2>1. f \in Fetch /\ f \in fetches /\ f.live /\ wanted(f)
      BY <1>4 DEF Live
    <2>2. [f EXCEPT !.live = wanted(f)] = f
      BY <1>2, <2>1, Marked DEF Fetch
    <2> QED  BY <1>1, <2>1, <2>2 DEF Live
  <1>5. ASSUME NEW f \in started, f.tile \notin Gone(order) PROVE f \in Live'
    <2>1. f \in Fetch /\ f.live /\ spared(f)
      BY <1>5
    <2>2. [f EXCEPT !.live = spared(f)] = f
      BY <1>2, <2>1, Marked DEF Fetch
    <2> QED  BY <1>1, <2>1, <2>2 DEF Live
  <1>6. \A g \in Live' : g \in fetches' /\ g.live
    BY DEF Live
  <1> QED  BY <1>3, <1>4, <1>5, <1>6

\* A use keeps the invariant when the entries it sets and the fetches it starts
\* fit each other.
LEMMA UseKeeps ==
    ASSUME NEW order, NEW entries, NEW started,
           EntriesOK(entries), Orders(order, Known(entries)),
           fetches \subseteq Fetch, started \subseteq Fetch, \A f \in started : f.live,
           \A f \in Live, g \in started : f.tile # g.tile,
           Coherent(entries, Live \cup started),
           Use(order, entries, started)
    PROVE  CacheInv'
  <1>1. /\ fetches' \subseteq Fetch
        /\ \A f \in Live' : f \in Live \cup started /\ f.tile \notin Gone(order)
        /\ \A f \in Live \cup started : f.tile \notin Gone(order) => f \in Live'
    BY UseFetches
  <1>2. recency' = Kept(order) /\ cache' = [t \in Tiles |-> IF t \in Gone(order) THEN NoEntry ELSE entries[t]]
    BY DEF Use, Kept, Gone
  <1>3. Known(cache') = Known(entries) \ Gone(order)
    BY <1>2 DEF Known
  <1>4. EntriesOK(cache')
    BY <1>2, <1>3 DEF EntriesOK, Known
  <1>5. Orders(recency', Known(cache')) /\ Len(recency') <= Capacity
    BY <1>2, <1>3, KeptOrders
  <1>6. \A t \in Known(cache') : cache'[t] = entries[t]
    BY <1>2, <1>3 DEF Known
  <1>7. Coherent(cache', Live')
    <2>1. ASSUME NEW f \in Live'
          PROVE  f.tile \in Known(cache') /\ Serves(f, cache'[f.tile])
      BY <1>1, <1>3, <1>6 DEF Coherent
    <2>2. \A f, g \in Live' : f.tile = g.tile => f = g
      BY <1>1 DEF Coherent
    <2>3. ASSUME NEW t \in Known(cache'), cache'[t].state = "fetching" \/ cache'[t].revalidating
          PROVE  \E f \in Live' : f.tile = t
      BY <1>1, <1>3, <1>6, <2>3 DEF Coherent
    <2> QED  BY <2>1, <2>2, <2>3 DEF Coherent
  <1>8. Orders(recency, Known(cache))' /\ Coherent(cache, Live)' /\ EntriesOK(cache)'
    BY <1>4, <1>5, <1>7 DEF Orders, Coherent, EntriesOK, Known
  <1> QED  BY <1>1, <1>5, <1>8 DEF CacheInv

\* RetriesSpaced and WarmStaysWarm, of one step.
Spaced ==
    \A t \in Tiles : Cached(t) /\ InFailureCoolDown(t) =>
        \A f \in fetches' : f.tile = t /\ f.live => f \in fetches

Warm ==
    \A t \in Tiles : Ok(t) =>
        \/ Ok(t)'
        \/ ~Contains(recency', t) /\ (recency' = <<>> \/ Len(recency') = Capacity)

\* A use contains failures when it starts no fetch of a tile in its cool-down, and
\* keeps the entries that hold a value.
LEMMA UseContains ==
    ASSUME NEW order, NEW entries, NEW started,
           EntriesOK(entries), Orders(order, Known(entries)),
           fetches \subseteq Fetch, started \subseteq Fetch, \A f \in started : f.live,
           \A f \in started : ~(Cached(f.tile) /\ InFailureCoolDown(f.tile)),
           \A t \in Tiles : Ok(t) => t \in Known(entries) /\ entries[t].state = "ok",
           Use(order, entries, started)
    PROVE  Spaced /\ Warm
  <1>1. Spaced
    <2>1. \A f \in fetches' : f.live => f \in Live'
      BY DEF Live
    <2>2. \A f \in Live' : f \in Live \/ f \in started
      BY UseFetches
    <2> QED  BY <2>1, <2>2 DEF Spaced, Live
  <1>2. ASSUME NEW t \in Tiles, Ok(t), ~(Ok(t)')
        PROVE  ~Contains(recency', t) /\ Len(recency') = Capacity
    <2>1. recency' = Kept(order) /\ cache' = [n \in Tiles |-> IF n \in Gone(order) THEN NoEntry ELSE entries[n]]
      BY DEF Use, Kept, Gone
    <2>2. t \in Gone(order)
      BY <1>2, <2>1 DEF Ok, Cached, Known
    <2>3. Orders(recency', Known(entries) \ Gone(order)) /\ Len(recency') = Capacity
      BY <2>1, <2>2, KeptOrders
    <2>4. recency' \in Seq(Tiles) /\ DOMAIN recency' = 1..Len(recency')
      BY <2>3, LenProperties DEF Orders
    <2> QED  BY <2>2, <2>3, <2>4 DEF Contains, Orders, ToSet
  <1> QED  BY <1>1, <1>2 DEF Warm

\* A request that is started, of a tile none is out for.
LEMMA StartedIs ==
    ASSUME NEW t \in Tiles, NEW kind \in {"first", "refresh"}, NEW waiters \in SUBSET Readers,
           \A f \in Live : f.tile # t
    PROVE  /\ Started(t, kind, waiters) \in Fetch /\ Started(t, kind, waiters).live
           /\ Started(t, kind, waiters).tile = t /\ Started(t, kind, waiters).kind = kind
  <1>1. {f \in fetches : f.tile = t /\ f.live} = {}
    BY DEF Live
  <1>2. Cardinality({f \in fetches : f.tile = t /\ f.live}) = 0
    BY <1>1, FS_EmptySet
  <1> QED  BY <1>2 DEF Started, Fetch

LEMMA NewEntryIs ==
    /\ NewEntry \in Entry /\ NewEntry # NoEntry /\ NewEntry.state = "fetching"
    /\ NewEntry.failedAge = CoolDown /\ ~NewEntry.revalidating
  <1>1. NewEntry \in Entry
    BY WindowsAssumption DEF NewEntry, Entry
  <1> QED  BY <1>1, NoEntryAssumption DEF NewEntry

\* A tile that is not known, or failed, has no request out.
LEMMA NoneOut ==
    ASSUME CacheInv, NEW t \in Tiles, Cached(t) => cache[t].state = "failed",
           NEW f \in Live
    PROVE  f.tile # t
  BY DEF CacheInv, Coherent, Serves, Known, Cached

LEMMA ReadMissStep ==
    ASSUME CacheInv, NEW r \in Readers, NEW t \in Tiles, ReadMiss(r, t)
    PROVE  CacheInv' /\ Spaced /\ Warm
  <1> DEFINE entries == [cache EXCEPT ![t] = NewEntry]
             fetch   == Started(t, "first", {r})
  <1>0. Cached(t) => cache[t].state = "failed" /\ ~InFailureCoolDown(t)
    BY DEF ReadMiss
  <1>1. \A f \in Live : f.tile # t
    BY <1>0, NoneOut
  <1>2. fetch \in Fetch /\ fetch.live /\ fetch.tile = t /\ fetch.kind = "first"
    BY <1>1, StartedIs
  <1>3. Known(entries) = Known(cache) \cup {t}
    BY NewEntryIs DEF Known, CacheInv, EntriesOK
  <1>4. EntriesOK(entries)
    BY <1>3, NewEntryIs DEF EntriesOK, CacheInv, Known
  <1>5. Orders(Bumped(t), Known(entries))
    BY <1>3, BumpedOrders DEF CacheInv
  <1>6. Use(Bumped(t), entries, {fetch})
    BY DEF ReadMiss
  <1>7. Coherent(entries, Live \cup {fetch})
    <2>1. ASSUME NEW f \in Live
          PROVE  f.tile \in Known(entries) /\ Serves(f, entries[f.tile])
      BY <1>1, <1>3 DEF CacheInv, Coherent, EntriesOK, Known
    <2>2. fetch.tile \in Known(entries) /\ Serves(fetch, entries[fetch.tile])
      BY <1>2, <1>3, NewEntryIs DEF CacheInv, EntriesOK, Serves
    <2>3. \A f, g \in Live \cup {fetch} : f.tile = g.tile => f = g
      BY <1>1, <1>2 DEF CacheInv, Coherent
    <2>4. ASSUME NEW n \in Known(entries), entries[n].state = "fetching" \/ entries[n].revalidating
          PROVE  \E f \in Live \cup {fetch} : f.tile = n
      BY <1>2, <1>3, <2>4 DEF CacheInv, Coherent, EntriesOK, Known
    <2> QED  BY <2>1, <2>2, <2>3, <2>4 DEF Coherent
  <1> HIDE DEF entries, fetch
  <1>8. CacheInv'
    BY <1>1, <1>2, <1>4, <1>5, <1>6, <1>7, UseKeeps DEF CacheInv
  <1>9. \A n \in Tiles : Ok(n) => n \in Known(entries) /\ entries[n].state = "ok"
    <2> SUFFICES ASSUME NEW n \in Tiles, Ok(n) PROVE n \in Known(entries) /\ entries[n].state = "ok"
      OBVIOUS
    <2>1. n # t /\ n \in Known(cache) /\ cache[n].state = "ok"
      BY <1>0 DEF Ok, Known, Cached
    <2>2. entries[n] = cache[n]
      BY <2>1 DEF entries, CacheInv, EntriesOK
    <2> QED  BY <1>3, <2>1, <2>2
  <1>10. Spaced /\ Warm
    BY <1>0, <1>2, <1>4, <1>5, <1>6, <1>9, UseContains DEF CacheInv
  <1> QED  BY <1>8, <1>10

LEMMA ReadJoinsStep ==
    ASSUME CacheInv, NEW r \in Readers, NEW t \in Tiles, ReadJoins(r, t)
    PROVE  CacheInv' /\ Spaced /\ Warm
  <1> DEFINE joined(f) == IF f.tile = t /\ f.live
                            THEN [f EXCEPT !.waiters = @ \cup {r}] ELSE f
  <1>1. /\ Cached(t) /\ cache[t].state = "fetching" /\ cache' = cache
        /\ recency' = Bumped(t)
        /\ fetches' = {joined(f) : f \in fetches}
    BY DEF ReadJoins
  <1>2. ASSUME NEW f \in fetches
        PROVE  /\ joined(f) \in Fetch /\ joined(f).tile = f.tile /\ joined(f).live = f.live
               /\ joined(f).kind = f.kind
    BY DEF CacheInv, Fetch
  <1>3. fetches' \subseteq Fetch
    BY <1>1, <1>2
  <1>4. ASSUME NEW g \in Live' PROVE \E f \in Live : g = joined(f)
    BY <1>1, <1>2 DEF Live
  <1>5. ASSUME NEW f \in Live PROVE joined(f) \in Live'
    BY <1>1, <1>2 DEF Live
  <1>6. \A f \in Live : f \in fetches
    BY DEF Live
  <1>7. Orders(recency, Known(cache))' /\ (Len(recency) <= Capacity)'
    <2>1. Known(cache) \cup {t} = Known(cache) /\ t \in Known(cache) /\ Known(cache') = Known(cache)
      BY <1>1 DEF Known, Cached
    <2>2. Orders(Bumped(t), Known(cache)) /\ Len(Bumped(t)) = Len(recency)
      BY <2>1, BumpedOrders DEF CacheInv
    <2> QED  BY <1>1, <2>1, <2>2 DEF Orders, CacheInv, Known
  <1> HIDE DEF joined
  <1>8. Coherent(cache, Live)'
    <2>1. ASSUME NEW g \in Live'
          PROVE  g.tile \in Known(cache) /\ Serves(g, cache[g.tile])
      BY <1>2, <1>4, <1>6 DEF CacheInv, Coherent, Serves
    <2>2. \A g, h \in Live' : g.tile = h.tile => g = h
      BY <1>2, <1>4, <1>6 DEF CacheInv, Coherent
    <2>3. ASSUME NEW n \in Known(cache), cache[n].state = "fetching" \/ cache[n].revalidating
          PROVE  \E g \in Live' : g.tile = n
      BY <1>2, <1>5, <1>6, <2>3 DEF CacheInv, Coherent
    <2> QED  BY <1>1, <2>1, <2>2, <2>3 DEF Coherent, Known, Serves
  <1>9. CacheInv'
    BY <1>1, <1>3, <1>7, <1>8 DEF CacheInv, EntriesOK, Known
  <1>10. Spaced
    <2>1. ~InFailureCoolDown(t)
      <3>1. cache[t].failedAge = CoolDown
        BY <1>1 DEF CacheInv, EntriesOK, Known, Cached
      <3> QED  BY <3>1, WindowsAssumption DEF InFailureCoolDown
    <2>2. ASSUME NEW f \in fetches', f.live, f.tile # t PROVE f \in fetches
      BY <1>1, <1>2, <2>2 DEF joined
    <2> QED  BY <2>1, <2>2 DEF Spaced
  <1>11. Warm
    BY <1>1 DEF Warm, Ok, Cached
  <1> QED  BY <1>9, <1>10, <1>11

LEMMA ReadReplaysStep ==
    ASSUME CacheInv, NEW r \in Readers, NEW t \in Tiles, ReadReplays(r, t)
    PROVE  CacheInv' /\ Spaced /\ Warm
  <1>1. Cached(t) /\ cache' = cache /\ fetches' = fetches /\ recency' = Bumped(t)
    BY DEF ReadReplays
  <1>2. Known(cache) \cup {t} = Known(cache) /\ t \in Known(cache)
    BY <1>1 DEF Known, Cached
  <1>3. Orders(Bumped(t), Known(cache)) /\ Len(Bumped(t)) = Len(recency)
    BY <1>2, BumpedOrders DEF CacheInv
  <1>4. CacheInv'
    BY <1>1, <1>3 DEF CacheInv, EntriesOK, Known, Orders, Coherent, Live, Serves
  <1> QED  BY <1>1, <1>4 DEF Spaced, Warm, Ok, Cached

\* The tiles of a finite set in some order.
LEMMA ListedOrders ==
    ASSUME NEW S \in SUBSET Tiles, IsFiniteSet(S)
    PROVE  Orders(SetToSeq(S), S) /\ Len(SetToSeq(S)) = Cardinality(S)
  <1> DEFINE n == Cardinality(S)
  <1>1. n \in Nat /\ \E f \in Bijection(1..n, S) : TRUE
    BY FS_CardinalityType DEF ExistsBijection
  <1>2. PICK f \in Bijection(1..n, S) : TRUE
    BY <1>1
  <1>3. f \in [1..n -> S] /\ IsInjective(f)
    BY <1>2 DEF Bijection, Injection, IsInjective
  <1>4. SetToSeq(S) \in [1..n -> S] /\ IsInjective(SetToSeq(S))
    BY <1>3, Zenon DEF SetToSeq
  <1>5. SetToSeq(S) \in Injection(1..n, S)
    BY <1>4 DEF Injection
  <1>6. Cardinality(1..n) = n /\ IsFiniteSet(1..n)
    BY <1>1, FS_Interval
  <1>7. SetToSeq(S) \in Surjection(1..n, S)
    BY <1>5, <1>6, FS_Injection
  <1> HIDE DEF n
  <1>8. SetToSeq(S) \in Seq(Tiles) /\ Len(SetToSeq(S)) = n
    BY <1>1, <1>4
  <1>9. ToSet(SetToSeq(S)) = S
    BY <1>4, <1>7 DEF ToSet, Surjection
  <1> QED  BY <1>4, <1>8, <1>9 DEF Orders, n

LEMMA ReadWarmStep ==
    ASSUME CacheInv, NEW t \in Tiles, ReadWarm(t)
    PROVE  CacheInv' /\ Spaced /\ Warm
  <1>0. t \in Known(cache) /\ Cached(t) /\ cache[t].state = "ok"
    BY DEF ReadWarm, Ok, Cached, Known
  <1> PICK near \in SUBSET Neighbours[t] :
          LET ahead == Unknowns(near)
              warmed == SetToSeq(ahead)
              entry == [cache[t] EXCEPT !.revalidating = @ \/ NeedsRefresh(t)]
          IN Use(warmed \o Bumped(t),
                 [n \in Tiles |-> IF n = t THEN entry
                                  ELSE IF n \in ahead THEN NewEntry ELSE cache[n]],
                 {Started(n, "first", {}) : n \in ahead}
                   \cup (IF NeedsRefresh(t) THEN {Started(t, "refresh", {})} ELSE {}))
    BY DEF ReadWarm
  <1> DEFINE ahead == Unknowns(near)
             order == SetToSeq(ahead) \o Bumped(t)
             entry == [cache[t] EXCEPT !.revalidating = @ \/ NeedsRefresh(t)]
             entries == [n \in Tiles |-> IF n = t THEN entry
                                         ELSE IF n \in ahead THEN NewEntry ELSE cache[n]]
             started == {Started(n, "first", {}) : n \in ahead}
                          \cup (IF NeedsRefresh(t) THEN {Started(t, "refresh", {})} ELSE {})
  <1>1. Use(order, entries, started)
    OBVIOUS
  <1>2. /\ ahead \subseteq Tiles /\ IsFiniteSet(ahead) /\ t \notin ahead
        /\ ahead \cap Known(cache) = {}
    <2>1. ahead \subseteq Neighbours[t] /\ Neighbours[t] \subseteq Tiles /\ t \notin Neighbours[t]
      BY NeighboursAssumption DEF Unknowns
    <2>2. IsFiniteSet(ahead)
      BY <2>1, NeighboursAssumption, FS_Subset
    <2> QED  BY <2>1, <2>2 DEF Unknowns, Known, Cached
  <1>3. Orders(order, Known(cache) \cup ahead)
    <2>1. Orders(SetToSeq(ahead), ahead)
      BY <1>2, ListedOrders
    <2>2. Orders(Bumped(t), Known(cache))
      <3>1. Orders(Bumped(t), Known(cache) \cup {t})
        BY BumpedOrders DEF CacheInv
      <3>2. Known(cache) \cup {t} = Known(cache)
        BY <1>0
      <3> QED  BY <3>1, <3>2
    <2>3. Orders(order, ahead \cup Known(cache))
      BY <1>2, <2>1, <2>2, JoinedOrders
    <2>4. ahead \cup Known(cache) = Known(cache) \cup ahead
      OBVIOUS
    <2> QED  BY <2>3, <2>4
  <1> HIDE DEF order
  <1>4. /\ entry \in Entry /\ entry.state = "ok" /\ entry # NoEntry
        /\ entry.revalidating <=> cache[t].revalidating \/ NeedsRefresh(t)
    <2>1. cache[t] \in Entry
      BY <1>0 DEF CacheInv, EntriesOK, Known
    <2>2. NeedsRefresh(t) \in BOOLEAN
      BY DEF NeedsRefresh
    <2>3. /\ entry \in Entry /\ entry.state = "ok"
          /\ entry.revalidating <=> cache[t].revalidating \/ NeedsRefresh(t)
      BY <1>0, <2>1, <2>2 DEF Entry
    <2> HIDE DEF entry
    <2> QED  BY <2>3, NoEntryAssumption
  <1> HIDE DEF entry
  <1>5. /\ Known(entries) = Known(cache) \cup ahead
        /\ entries[t] = entry
        /\ \A n \in ahead : entries[n] = NewEntry
        /\ \A n \in Known(cache) : n # t => entries[n] = cache[n]
    BY <1>0, <1>2, <1>4, NewEntryIs DEF Known
  <1>6. EntriesOK(entries)
    <2>1. entries \in [Tiles -> Entry \cup {NoEntry}]
      BY <1>4, NewEntryIs DEF CacheInv, EntriesOK
    <2>2. ASSUME NEW n \in Known(entries)
          PROVE  /\ entries[n].state = "fetching" => entries[n].failedAge = CoolDown
                 /\ entries[n].revalidating => entries[n].state = "ok"
      BY <1>4, <1>5, NewEntryIs DEF CacheInv, EntriesOK
    <2> QED  BY <2>1, <2>2 DEF EntriesOK
  <1> HIDE DEF entries
  <1>7. \A f \in Live : f.tile \notin ahead /\ (NeedsRefresh(t) => f.tile # t)
    <2> SUFFICES ASSUME NEW f \in Live PROVE f.tile \notin ahead /\ (NeedsRefresh(t) => f.tile # t)
      OBVIOUS
    <2>1. f.tile \in Known(cache) /\ Serves(f, cache[f.tile])
      BY DEF CacheInv, Coherent
    <2> QED  BY <1>0, <1>2, <2>1 DEF Serves, NeedsRefresh
  <1>8. ASSUME NEW g \in started
        PROVE  /\ g \in Fetch /\ g.live
               /\ \A f \in Live : f.tile # g.tile
               /\ \/ g.tile \in ahead /\ g.kind = "first"
                     /\ g = Started(g.tile, "first", {})
                  \/ NeedsRefresh(t) /\ g.tile = t /\ g.kind = "refresh"
                     /\ g = Started(t, "refresh", {})
    <2>1. CASE \E n \in ahead : g = Started(n, "first", {})
      <3> PICK n \in ahead : g = Started(n, "first", {})
        BY <2>1
      <3>1. n \in Tiles /\ \A f \in Live : f.tile # n
        BY <1>2, <1>7
      <3>2. g \in Fetch /\ g.live /\ g.tile = n /\ g.kind = "first"
        BY <3>1, StartedIs
      <3> QED  BY <3>1, <3>2
    <2>2. CASE NeedsRefresh(t) /\ g = Started(t, "refresh", {})
      <3>1. \A f \in Live : f.tile # t
        BY <1>7, <2>2
      <3>2. g \in Fetch /\ g.live /\ g.tile = t /\ g.kind = "refresh"
        BY <2>2, <3>1, StartedIs
      <3> QED  BY <2>2, <3>1, <3>2
    <2> QED  BY <2>1, <2>2
  <1>9. /\ \A n \in ahead : \E g \in started : g.tile = n
        /\ NeedsRefresh(t) => \E g \in started : g.tile = t
    <2>1. ASSUME NEW n \in ahead PROVE \E g \in started : g.tile = n
      <3>1. Started(n, "first", {}) \in started
        OBVIOUS
      <3> QED  BY <3>1 DEF Started
    <2>2. ASSUME NeedsRefresh(t) PROVE \E g \in started : g.tile = t
      <3>1. Started(t, "refresh", {}) \in started
        BY <2>2
      <3> QED  BY <3>1 DEF Started
    <2> QED  BY <2>1, <2>2
  <1> HIDE DEF started, ahead
  <1>10. Coherent(entries, Live \cup started)
    <2>1. ASSUME NEW f \in Live PROVE f.tile \in Known(entries) /\ Serves(f, entries[f.tile])
      BY <1>0, <1>4, <1>5 DEF CacheInv, Coherent, Serves
    <2>2. ASSUME NEW g \in started PROVE g.tile \in Known(entries) /\ Serves(g, entries[g.tile])
      BY <1>0, <1>4, <1>5, <1>8, NewEntryIs DEF Serves
    <2>3. ASSUME NEW f \in started, NEW g \in started, f.tile = g.tile PROVE f = g
      BY <1>2, <1>8, <2>3
    <2>4. \A f, g \in Live \cup started : f.tile = g.tile => f = g
      BY <1>8, <2>3 DEF CacheInv, Coherent
    <2>5. ASSUME NEW n \in Known(entries), entries[n].state = "fetching" \/ entries[n].revalidating
          PROVE  \E f \in Live \cup started : f.tile = n
      <3>1. CASE n = t
        BY <1>0, <1>4, <1>5, <1>9, <2>5, <3>1 DEF CacheInv, Coherent
      <3>2. CASE n \in ahead
        BY <1>9, <3>2
      <3>3. CASE n \in Known(cache) /\ n # t
        BY <1>5, <2>5, <3>3 DEF CacheInv, Coherent
      <3> QED  BY <1>5, <3>1, <3>2, <3>3
    <2> QED  BY <2>1, <2>2, <2>4, <2>5 DEF Coherent
  <1>11. CacheInv'
    BY <1>1, <1>3, <1>5, <1>6, <1>8, <1>10, UseKeeps DEF CacheInv
  <1>12. \A f \in started : ~(Cached(f.tile) /\ InFailureCoolDown(f.tile))
    BY <1>2, <1>8 DEF NeedsRefresh, Known, Cached
  <1>13. \A n \in Tiles : Ok(n) => n \in Known(entries) /\ entries[n].state = "ok"
    BY <1>4, <1>5 DEF Ok, Cached, Known
  <1>14. Spaced /\ Warm
    BY <1>1, <1>3, <1>5, <1>6, <1>8, <1>12, <1>13, UseContains DEF CacheInv
  <1> QED  BY <1>11, <1>14

LEMMA LookedUpOrders ==
    ASSUME CacheInv, NEW f \in fetches
    PROVE  Orders(LookedUp(f), Known(cache)) /\ Len(LookedUp(f)) <= Capacity
  <1>1. CASE f.kind = "refresh" /\ Cached(f.tile)
    <2>1. f.tile \in Tiles /\ f.tile \in Known(cache)
      BY <1>1 DEF CacheInv, Fetch, Known, Cached
    <2>2. Known(cache) \cup {f.tile} = Known(cache)
      BY <2>1
    <2>3. Orders(Bumped(f.tile), Known(cache)) /\ Len(Bumped(f.tile)) = Len(recency)
      BY <2>1, <2>2, BumpedOrders DEF CacheInv
    <2> QED  BY <1>1, <2>3 DEF LookedUp, CacheInv
  <1>2. CASE ~(f.kind = "refresh" /\ Cached(f.tile))
    BY <1>2 DEF LookedUp, CacheInv
  <1> QED  BY <1>1, <1>2

\* A fetch that ends for its own entry may leave it with any entry that has no request
\* out; one that ends for nothing leaves the entries as they are.
LEMMA EndKeeps ==
    ASSUME CacheInv, NEW f \in fetches, NEW entry \in Entry,
           entry.state # "fetching", ~entry.revalidating,
           fetches' = fetches \ {f}, recency' = LookedUp(f),
           cache' = IF f.live THEN [cache EXCEPT ![f.tile] = entry] ELSE cache,
           f.live => (cache[f.tile].state = "ok" => entry.state = "ok")
    PROVE  CacheInv' /\ Spaced /\ Warm
  <1>0. /\ f \in Fetch /\ f.tile \in Tiles /\ f.live \in BOOLEAN /\ entry # NoEntry
        /\ f.live => f.tile \in Known(cache)
    BY NoEntryAssumption DEF CacheInv, Fetch, Coherent, Live
  <1>1. Known(cache') = Known(cache)
    BY <1>0 DEF Known, CacheInv, EntriesOK
  <1>2. EntriesOK(cache')
    BY <1>0, <1>1 DEF CacheInv, EntriesOK, Known
  <1>3. Live' = Live \ {f}
    BY DEF Live
  <1>4. Coherent(cache', Live')
    <2>1. CASE f.live
      <3>1. f \in Live /\ cache'[f.tile] = entry
            /\ \A n \in Tiles : n # f.tile => cache'[n] = cache[n]
        BY <1>0, <2>1 DEF Live, CacheInv, EntriesOK
      <3>2. \A g \in Live' : g \in Live /\ g.tile # f.tile /\ g.tile \in Tiles
        BY <1>3, <3>1 DEF CacheInv, Coherent, Known
      <3>3. \A n \in Known(cache) : n \in Tiles
        BY DEF Known
      <3>4. ASSUME NEW n \in Known(cache'), cache'[n].state = "fetching" \/ cache'[n].revalidating
            PROVE  \E g \in Live' : g.tile = n
        <4>1. n # f.tile /\ n \in Known(cache) /\ cache'[n] = cache[n]
          BY <1>1, <3>1, <3>3, <3>4
        <4>2. PICK g \in Live : g.tile = n
          BY <3>4, <4>1 DEF CacheInv, Coherent
        <4> QED  BY <1>3, <4>1, <4>2
      <3> QED  BY <1>1, <3>1, <3>2, <3>4 DEF CacheInv, Coherent
    <2>2. CASE ~f.live
      <3>1. Live' = Live /\ cache' = cache
        BY <1>3, <2>2 DEF Live
      <3> QED  BY <3>1 DEF CacheInv
    <2> QED  BY <1>0, <2>1, <2>2
  <1>5. CacheInv'
    <2>1. Orders(recency', Known(cache')) /\ Len(recency') <= Capacity
      BY <1>1, LookedUpOrders
    <2>2. fetches' \subseteq Fetch
      BY DEF CacheInv
    <2> QED  BY <1>2, <1>4, <2>1, <2>2 DEF CacheInv, Orders, Coherent, EntriesOK, Known, Live, Serves
  <1>6. Spaced
    BY DEF Spaced
  <1>7. Warm
    <2>1. \A t \in Tiles : Ok(t) => Ok(t)'
      BY <1>0 DEF Ok, Cached, CacheInv, EntriesOK
    <2> QED  BY <2>1 DEF Warm
  <1> QED  BY <1>5, <1>6, <1>7

LEMMA ResolvesStep ==
    ASSUME CacheInv, NEW f \in fetches, NEW degraded \in BOOLEAN, Resolves(f, degraded)
    PROVE  CacheInv' /\ Spaced /\ Warm
  <1> DEFINE entry == [state |-> "ok", age |-> Stamped(degraded), failedAge |-> CoolDown,
                       revalidating |-> FALSE]
  <1>1. Stamped(degraded) \in 0..Ttl
    BY WindowsAssumption DEF Stamped
  <1>2. entry \in Entry /\ entry.state = "ok" /\ ~entry.revalidating
    BY <1>1, WindowsAssumption DEF Entry
  <1>3. /\ fetches' = fetches \ {f} /\ recency' = LookedUp(f)
        /\ cache' = IF f.live THEN [cache EXCEPT ![f.tile] = entry] ELSE cache
    BY DEF Resolves
  <1> HIDE DEF entry
  <1> QED  BY <1>2, <1>3, EndKeeps

\* What a failed refresh, and a failed first fetch, make of an entry.
LEMMA FailedEntry ==
    ASSUME NEW e \in Entry
    PROVE  /\ [e EXCEPT !.failedAge = 0, !.revalidating = FALSE] \in Entry
           /\ [e EXCEPT !.failedAge = 0, !.revalidating = FALSE].state = e.state
           /\ [e EXCEPT !.failedAge = 0, !.revalidating = FALSE].revalidating = FALSE
           /\ [e EXCEPT !.state = "failed", !.failedAge = 0] \in Entry
           /\ [e EXCEPT !.state = "failed", !.failedAge = 0].state = "failed"
           /\ [e EXCEPT !.state = "failed", !.failedAge = 0].revalidating = e.revalidating
  <1>1. 0 \in 0..CoolDown
    BY WindowsAssumption
  <1>2. /\ [e EXCEPT !.failedAge = 0, !.revalidating = FALSE] \in Entry
        /\ [e EXCEPT !.failedAge = 0, !.revalidating = FALSE].state = e.state
        /\ [e EXCEPT !.failedAge = 0, !.revalidating = FALSE].revalidating = FALSE
    BY <1>1 DEF Entry
  <1>3. /\ [e EXCEPT !.state = "failed", !.failedAge = 0] \in Entry
        /\ [e EXCEPT !.state = "failed", !.failedAge = 0].state = "failed"
        /\ [e EXCEPT !.state = "failed", !.failedAge = 0].revalidating = e.revalidating
    BY <1>1 DEF Entry
  <1> QED  BY <1>2, <1>3

LEMMA FailsStep ==
    ASSUME CacheInv, NEW f \in fetches, Fails(f)
    PROVE  CacheInv' /\ Spaced /\ Warm
  <1> DEFINE old == cache[f.tile]
             entry == IF ~f.live THEN NewEntry
                      ELSE IF f.kind = "refresh"
                        THEN [old EXCEPT !.failedAge = 0, !.revalidating = FALSE]
                      ELSE [old EXCEPT !.state = "failed", !.failedAge = 0]
  <1>0. f \in Fetch /\ f.tile \in Tiles /\ f.live \in BOOLEAN
    BY DEF CacheInv, Fetch
  <1>1. /\ fetches' = fetches \ {f} /\ recency' = LookedUp(f)
        /\ cache' = IF f.live THEN [cache EXCEPT ![f.tile] = entry] ELSE cache
    BY <1>0 DEF Fails, CacheInv, EntriesOK
  <1>2. CASE f.live
    <2>1. old \in Entry /\ Serves(f, old) /\ (old.revalidating => old.state = "ok")
      BY <1>0, <1>2 DEF CacheInv, EntriesOK, Coherent, Live, Known
    <2>2. CASE f.kind = "refresh"
      <3>1. /\ entry = [old EXCEPT !.failedAge = 0, !.revalidating = FALSE]
            /\ old.state = "ok"
        BY <1>2, <2>1, <2>2 DEF Serves
      <3>2. entry \in Entry /\ entry.state = "ok" /\ ~entry.revalidating
        <4> HIDE DEF entry, old
        <4> QED  BY <2>1, <3>1, FailedEntry
      <3> HIDE DEF entry, old
      <3> QED  BY <1>1, <1>2, <3>2, EndKeeps
    <2>3. CASE f.kind # "refresh"
      <3>1. /\ entry = [old EXCEPT !.state = "failed", !.failedAge = 0]
            /\ old.state = "fetching" /\ ~old.revalidating
        BY <1>2, <2>1, <2>3 DEF Serves
      <3>2. entry \in Entry /\ entry.state = "failed" /\ ~entry.revalidating
        <4> HIDE DEF entry, old
        <4> QED  BY <2>1, <3>1, FailedEntry
      <3>3. cache[f.tile].state # "ok"
        BY <3>1
      <3> HIDE DEF entry, old
      <3> QED  BY <1>1, <1>2, <3>2, <3>3, EndKeeps
    <2> QED  BY <2>2, <2>3
  <1>3. CASE ~f.live
    <2> DEFINE spare == [state |-> "ok", age |-> Ttl, failedAge |-> CoolDown, revalidating |-> FALSE]
    <2>1. spare \in Entry /\ spare.state = "ok" /\ ~spare.revalidating
      BY WindowsAssumption DEF Entry
    <2>2. cache' = IF f.live THEN [cache EXCEPT ![f.tile] = spare] ELSE cache
      BY <1>1, <1>3
    <2> HIDE DEF spare
    <2> QED  BY <1>1, <1>3, <2>1, <2>2, EndKeeps
  <1> QED  BY <1>0, <1>2, <1>3

LEMMA ClearStep ==
    ASSUME CacheInv, Clear
    PROVE  CacheInv' /\ Spaced /\ Warm
  <1>1. cache' = [t \in Tiles |-> NoEntry] /\ recency' = <<>>
    BY DEF Clear
  <1>2. \A g \in fetches' : g \in Fetch /\ ~g.live
    <2> SUFFICES ASSUME NEW g \in fetches' PROVE g \in Fetch /\ ~g.live
      OBVIOUS
    <2> PICK f \in fetches : g = [f EXCEPT !.live = FALSE]
      BY DEF Clear
    <2>1. g \in Fetch /\ g.live = FALSE
      BY Marked DEF CacheInv
    <2> QED  BY <2>1
  <1>3. Known(cache') = {} /\ EntriesOK(cache')
    BY <1>1 DEF Known, EntriesOK
  <1>4. Live' = {}
    BY <1>2 DEF Live
  <1>5. Orders(recency', {}) /\ Len(recency') <= Capacity
    <2>1. recency' \in Seq(Tiles) /\ Len(recency') = 0 /\ DOMAIN recency' = {}
      BY <1>1
    <2> QED  BY <2>1, WindowsAssumption DEF Orders, IsInjective, ToSet
  <1>6. Coherent(cache', Live')
    BY <1>3, <1>4 DEF Coherent
  <1>7. CacheInv'
    BY <1>2, <1>3, <1>5, <1>6 DEF CacheInv, Orders, Coherent, EntriesOK, Known, Live
  <1>8. Spaced
    BY <1>2 DEF Spaced
  <1>9. Warm
    BY <1>1 DEF Warm, Contains
  <1> QED  BY <1>7, <1>8, <1>9

LEMMA AgeStep ==
    ASSUME CacheInv, Age
    PROVE  CacheInv' /\ Spaced /\ Warm
  <1> DEFINE aged(t) == [cache[t] EXCEPT !.age = Older(@, Ttl), !.failedAge = Older(@, CoolDown)]
  <1>1. /\ recency' = recency /\ fetches' = fetches
        /\ \A t \in Tiles : cache'[t] = IF Cached(t) THEN aged(t) ELSE NoEntry
        /\ cache' = [t \in Tiles |-> IF Cached(t) THEN aged(t) ELSE NoEntry]
    BY DEF Age
  <1>2. ASSUME NEW t \in Known(cache)
        PROVE  /\ aged(t) \in Entry /\ aged(t) # NoEntry
               /\ aged(t).state = cache[t].state /\ aged(t).revalidating = cache[t].revalidating
               /\ cache[t].failedAge = CoolDown => aged(t).failedAge = CoolDown
    <2>1. cache[t] \in Entry
      BY DEF Known, CacheInv, EntriesOK
    <2>2. Older(cache[t].age, Ttl) \in 0..Ttl /\ Older(cache[t].failedAge, CoolDown) \in 0..CoolDown
      BY <2>1, WindowsAssumption DEF Entry, Older
    <2>3. /\ aged(t) \in Entry
          /\ aged(t).state = cache[t].state /\ aged(t).revalidating = cache[t].revalidating
          /\ aged(t).failedAge = Older(cache[t].failedAge, CoolDown)
      BY <2>1, <2>2 DEF Entry
    <2>4. cache[t].failedAge = CoolDown => Older(cache[t].failedAge, CoolDown) = CoolDown
      BY WindowsAssumption DEF Older
    <2> QED  BY <2>3, <2>4, NoEntryAssumption
  <1> HIDE DEF aged
  <1>3. Known(cache') = Known(cache)
    BY <1>1, <1>2 DEF Known, Cached
  <1>4. \A t \in Known(cache) : cache'[t] = aged(t)
    BY <1>1 DEF Known, Cached
  <1>5. EntriesOK(cache')
    BY <1>1, <1>2, <1>3, <1>4 DEF CacheInv, EntriesOK, Known, Cached
  <1>6. Coherent(cache', Live)
    BY <1>2, <1>3, <1>4 DEF CacheInv, Coherent, Serves
  <1>7. CacheInv'
    BY <1>1, <1>3, <1>5, <1>6 DEF CacheInv, Orders, Coherent, EntriesOK, Known, Live, Serves
  <1>8. Spaced
    BY <1>1 DEF Spaced
  <1>9. \A t \in Tiles : Ok(t) => Ok(t)'
    BY <1>1, <1>2, <1>4 DEF Ok, Cached, Known
  <1> QED  BY <1>7, <1>8, <1>9 DEF Warm

-----------------------------------------------------------------------------
LEMMA InitInv == CacheInit => CacheInv
  <1> SUFFICES ASSUME CacheInit PROVE CacheInv
    OBVIOUS
  <1>1. cache = [t \in Tiles |-> NoEntry] /\ recency = <<>> /\ fetches = {}
    BY DEF CacheInit
  <1>2. Known(cache) = {} /\ EntriesOK(cache)
    BY <1>1 DEF Known, EntriesOK
  <1>3. Orders(recency, {}) /\ Len(recency) <= Capacity
    <2>1. recency \in Seq(Tiles) /\ Len(recency) = 0 /\ DOMAIN recency = {}
      BY <1>1
    <2> QED  BY <2>1, WindowsAssumption DEF Orders, IsInjective, ToSet
  <1> QED  BY <1>1, <1>2, <1>3 DEF CacheInv, Coherent, Live

LEMMA StepKeeps == CacheInv /\ [CacheNext]_cacheVars => CacheInv' /\ Spaced /\ Warm
  <1> SUFFICES ASSUME CacheInv, [CacheNext]_cacheVars PROVE CacheInv' /\ Spaced /\ Warm
    OBVIOUS
  <1>1. ASSUME NEW r \in Readers, NEW t \in Tiles, Read(r, t)
        PROVE  CacheInv' /\ Spaced /\ Warm
    <2>1. CASE ReadMiss(r, t)
      BY <2>1, ReadMissStep
    <2>2. CASE ReadJoins(r, t)
      BY <2>2, ReadJoinsStep
    <2>3. CASE ReadReplays(r, t)
      BY <2>3, ReadReplaysStep
    <2>4. CASE ReadWarm(t)
      BY <2>4, ReadWarmStep
    <2> QED  BY <1>1, <2>1, <2>2, <2>3, <2>4 DEF Read
  <1>2. ASSUME NEW f \in fetches, Ends(f)
        PROVE  CacheInv' /\ Spaced /\ Warm
    BY <1>2, ResolvesStep, FailsStep DEF Ends
  <1>3. CASE UNCHANGED cacheVars
    <2>1. cache' = cache /\ recency' = recency /\ fetches' = fetches
      BY <1>3 DEF cacheVars
    <2>2. CacheInv'
      BY <2>1 DEF CacheInv, EntriesOK, Known, Orders, Coherent, Live, Serves
    <2> QED  BY <2>1, <2>2 DEF Spaced, Warm, Ok, Cached
  <1> QED  BY <1>1, <1>2, <1>3, ClearStep, AgeStep DEF CacheNext

\* One request at most is out for a tile, and one exactly when its entry says so.
LEMMA InvIsSound == CacheInv => CacheSound
  <1> SUFFICES ASSUME CacheInv PROVE CacheSound
    OBVIOUS
  <1>1. TypeOK
    BY DEF TypeOK, CacheInv, EntriesOK, Orders, Known, Cached
  <1>2. ASSUME NEW t \in Tiles
        PROVE  /\ Cardinality(LiveFetches(t)) <= 1
               /\ LiveFetches(t) # {} <=>
                     Cached(t) /\ (cache[t].state = "fetching" \/ cache[t].revalidating)
    <2>1. LiveFetches(t) = {f \in Live : f.tile = t}
      BY DEF LiveFetches, Live
    <2>2. CASE LiveFetches(t) = {}
      <3>1. Cardinality(LiveFetches(t)) = 0
        BY <2>2, FS_EmptySet
      <3> QED  BY <2>1, <2>2, <3>1 DEF CacheInv, Coherent, Known, Cached
    <2>3. CASE LiveFetches(t) # {}
      <3>1. PICK f \in LiveFetches(t) : TRUE
        BY <2>3
      <3>2. LiveFetches(t) = {f}
        BY <2>1, <3>1 DEF CacheInv, Coherent
      <3>3. Cardinality(LiveFetches(t)) = 1
        BY <3>2, FS_Singleton
      <3>4. f \in Live /\ f.tile = t
        BY <2>1, <3>1
      <3>5. t \in Known(cache) /\ Serves(f, cache[t])
        BY <3>4 DEF CacheInv, Coherent
      <3> QED  BY <2>3, <3>3, <3>5 DEF Serves, Known, Cached
    <2> QED  BY <2>2, <2>3
  <1> QED  BY <1>1, <1>2 DEF CacheSound, SingleFlight

\* For any readers, tiles and capacity, the cache holds no more tiles than it may, in an
\* order of their use, and readers that burst on a tile share one request (get,
\* revalidate and prefetchNeighbors of bbox-debounce.ts).
THEOREM RequestsAreShared == CacheSpec => []CacheSound
  <1>1. CacheInv /\ [CacheNext]_cacheVars => CacheInv'
    BY StepKeeps
  <1> QED  BY InitInv, <1>1, InvIsSound, PTL DEF CacheSpec

\* A tile that failed is asked for by no path within its cool-down, and a tile that
\* holds a value keeps one while it is cached, whatever fails.
THEOREM FailuresAreContained == CacheSpec => FailuresContained
  <1>1. CacheInv /\ [CacheNext]_cacheVars => CacheInv'
    BY StepKeeps
  <1>2. CacheInv /\ [CacheNext]_cacheVars => [Spaced]_cacheVars /\ [Warm]_cacheVars
    BY StepKeeps
  <1>3. CacheSpec => [][Spaced]_cacheVars /\ [][Warm]_cacheVars
    BY InitInv, <1>1, <1>2, PTL DEF CacheSpec
  <1> QED  BY <1>3 DEF FailuresContained, RetriesSpaced, WarmStaysWarm, Spaced, Warm

-----------------------------------------------------------------------------
(* The boxes.  Arcs of longitude are compared where they lie, a turn before or after    *)
(* (OnArc), and wrapping an arc moves it by a turn or none (IntervalWraps). *)

\* Division with remainder has one result.
LEMMA RemainderIs ==
    ASSUME NEW n \in Nat \ {0}, NEW k \in Int, NEW r \in 0..n-1
    PROVE  (n * k + r) % n = r
<1> DEFINE x == n * k + r  q == x \div n  m == x % n
<1>1. x \in Int /\ n * k \in Int
  OBVIOUS
<1>2. q \in Int /\ m \in 0..n-1 /\ x = n * q + m
  BY <1>1
<1>3. n * (q - k) = r - m
  <2>1. n * (q - k) = n * q - n * k
    BY <1>2
  <2> HIDE DEF q, m
  <2> QED BY <1>1, <1>2, <2>1
<1> HIDE DEF q, m
<1>4. \A d \in Int : d >= 1 => n * d >= n
  OBVIOUS
<1>5. \A d \in Int : d <= -1 => n * d <= -n
  OBVIOUS
<1>6. q - k = 0
  BY <1>2, <1>3, <1>4, <1>5
<1>7. m = r
  <2>1. n * 0 = 0
    OBVIOUS
  <2> QED BY <1>2, <1>3, <1>6, <2>1
<1>8. QED
  BY <1>7 DEF m, x

\* The globe, as it is assumed.
LEMMA GlobeShape ==
    /\ HalfTurn \in Nat \ {0} /\ Pole \in Nat /\ Cell \in Nat \ {0} /\ 2 * Cell <= HalfTurn
    /\ FullTurn \in Nat \ {0} /\ FullTurn = HalfTurn + HalfTurn
    /\ \A s : s \in Shifts <=> s = 0 \/ s = HalfTurn + HalfTurn \/ s = -(HalfTurn + HalfTurn)
    /\ MaxSpan \in Nat /\ MaxExplicit \in Nat
BY BoxConstants DEF FullTurn, Shifts

\* A longitude up to a turn beyond the antimeridian comes back by a turn.
LEMMA WrapIs ==
    ASSUME NEW lon \in Int, -3 * HalfTurn <= lon, lon <= 3 * HalfTurn
    PROVE  WrapLongitude(lon) = IF lon > HalfTurn THEN lon - FullTurn
                                ELSE IF lon < -HalfTurn THEN lon + FullTurn ELSE lon
<1> DEFINE F == FullTurn  H == HalfTurn  x == lon + H
<1>1. F \in Nat \ {0} /\ F = H + H /\ H \in Nat \ {0} /\ x \in Int /\ -H - H <= x /\ x <= 4 * H
  BY GlobeShape
<1>2. CASE lon > H
  <2>1. CASE x < F + F
    <3>1. F * 1 + (x - F) = x /\ x - F \in 0..F-1
      BY <1>1, <1>2, <2>1
    <3>2. (F * 1 + (x - F)) % F = x - F
      BY <1>1, <3>1, RemainderIs
    <3>3. x % F = x - F
      BY <3>1, <3>2
    <3> QED BY <1>1, <1>2, <3>3 DEF WrapLongitude
  <2>2. CASE x = F + F
    <3>1. F * 2 + 0 = x /\ 0 \in 0..F-1
      BY <1>1, <2>2
    <3>2. (F * 2 + 0) % F = 0
      BY <1>1, <3>1, RemainderIs
    <3>3. x % F = 0
      BY <3>1, <3>2
    <3> QED BY <1>1, <1>2, <2>2, <3>3 DEF WrapLongitude
  <2> QED BY <1>1, <2>1, <2>2
<1>3. CASE lon < -H
  <2>1. F * (-1) + (x + F) = x /\ x + F \in 0..F-1
    BY <1>1, <1>3
  <2>2. (F * (-1) + (x + F)) % F = x + F
    BY <1>1, <2>1, RemainderIs
  <2>3. x % F = x + F
    BY <2>1, <2>2
  <2> QED BY <1>1, <1>3, <2>3 DEF WrapLongitude
<1>4. CASE lon \in -H..H
  BY <1>1, <1>4 DEF WrapLongitude
<1>5. QED
  BY <1>1, <1>2, <1>3, <1>4

BoxShape(b) ==
    /\ b \in [north : Int, south : Int, west : Int, east : Int]
    /\ -Pole <= b.south /\ b.south <= b.north /\ b.north <= Pole
    /\ b.west \in -HalfTurn..HalfTurn /\ b.east \in -HalfTurn..HalfTurn

\* A longitude lies a turn or none from the arc that starts in the west.
OnArc(west, span, lon) == \E s \in Shifts : west <= lon + s /\ lon + s <= west + span

\* A box is no wider than the globe.
LEMMA WidthShape ==
    ASSUME NEW b, BoxShape(b)
    PROVE  /\ Width(b) \in 0..FullTurn
           /\ b.west <= b.east => Width(b) = b.east - b.west
           /\ b.west > b.east => Width(b) = FullTurn - b.west + b.east
BY GlobeShape DEF BoxShape, Width, LongitudeSpan

\* A box covers the points between its parallels on the arc from its west edge.
LEMMA CoversIsOnArc ==
    ASSUME NEW b, BoxShape(b), NEW lon \in -HalfTurn..HalfTurn, NEW lat \in Int
    PROVE  Covers(b, lon, lat) <=> b.south <= lat /\ lat <= b.north /\ OnArc(b.west, Width(b), lon)
<1> DEFINE w == b.west  e == b.east  H == HalfTurn  span == Width(b)
           reached == \/ w <= lon /\ lon <= w + span
                      \/ w <= lon + (H + H) /\ lon + (H + H) <= w + span
                      \/ w <= lon - (H + H) /\ lon - (H + H) <= w + span
           held == \/ IF w <= e THEN w <= lon /\ lon <= e ELSE lon >= w \/ lon <= e
                   \/ (lon = H \/ lon = -H) /\ (IF w <= e THEN w <= H /\ H <= e ELSE H >= w \/ H <= e)
                   \/ (lon = H \/ lon = -H) /\ (IF w <= e THEN w <= -H /\ -H <= e ELSE -H >= w \/ -H <= e)
<1>1. /\ w \in Int /\ e \in Int /\ -H <= w /\ w <= H /\ -H <= e /\ e <= H /\ H \in Nat \ {0}
      /\ b.south \in Int /\ b.north \in Int /\ FullTurn = H + H /\ lon \in Int /\ -H <= lon /\ lon <= H
      /\ span \in Int
  BY GlobeShape, WidthShape DEF BoxShape
<1>2. OnArc(w, span, lon) <=> reached
  <2>1. lon + (-(H + H)) = lon - (H + H) /\ lon + 0 = lon
    BY <1>1
  <2>2. Shifts = {0, H + H, -(H + H)}
    BY GlobeShape
  <2>3. OnArc(w, span, lon) <=> \E s \in {0, H + H, -(H + H)} : w <= lon + s /\ lon + s <= w + span
    BY <2>2 DEF OnArc
  <2> HIDE DEF w, span, H
  <2> QED BY <1>1, <2>1, <2>3
<1>3. Covers(b, lon, lat) <=> b.south <= lat /\ lat <= b.north /\ held
  BY <1>1 DEF Covers, ContainsPoint, SameMeridian
<1>4. span = IF w <= e THEN e - w ELSE H + H - w + e
  BY <1>1, WidthShape
<1>5. reached <=> held
  <2> HIDE DEF w, e, span, H
  <2> QED BY <1>1, <1>4
<1>6. QED
  BY <1>2, <1>3, <1>5

-----------------------------------------------------------------------------
(* The union of two boxes. *)

\* Numbers given to the members of a set are least at one of them.
LEMMA LeastIsGiven ==
    ASSUME NEW S, S # {}, NEW f \in [S -> Nat]
    PROVE  \E x \in S : \A y \in S : f[x] <= f[y]
<1> DEFINE T == {f[x] : x \in S}
<1>1. T \subseteq Nat /\ T # {}
  OBVIOUS
<1>2. PICK t \in T : \A u \in T : ~(<<u, t>> \in OpToRel(<, Nat))
  BY <1>1, WFMin, NatLessThanWellFounded
<1>3. PICK x \in S : t = f[x]
  OBVIOUS
<1>4. ASSUME NEW y \in S PROVE f[x] <= f[y]
  <2>1. f[y] \in T /\ f[y] \in Nat /\ f[x] \in Nat
    OBVIOUS
  <2>2. f[y] < t => <<f[y], t>> \in OpToRel(<, Nat)
    BY <1>3, <2>1 DEF OpToRel
  <2>3. ~(f[y] < t)
    BY <1>2, <2>1, <2>2
  <2> QED BY <1>3, <2>1, <2>3
<1>5. QED
  BY <1>4

\* The interval that holds both, the second being moved by a shift.
HullFrom(a, b, s) == Lower(a.west, b.west + s)
HullTo(a, b, s) == Higher(a.west + Width(a), b.west + Width(b) + s)
HullWidth(a, b, s) == HullTo(a, b, s) - HullFrom(a, b, s)

\* The interval that holds two boxes, the second moved by a shift.
LEMMA HullShape ==
    ASSUME NEW a, NEW b, BoxShape(a), BoxShape(b), NEW s \in Shifts
    PROVE  /\ HullFrom(a, b, s) \in Int /\ HullTo(a, b, s) \in Int /\ HullWidth(a, b, s) \in Nat
           /\ -3 * HalfTurn <= HullFrom(a, b, s) /\ HullFrom(a, b, s) <= HalfTurn
           /\ HullFrom(a, b, s) <= a.west /\ a.west + Width(a) <= HullTo(a, b, s)
           /\ HullFrom(a, b, s) <= b.west + s /\ b.west + s + Width(b) <= HullTo(a, b, s)
<1>1. /\ a.west \in Int /\ b.west \in Int /\ Width(a) \in Nat /\ Width(b) \in Nat /\ s \in Int
      /\ -HalfTurn <= a.west /\ a.west <= HalfTurn /\ -HalfTurn <= b.west /\ b.west <= HalfTurn
      /\ HalfTurn \in Nat /\ -(HalfTurn + HalfTurn) <= s
  BY GlobeShape, WidthShape DEF BoxShape
<1>2. \A x, y \in Int : /\ Lower(x, y) \in Int /\ Lower(x, y) <= x /\ Lower(x, y) <= y
                        /\ (Lower(x, y) = x \/ Lower(x, y) = y)
                        /\ Higher(x, y) \in Int /\ x <= Higher(x, y) /\ y <= Higher(x, y)
  BY DEF Lower, Higher
<1> DEFINE p == a.west  q == b.west + s  u == a.west + Width(a)  v == b.west + Width(b) + s
<1>3. /\ p \in Int /\ q \in Int /\ u \in Int /\ v \in Int /\ p <= u /\ q <= v
      /\ -3 * HalfTurn <= q /\ -3 * HalfTurn <= p /\ p <= HalfTurn /\ v = b.west + s + Width(b)
  BY <1>1
<1> HIDE DEF p, q, u, v
<1>4. /\ Lower(p, q) \in Int /\ Higher(u, v) \in Int /\ Higher(u, v) - Lower(p, q) \in Nat
      /\ -3 * HalfTurn <= Lower(p, q) /\ Lower(p, q) <= HalfTurn
      /\ Lower(p, q) <= p /\ u <= Higher(u, v) /\ Lower(p, q) <= q /\ v <= Higher(u, v)
  <2> DEFINE l == Lower(p, q)  h == Higher(u, v)
  <2>1. /\ l \in Int /\ h \in Int /\ l <= p /\ l <= q /\ u <= h /\ v <= h /\ (l = p \/ l = q)
    BY <1>2, <1>3
  <2> HIDE DEF l, h
  <2>2. /\ h - l \in Nat /\ -3 * HalfTurn <= l /\ l <= HalfTurn
    BY <1>1, <1>3, <2>1
  <2> QED BY <2>1, <2>2 DEF l, h
<1>5. QED
  BY <1>3, <1>4 DEF HullFrom, HullTo, HullWidth, p, q, u, v

\* The hull is one of the three, and the narrowest of them.
LEMMA HullIsOne ==
    ASSUME NEW a, NEW b, BoxShape(a), BoxShape(b)
    PROVE  \E s \in Shifts :
              LET west == WrapLongitude(HullFrom(a, b, s))
                  east == WrapLongitude(HullTo(a, b, s))
                  width == HullWidth(a, b, s)
              IN /\ \A t \in Shifts : width <= HullWidth(a, b, t)
                 /\ HullOf(a, b) =
                      CASE width >= FullTurn -> <<-HalfTurn, HalfTurn>>
                        [] width = 0 /\ west \in {-HalfTurn, HalfTurn} -> <<HalfTurn, -HalfTurn>>
                        [] OTHER -> <<west, east>>
<1> DEFINE from(s) == HullFrom(a, b, s)  to(s) == HullTo(a, b, s)  width(s) == HullWidth(a, b, s)
           hulls == {<<from(s), to(s)>> : s \in Shifts}
<1>1. \A s \in Shifts : /\ from(s) \in Int /\ to(s) \in Int /\ width(s) \in Nat /\ width(s) = to(s) - from(s)
                        /\ from(s) + 3 * HalfTurn \in Nat
  BY HullShape, GlobeShape DEF HullWidth
<1> HIDE DEF from, to, width
<1>2. PICK s0 \in Shifts : \A t \in Shifts : width(s0) <= width(t)
  <2> DEFINE f == [s \in Shifts |-> width(s)]
  <2>1. f \in [Shifts -> Nat] /\ Shifts # {}
    BY <1>1, GlobeShape
  <2>2. PICK x \in Shifts : \A y \in Shifts : f[x] <= f[y]
    BY <2>1, LeastIsGiven
  <2> QED BY <2>2
<1> DEFINE best == {s \in Shifts : width(s) = width(s0)}
<1>3. PICK s1 \in best : \A t \in best : from(s1) <= from(t)
  <2> DEFINE f == [s \in best |-> from(s) + 3 * HalfTurn]
  <2>1. f \in [best -> Nat] /\ best # {}
    BY <1>1
  <2>2. PICK x \in best : \A y \in best : f[x] <= f[y]
    BY <2>1, LeastIsGiven
  <2>3. \A y \in best : from(x) + 3 * HalfTurn <= from(y) + 3 * HalfTurn
    BY <2>2
  <2>4. \A y \in best : from(x) <= from(y)
    BY <1>1, <2>3, GlobeShape
  <2> QED BY <2>4
<1> DEFINE narrowest == Min({h[2] - h[1] : h \in hulls})
<1>4. narrowest = width(s0)
  <2>1. {h[2] - h[1] : h \in hulls} = {width(s) : s \in Shifts}
    <3>1. ASSUME NEW s \in Shifts
          PROVE  <<from(s), to(s)>> \in hulls /\ <<from(s), to(s)>>[2] - <<from(s), to(s)>>[1] = width(s)
      BY <1>1
    <3>2. \A h \in hulls : \E s \in Shifts : h[2] - h[1] = width(s)
      BY <3>1
    <3>3. \A s \in Shifts : \E h \in hulls : h[2] - h[1] = width(s)
      BY <3>1
    <3> HIDE DEF hulls
    <3> QED BY <3>2, <3>3
  <2> DEFINE W == {width(s) : s \in Shifts}
  <2>2. W \subseteq Int /\ width(s0) \in W /\ \A y \in W : width(s0) <= y
    BY <1>1, <1>2
  <2> HIDE DEF W
  <2>3. ASSUME NEW y \in W, \A z \in W : y <= z PROVE y = width(s0)
    <3>1. y \in Int /\ width(s0) \in Int /\ y <= width(s0) /\ width(s0) <= y
      BY <2>2, <2>3
    <3> QED BY <3>1
  <2>4. Min(W) = width(s0)
    BY <2>2, <2>3 DEF Min
  <2> QED BY <2>1, <2>4 DEF W
<1> DEFINE First(h) == /\ h[2] - h[1] = narrowest
                       /\ \A k \in hulls : k[2] - k[1] = narrowest => h[1] <= k[1]
           hull == CHOOSE h \in hulls : First(h)
<1>5. First(<<from(s1), to(s1)>>) /\ <<from(s1), to(s1)>> \in hulls
  <2>1. to(s1) - from(s1) = narrowest
    BY <1>1, <1>4
  <2>2. ASSUME NEW t \in Shifts, to(t) - from(t) = narrowest PROVE from(s1) <= from(t)
    BY <1>1, <1>3, <1>4, <2>2
  <2> HIDE DEF narrowest
  <2> QED BY <2>1, <2>2
<1>6. hull \in hulls /\ First(hull)
  <2> HIDE DEF First, hulls
  <2> QED BY <1>5
<1>7. PICK s \in Shifts : hull = <<from(s), to(s)>>
  <2> HIDE DEF First, hull
  <2> QED BY <1>6
<1>8. width(s) = narrowest
  <2> HIDE DEF narrowest, hull
  <2> QED BY <1>1, <1>6, <1>7
<1>9. HullOf(a, b) = LET west == WrapLongitude(hull[1])
                         east == WrapLongitude(hull[2])
                     IN CASE narrowest >= FullTurn -> <<-HalfTurn, HalfTurn>>
                          [] narrowest = 0 /\ west \in {-HalfTurn, HalfTurn} -> <<HalfTurn, -HalfTurn>>
                          [] OTHER -> <<west, east>>
  BY DEF HullOf, HullShifts, Width, HullFrom, HullTo, from, to
<1> HIDE DEF hull, narrowest
<1>10. hull[1] = from(s) /\ hull[2] = to(s)
  BY <1>7
<1>11. \A t \in Shifts : width(s) <= width(t)
  BY <1>2, <1>4, <1>8
<1>12. QED
  BY <1>8, <1>9, <1>10, <1>11 DEF from, to, width

\* An interval keeps its width on the globe, and what lies on it.
LEMMA IntervalWraps ==
    ASSUME NEW from \in Int, -3 * HalfTurn <= from, from <= HalfTurn,
           NEW width \in Nat, width < FullTurn
    PROVE  LET w == WrapLongitude(from)  e == WrapLongitude(from + width) IN
           /\ w \in -HalfTurn..HalfTurn /\ e \in -HalfTurn..HalfTurn
           /\ LongitudeSpan(w, e) = width
           /\ \A lon \in -HalfTurn..HalfTurn, s, t \in Shifts :
                 from <= lon + s + t /\ lon + s + t <= from + width => OnArc(w, width, lon)
<1> DEFINE H == HalfTurn  w == WrapLongitude(from)  e == WrapLongitude(from + width)
<1>1. H \in Nat \ {0} /\ FullTurn = H + H
  BY GlobeShape
<1>2. w = IF from < -H THEN from + (H + H) ELSE from
  BY <1>1, WrapIs
<1>3. e = IF from + width > H THEN from + width - (H + H)
          ELSE IF from + width < -H THEN from + width + (H + H) ELSE from + width
  BY <1>1, WrapIs
<1> HIDE DEF w, e, H
<1>4. /\ w \in Int /\ e \in Int /\ -H <= w /\ w <= H /\ -H <= e /\ e <= H
      /\ (IF e >= w THEN e - w ELSE H + H - w + e) = width
  BY <1>1, <1>2, <1>3 DEF H
<1>5. LongitudeSpan(w, e) = width
  BY <1>1, <1>4 DEF LongitudeSpan
<1>6. ASSUME NEW lon \in -H..H, NEW s \in Shifts, NEW t \in Shifts,
             from <= lon + s + t, lon + s + t <= from + width
      PROVE  OnArc(w, width, lon)
  <2>1. /\ s \in Int /\ t \in Int /\ lon \in Int /\ -H <= lon /\ lon <= H
        /\ s = 0 \/ s = H + H \/ s = -(H + H)
        /\ t = 0 \/ t = H + H \/ t = -(H + H)
    BY <1>1, GlobeShape DEF H
  <2> DEFINE turn == IF from < -H THEN s + t + (H + H) ELSE s + t
  <2>2. turn \in Int /\ w <= lon + turn /\ lon + turn <= w + width
    BY <1>1, <1>2, <1>6, <2>1
  <2>3. turn = 0 \/ turn = H + H \/ turn = -(H + H)
    BY <1>1, <1>4, <1>6, <2>1, <2>2
  <2>4. turn \in Shifts
    BY <2>3, GlobeShape DEF H
  <2> QED BY <2>2, <2>4 DEF OnArc
<1>7. QED
  BY <1>4, <1>5, <1>6 DEF w, e, H

\* The union of two boxes holds both, and is as wide as the narrowest interval that does.
LEMMA UnionShape ==
    ASSUME NEW a, NEW b, BoxShape(a), BoxShape(b)
    PROVE  LET u == UnionBbox(a, b) IN
           /\ BoxShape(u)
           /\ u.south <= a.south /\ u.south <= b.south /\ a.north <= u.north /\ b.north <= u.north
           /\ \E s \in Shifts : /\ \A t \in Shifts : HullWidth(a, b, s) <= HullWidth(a, b, t)
                                /\ Width(u) = Lower(HullWidth(a, b, s), FullTurn)
           /\ \A lon \in -HalfTurn..HalfTurn :
                 OnArc(a.west, Width(a), lon) \/ OnArc(b.west, Width(b), lon)
                    => OnArc(u.west, Width(u), lon)
<1> DEFINE H == HalfTurn  u == UnionBbox(a, b)
<1>1. H \in Nat \ {0} /\ FullTurn = H + H
  BY GlobeShape
<1>2. PICK s \in Shifts :
         LET west == WrapLongitude(HullFrom(a, b, s))
             east == WrapLongitude(HullTo(a, b, s))
             width == HullWidth(a, b, s)
         IN /\ \A t \in Shifts : width <= HullWidth(a, b, t)
            /\ HullOf(a, b) =
                 CASE width >= FullTurn -> <<-H, H>>
                   [] width = 0 /\ west \in {-H, H} -> <<H, -H>>
                   [] OTHER -> <<west, east>>
  BY HullIsOne
<1> DEFINE from == HullFrom(a, b, s)  to == HullTo(a, b, s)  width == HullWidth(a, b, s)
           west == WrapLongitude(from)  east == WrapLongitude(to)
<1>3. /\ from \in Int /\ to \in Int /\ width \in Nat /\ to = from + width
      /\ -3 * HalfTurn <= from /\ from <= HalfTurn
      /\ from <= a.west /\ a.west + Width(a) <= to
      /\ from <= b.west + s /\ b.west + s + Width(b) <= to
  <2>1. /\ from \in Int /\ to \in Int /\ width \in Nat /\ width = to - from
        /\ -3 * HalfTurn <= from /\ from <= HalfTurn
        /\ from <= a.west /\ a.west + Width(a) <= to
        /\ from <= b.west + s /\ b.west + s + Width(b) <= to
    BY HullShape DEF HullWidth
  <2> HIDE DEF from, to, width
  <2> QED BY <2>1
<1>4. HullOf(a, b) = CASE width >= FullTurn -> <<-H, H>>
                       [] width = 0 /\ west \in {-H, H} -> <<H, -H>>
                       [] OTHER -> <<west, east>>
  BY <1>2
<1>5. /\ u = [north |-> Higher(a.north, b.north), south |-> Lower(a.south, b.south),
             west |-> HullOf(a, b)[1], east |-> HullOf(a, b)[2]]
      /\ a.north \in Int /\ b.north \in Int /\ a.south \in Int /\ b.south \in Int
      /\ -Pole <= a.south /\ a.south <= a.north /\ a.north <= Pole /\ Pole \in Nat
      /\ -Pole <= b.south /\ b.south <= b.north /\ b.north <= Pole
      /\ a.west \in Int /\ b.west \in Int /\ Width(a) \in Nat /\ Width(b) \in Nat
  BY GlobeShape, WidthShape DEF UnionBbox, BoxShape
<1>6. /\ u.north \in Int /\ u.south \in Int /\ -Pole <= u.south /\ u.south <= u.north /\ u.north <= Pole
      /\ u.south <= a.south /\ u.south <= b.south /\ a.north <= u.north /\ b.north <= u.north
  BY <1>5 DEF Lower, Higher
<1> HIDE DEF from, to, width, west, east
<1>7. SUFFICES /\ u.west \in -H..H /\ u.east \in -H..H
               /\ Width(u) = Lower(width, FullTurn)
               /\ \A lon \in -H..H :
                     OnArc(a.west, Width(a), lon) \/ OnArc(b.west, Width(b), lon)
                        => OnArc(u.west, Width(u), lon)
  <2> DEFINE P == /\ u.west \in -H..H /\ u.east \in -H..H
                  /\ Width(u) = Lower(width, FullTurn)
                  /\ \A lon \in -H..H :
                       OnArc(a.west, Width(a), lon) \/ OnArc(b.west, Width(b), lon)
                          => OnArc(u.west, Width(u), lon)
  <2>1. P => BoxShape(u)
    BY <1>1, <1>5, <1>6 DEF BoxShape
  <2> QED BY <1>2, <1>6, <2>1 DEF width
<1>8. ASSUME NEW lon \in -H..H, OnArc(a.west, Width(a), lon) \/ OnArc(b.west, Width(b), lon)
      PROVE  \E p, q \in Shifts : from <= lon + p + q /\ lon + p + q <= from + width
  <2>1. s \in Int /\ 0 \in Shifts /\ Shifts \subseteq Int /\ lon \in Int
        /\ \A p \in Shifts : -p \in Shifts
    BY <1>1, GlobeShape
  <2>2. CASE OnArc(a.west, Width(a), lon)
    <3>1. PICK p \in Shifts : a.west <= lon + p /\ lon + p <= a.west + Width(a)
      BY <2>2 DEF OnArc
    <3>2. from <= lon + p + 0 /\ lon + p + 0 <= from + width
      BY <1>3, <1>5, <2>1, <3>1
    <3> QED BY <2>1, <3>2
  <2>3. CASE OnArc(b.west, Width(b), lon)
    <3>1. PICK p \in Shifts : b.west <= lon + p /\ lon + p <= b.west + Width(b)
      BY <2>3 DEF OnArc
    <3>2. from <= lon + p + s /\ lon + p + s <= from + width
      BY <1>3, <1>5, <2>1, <3>1
    <3> QED BY <3>2
  <2> QED BY <1>8, <2>2, <2>3
<1>9. CASE width >= FullTurn
  <2>1. HullOf(a, b) = <<-H, H>>
    <3>1. width # 0
      BY <1>1, <1>3, <1>9
    <3> QED BY <1>4, <1>9, <3>1
  <2>2. u.west = -H /\ u.east = H
    BY <1>5, <2>1
  <2>3. Width(u) = H + H
    BY <1>1, <2>2 DEF Width, LongitudeSpan
  <2>4. Lower(width, FullTurn) = H + H
    BY <1>1, <1>3, <1>9 DEF Lower
  <2>5. \A lon \in -H..H : OnArc(-H, H + H, lon)
    <3>1. \A lon \in -H..H : -H <= lon + 0 /\ lon + 0 <= -H + (H + H)
      BY <1>1
    <3> HIDE DEF H
    <3> QED BY <3>1, GlobeShape DEF OnArc
  <2> QED BY <1>1, <2>2, <2>3, <2>4, <2>5
<1>10. CASE width < FullTurn
  <2>1. /\ west \in -H..H /\ east \in -H..H /\ LongitudeSpan(west, east) = width
        /\ \A lon \in -H..H, p, q \in Shifts :
              from <= lon + p + q /\ lon + p + q <= from + width => OnArc(west, width, lon)
    BY <1>3, <1>10, IntervalWraps DEF west, east
  <2>2. ASSUME NEW lon \in -H..H, OnArc(a.west, Width(a), lon) \/ OnArc(b.west, Width(b), lon)
        PROVE  OnArc(west, width, lon)
    BY <1>8, <2>1, <2>2
  <2>3. Lower(width, FullTurn) = width
    BY <1>10 DEF Lower
  <2>4. CASE width = 0 /\ west \in {-H, H}
    <3>1. HullOf(a, b) = <<H, -H>>
      BY <1>1, <1>4, <2>4
    <3>2. u.west = H /\ u.east = -H
      BY <1>5, <3>1
    <3>3. Width(u) = 0
      BY <1>1, <3>2 DEF Width, LongitudeSpan
    <3>4. ASSUME NEW lon \in -H..H, OnArc(west, 0, lon) PROVE OnArc(H, 0, lon)
      <4>1. PICK p \in Shifts : west <= lon + p /\ lon + p <= west + 0
        BY <3>4 DEF OnArc
      <4>2. lon = H \/ lon = -H
        BY <1>1, <2>4, <4>1, GlobeShape
      <4>3. CASE lon = H
        <5>1. H <= lon + 0 /\ lon + 0 <= H + 0 /\ 0 \in Shifts
          BY <1>1, <4>3, GlobeShape
        <5> HIDE DEF H
        <5> QED BY <5>1 DEF OnArc
      <4>4. CASE lon = -H
        <5>1. H <= lon + (H + H) /\ lon + (H + H) <= H + 0 /\ (H + H) \in Shifts
          BY <1>1, <4>4, GlobeShape
        <5> HIDE DEF H
        <5> QED BY <5>1 DEF OnArc
      <4> QED BY <4>2, <4>3, <4>4
    <3> QED BY <1>1, <2>2, <2>3, <2>4, <3>2, <3>3, <3>4
  <2>5. CASE ~(width = 0 /\ west \in {-H, H})
    <3>1. HullOf(a, b) = <<west, east>>
      BY <1>1, <1>3, <1>4, <1>10, <2>5
    <3>2. u.west = west /\ u.east = east
      BY <1>5, <3>1
    <3>3. Width(u) = width
      BY <2>1, <3>2 DEF Width
    <3> QED BY <2>1, <2>2, <2>3, <3>2, <3>3
  <2> QED BY <2>4, <2>5
<1>11. QED
  BY <1>1, <1>3, <1>9, <1>10

\* How far the corners of a circle's box lie from its centre.
LEMMA ReachShape ==
    ASSUME NEW p \in Places, NEW r \in Radii
    PROVE  /\ Reach(p, r).west \in Nat /\ Reach(p, r).east \in Nat
           /\ Reach(p, r).west <= HalfTurn /\ Reach(p, r).west + Reach(p, r).east < FullTurn
           /\ ClearOfPoles(p, r) => Reach(p, r).west = r /\ Reach(p, r).east = r
<1> DEFINE half == HalfTurn \div 2  quarter == HalfTurn \div 4
<1>1. /\ HalfTurn \in Nat \ {0} /\ FullTurn = HalfTurn + HalfTurn /\ r \in Nat /\ r < HalfTurn
  BY BoxConstants, GlobeShape
<1>2. /\ half \in Nat /\ quarter \in Nat
      /\ half + half <= HalfTurn /\ quarter + quarter + quarter + quarter <= HalfTurn
  BY <1>1
<1>3. CASE ClearOfPoles(p, r)
  <2>1. Reach(p, r) = [west |-> r, east |-> r]
    BY <1>3 DEF Reach
  <2> QED BY <1>1, <2>1
<1>4. CASE ~ClearOfPoles(p, r)
  <2>1. \/ Reach(p, r).west = half /\ Reach(p, r).east = quarter
        \/ Reach(p, r).west = quarter /\ Reach(p, r).east = half
    BY <1>4 DEF Reach
  <2> HIDE DEF half, quarter
  <2> QED BY <1>1, <1>2, <1>4, <2>1
<1>5. QED
  BY <1>3, <1>4

\* The box of a circle is a box, and that of one clear of the poles holds the square
\* about it.
LEMMA PositionShape ==
    ASSUME NEW p \in Places, NEW r \in Radii
    PROVE  /\ BoxShape(PositionToBbox(p, r))
           /\ PositionToBbox(p, r).north - PositionToBbox(p, r).south <= 2 * r
           /\ ClearOfPoles(p, r) => CoversCircle(PositionToBbox(p, r), p, r)
<1> DEFINE H == HalfTurn  b == PositionToBbox(p, r)
           w == Reach(p, r).west  e == Reach(p, r).east
<1>1. /\ H \in Nat \ {0} /\ FullTurn = H + H /\ Pole \in Nat /\ Pole <= H
      /\ r \in Nat /\ r < Pole /\ p[1] \in -H..H /\ p[2] \in -Pole..Pole
  BY BoxConstants, GlobeShape
<1>2. /\ b.north = IF ~ClearOfPoles(p, r) /\ p[2] > 0 THEN Pole - r ELSE p[2] + r
      /\ b.south = IF ~ClearOfPoles(p, r) /\ p[2] <= 0 THEN r - Pole ELSE p[2] - r
      /\ b.west = WrapLongitude(p[1] - w) /\ b.east = WrapLongitude(p[1] + e)
      /\ b = [north |-> b.north, south |-> b.south, west |-> b.west, east |-> b.east]
  BY DEF PositionToBbox
<1>3. /\ w \in Nat /\ e \in Nat /\ w <= H /\ w + e < FullTurn
      /\ ClearOfPoles(p, r) => w = r /\ e = r
  BY ReachShape
<1> HIDE DEF w, e
<1>4. /\ b.north \in Int /\ b.south \in Int
      /\ -Pole <= b.south /\ b.south <= b.north /\ b.north <= Pole
      /\ b.north - b.south <= 2 * r
      /\ ClearOfPoles(p, r) =>
            \A lat \in -Pole..Pole : lat - p[2] \in -r..r => b.south <= lat /\ lat <= b.north
  <2>1. ClearOfPoles(p, r) <=> r = 0 \/ (p[2] + r < Pole /\ -Pole < p[2] - r)
    BY DEF ClearOfPoles
  <2>2. /\ p[2] \in Int /\ -Pole <= p[2] /\ p[2] <= Pole
    BY <1>1
  <2> HIDE DEF b
  <2>3. CASE ClearOfPoles(p, r)
    <3>1. b.north = p[2] + r /\ b.south = p[2] - r
      BY <1>2, <2>3
    <3>2. r \in Nat /\ Pole \in Nat /\ -Pole <= p[2] - r /\ p[2] + r <= Pole
      BY <1>1, <2>1, <2>2, <2>3
    <3>3. \A lat \in -Pole..Pole : lat - p[2] \in -r..r => p[2] - r <= lat /\ lat <= p[2] + r
      BY <2>2, <3>2
    <3>4. p[2] + r \in Int /\ p[2] - r \in Int /\ p[2] - r <= p[2] + r
          /\ (p[2] + r) - (p[2] - r) <= 2 * r
      BY <2>2, <3>2
    <3> QED BY <3>1, <3>2, <3>3, <3>4
  <2>4. CASE ~ClearOfPoles(p, r)
    BY <1>1, <1>2, <2>1, <2>2, <2>4
  <2> QED BY <2>3, <2>4
<1>5. /\ b.west \in -H..H /\ b.east \in -H..H /\ Width(b) = w + e
      /\ \A lon \in -H..H, s, t \in Shifts :
            p[1] - w <= lon + s + t /\ lon + s + t <= p[1] + e => OnArc(b.west, w + e, lon)
  <2> DEFINE from == p[1] - w  width == w + e
  <2>1. /\ from \in Int /\ -3 * HalfTurn <= from /\ from <= HalfTurn
        /\ width \in Nat /\ width < FullTurn /\ p[1] + e = from + width
    <3>1. p[1] \in Int /\ -H <= p[1] /\ p[1] <= H /\ H \in Nat
      BY <1>1
    <3> QED BY <1>3, <3>1
  <2>2. b.west = WrapLongitude(from) /\ b.east = WrapLongitude(from + width)
    BY <1>2, <2>1
  <2> HIDE DEF from, width
  <2>3. LET x == WrapLongitude(from)  y == WrapLongitude(from + width) IN
           /\ x \in -HalfTurn..HalfTurn /\ y \in -HalfTurn..HalfTurn
           /\ LongitudeSpan(x, y) = width
           /\ \A lon \in -HalfTurn..HalfTurn, s, t \in Shifts :
                 from <= lon + s + t /\ lon + s + t <= from + width => OnArc(x, width, lon)
    BY <2>1, IntervalWraps
  <2>4. /\ b.west \in -H..H /\ b.east \in -H..H /\ Width(b) = width
        /\ \A lon \in -H..H, s, t \in Shifts :
              from <= lon + s + t /\ lon + s + t <= p[1] + e => OnArc(b.west, width, lon)
    BY <2>1, <2>2, <2>3 DEF Width
  <2> QED BY <2>4 DEF from, width
<1>6. BoxShape(b)
  BY <1>2, <1>4, <1>5 DEF BoxShape
<1>7. ASSUME ClearOfPoles(p, r), NEW dx \in -r..r, NEW lat \in -Pole..Pole, lat - p[2] \in -r..r
      PROVE  Covers(b, WrapLongitude(p[1] + dx), lat)
  <2> DEFINE lon == WrapLongitude(p[1] + dx)
  <2>1. /\ lon \in -H..H /\ 0 \in Shifts /\ H + H \in Shifts /\ -(H + H) \in Shifts
        /\ lon = p[1] + dx \/ lon + (H + H) = p[1] + dx \/ lon + (-(H + H)) = p[1] + dx
    BY <1>1, WrapIs, GlobeShape
  <2> HIDE DEF lon
  <2>2. \E s \in Shifts : lon + s + 0 = p[1] + dx
    BY <1>1, <2>1
  <2>3. PICK s \in Shifts : lon + s + 0 = p[1] + dx
    BY <2>2
  <2>4. p[1] - w <= lon + s + 0 /\ lon + s + 0 <= p[1] + e
    BY <1>1, <1>3, <1>7, <2>3
  <2>5. OnArc(b.west, w + e, lon)
    BY <1>5, <2>1, <2>4
  <2>6. lon \in -HalfTurn..HalfTurn /\ lat \in Int /\ b.south <= lat /\ lat <= b.north
    BY <1>4, <1>7, <2>1
  <2>7. Covers(b, lon, lat)
    BY <1>5, <1>6, <2>5, <2>6, CoversIsOnArc
  <2> QED BY <2>7 DEF lon
<1>8. QED
  BY <1>4, <1>6, <1>7 DEF CoversCircle

\* A union covers what either of its boxes covers.
LEMMA UnionCovers ==
    ASSUME NEW a, NEW b, BoxShape(a), BoxShape(b), NEW lon \in -HalfTurn..HalfTurn, NEW lat \in Int,
           Covers(a, lon, lat) \/ Covers(b, lon, lat)
    PROVE  Covers(UnionBbox(a, b), lon, lat)
<1> DEFINE u == UnionBbox(a, b)
<1>1. /\ BoxShape(u)
      /\ u.south <= a.south /\ u.south <= b.south /\ a.north <= u.north /\ b.north <= u.north
      /\ OnArc(a.west, Width(a), lon) \/ OnArc(b.west, Width(b), lon) => OnArc(u.west, Width(u), lon)
  BY UnionShape
<1>2. u.south <= lat /\ lat <= u.north
  BY <1>1, CoversIsOnArc DEF BoxShape
<1>3. OnArc(a.west, Width(a), lon) \/ OnArc(b.west, Width(b), lon)
  BY CoversIsOnArc
<1> HIDE DEF u
<1>4. Covers(u, lon, lat)
  BY <1>1, <1>2, <1>3, CoversIsOnArc
<1>5. QED
  BY <1>4 DEF u

-----------------------------------------------------------------------------
(* The box of a tick. *)

BoxInv ==
    /\ box = NoBox \/ BoxShape(box)
    /\ box = NoBox => around = {}
    /\ around \subseteq Places \X Radii
    /\ BoxCoversZones

\* No box is not a box.
LEMMA NoBoxApart == ASSUME NEW b, BoxShape(b) PROVE b # NoBox
BY BoxConstants DEF BoxShape

\* There is no box at first.
LEMMA BoxInvInit == BoxInit => BoxInv
BY DEF BoxInit, BoxInv, BoxCoversZones

\* A circle more is held by the box, with those before it.
LEMMA WidenKeeps ==
    ASSUME BoxInv, NEW p \in Places, NEW r \in Radii, Widen(p, r)
    PROVE  BoxInv'
<1> DEFINE other == PositionToBbox(p, r)
<1>1. /\ box' = IF box = NoBox THEN other ELSE UnionBbox(box, other)
      /\ around' = around \cup {<<p, r>>}
  BY DEF Widen
<1>2. BoxShape(other) /\ (ClearOfPoles(p, r) => CoversCircle(other, p, r))
  BY PositionShape
<1> HIDE DEF other
<1>3. BoxShape(box')
  BY <1>1, <1>2, UnionShape DEF BoxInv
<1>4. ASSUME NEW lon \in -HalfTurn..HalfTurn, NEW lat \in Int,
             (box # NoBox /\ Covers(box, lon, lat)) \/ Covers(other, lon, lat)
      PROVE  Covers(box', lon, lat)
  <2>1. CASE box = NoBox
    BY <1>1, <1>4, <2>1
  <2>2. CASE box # NoBox
    BY <1>1, <1>2, <1>4, <2>2, UnionCovers DEF BoxInv
  <2> QED BY <2>1, <2>2
<1>5. ASSUME NEW c \in around', ClearOfPoles(c[1], c[2]),
             NEW dx \in -c[2]..c[2], NEW lat \in -Pole..Pole, lat - c[1][2] \in -c[2]..c[2]
      PROVE  Covers(box', WrapLongitude(c[1][1] + dx), lat)
  <2>1. c \in Places \X Radii
    BY <1>1 DEF BoxInv
  <2> DEFINE x == c[1][1] + dx
  <2>2. WrapLongitude(x) \in -HalfTurn..HalfTurn /\ lat \in Int
    <3>1. /\ c[1][1] \in -HalfTurn..HalfTurn /\ c[2] \in 0..HalfTurn-1
          /\ HalfTurn \in Nat \ {0} /\ FullTurn = HalfTurn + HalfTurn /\ Pole \in Nat
      <4>1. c[1] \in Places /\ c[2] \in Radii
        BY <2>1
      <4>2. c[2] \in 0..Pole-1 /\ Pole \in Nat /\ Pole <= HalfTurn
        BY <4>1, BoxConstants
      <4>3. c[1][1] \in -HalfTurn..HalfTurn
        BY <4>1, BoxConstants
      <4> QED BY <4>2, <4>3, GlobeShape
    <3>2. x \in Int /\ -3 * HalfTurn <= x /\ x <= 3 * HalfTurn
      BY <3>1
    <3> HIDE DEF x
    <3>3. WrapLongitude(x) = IF x > HalfTurn THEN x - FullTurn
                             ELSE IF x < -HalfTurn THEN x + FullTurn ELSE x
      BY <3>2, WrapIs
    <3> QED BY <3>1, <3>2, <3>3
  <2>3. CASE c = <<p, r>>
    <3>1. Covers(other, WrapLongitude(x), lat)
      BY <1>2, <1>5, <2>3 DEF CoversCircle
    <3> QED BY <1>4, <2>2, <3>1
  <2>4. CASE c \in around
    <3>1. box # NoBox /\ Covers(box, WrapLongitude(x), lat)
      BY <1>5, <2>4 DEF BoxInv, BoxCoversZones, CoversCircle
    <3> QED BY <1>4, <2>2, <3>1
  <2> QED BY <1>1, <2>3, <2>4
<1>6. BoxCoversZones'
  BY <1>5 DEF BoxCoversZones, CoversCircle, Covers, ContainsPoint
<1>7. around' \subseteq Places \X Radii
  BY <1>1 DEF BoxInv
<1>8. QED
  BY <1>3, <1>6, <1>7, NoBoxApart DEF BoxInv

\* Every step keeps the invariant.
LEMMA BoxInvStep == BoxInv /\ [BoxNext]_boxVars => BoxInv'
<1> SUFFICES ASSUME BoxInv, [BoxNext]_boxVars PROVE BoxInv'
  OBVIOUS
<1>1. CASE Request
  BY <1>1 DEF Request, BoxInv, BoxCoversZones
<1>2. CASE UNCHANGED boxVars
  <2>1. box' = box /\ around' = around
    BY <1>2 DEF boxVars
  <2>2. BoxShape(box)' <=> BoxShape(box)
    BY <2>1 DEF BoxShape
  <2>3. BoxCoversZones' <=> BoxCoversZones
    BY <2>1 DEF BoxCoversZones, CoversCircle, Covers, ContainsPoint
  <2> QED BY <2>1, <2>2, <2>3 DEF BoxInv
<1>3. QED
  BY <1>1, <1>2, WidenKeeps DEF BoxNext

\* No interval that spans two boxes is narrower than their union.
LEMMA UnionNarrowest ==
    ASSUME NEW a, NEW b, BoxShape(a), BoxShape(b), NEW c, BoxShape(c), Spans(c, a), Spans(c, b)
    PROVE  Width(UnionBbox(a, b)) <= Width(c)
<1> DEFINE H == HalfTurn  u == UnionBbox(a, b)
<1>1. /\ H \in Nat \ {0} /\ FullTurn = H + H
      /\ Width(a) \in Nat /\ Width(b) \in Nat /\ Width(c) \in Nat /\ Width(c) <= H + H
      /\ a.west \in Int /\ -H <= a.west /\ a.west <= H
      /\ b.west \in Int /\ -H <= b.west /\ b.west <= H
      /\ c.west \in Int /\ -H <= c.west /\ c.west <= H
  BY GlobeShape, WidthShape DEF BoxShape
<1>2. PICK s \in Shifts : /\ \A t \in Shifts : HullWidth(a, b, s) <= HullWidth(a, b, t)
                         /\ Width(u) = Lower(HullWidth(a, b, s), FullTurn)
  BY UnionShape
<1>3. HullWidth(a, b, s) \in Nat
  BY HullShape
<1>4. CASE Width(c) = H + H
  BY <1>1, <1>2, <1>3, <1>4 DEF Lower
<1>5. CASE Width(c) < H + H
  <2>1. PICK p \in Shifts : c.west <= a.west + p /\ a.west + p + Width(a) <= c.west + Width(c)
    BY DEF Spans
  <2>2. PICK q \in Shifts : c.west <= b.west + q /\ b.west + q + Width(b) <= c.west + Width(c)
    BY DEF Spans
  <2>3. /\ p \in Int /\ (p = 0 \/ p = H + H \/ p = -(H + H))
        /\ q \in Int /\ (q = 0 \/ q = H + H \/ q = -(H + H))
    BY <1>1, GlobeShape
  <2>4. q - p = 0 \/ q - p = H + H \/ q - p = -(H + H)
    <3> HIDE DEF H
    <3> QED BY <1>1, <1>5, <2>1, <2>2, <2>3
  <2>5. q - p \in Shifts
    BY <2>4, GlobeShape
  <2>6. HullWidth(a, b, q - p) <= Width(c)
    <3>1. /\ c.west - p <= a.west /\ a.west + Width(a) <= c.west - p + Width(c)
          /\ c.west - p <= b.west + (q - p)
          /\ b.west + Width(b) + (q - p) <= c.west - p + Width(c)
      BY <1>1, <2>1, <2>2, <2>3
    <3>2. \A x, y, z \in Int : /\ z <= x /\ z <= y => z <= Lower(x, y)
                               /\ x <= z /\ y <= z => Higher(x, y) <= z
      BY DEF Lower, Higher
    <3>3. /\ c.west - p <= HullFrom(a, b, q - p)
          /\ HullTo(a, b, q - p) <= c.west - p + Width(c)
      BY <1>1, <2>3, <3>1, <3>2 DEF HullFrom, HullTo
    <3>4. HullFrom(a, b, q - p) \in Int /\ HullTo(a, b, q - p) \in Int
      BY <2>5, HullShape
    <3> QED BY <1>1, <2>3, <3>3, <3>4 DEF HullWidth
  <2>7. HullWidth(a, b, q - p) \in Nat /\ HullWidth(a, b, s) <= HullWidth(a, b, q - p)
    BY <1>2, <2>5, HullShape
  <2> QED BY <1>1, <1>2, <1>3, <2>6, <2>7 DEF Lower
<1>6. QED
  BY <1>1, <1>4, <1>5

\* A box with other edges to its west and east.
LEMMA BoxMoved ==
    ASSUME NEW b, BoxShape(b), NEW w \in -HalfTurn..HalfTurn, NEW e \in -HalfTurn..HalfTurn
    PROVE  LET c == [b EXCEPT !.west = w, !.east = e] IN
           BoxShape(c) /\ c.west = w /\ c.east = e /\ c.south = b.south /\ c.north = b.north
<1> DEFINE c == [b EXCEPT !.west = w, !.east = e]
<1>1. b \in [north : Int, south : Int, west : Int, east : Int] /\ w \in Int /\ e \in Int
  BY GlobeShape DEF BoxShape
<1>2. c \in [north : Int, south : Int, west : Int, east : Int]
  BY <1>1
<1>3. c.west = w
  BY <1>1
<1>4. c.east = e
  BY <1>1
<1>5. c.south = b.south
  BY <1>1
<1>6. c.north = b.north
  BY <1>1
<1> HIDE DEF c
<1>7. BoxShape(c)
  BY <1>2, <1>3, <1>4, <1>5, <1>6 DEF BoxShape
<1>8. QED
  BY <1>3, <1>4, <1>5, <1>6, <1>7 DEF c

\* The box of a tick grows by no more than it must.
LEMMA BoxInvNarrowest == BoxInv => UnionIsNarrowest
<1> SUFFICES ASSUME BoxInv, box # NoBox, NEW p \in Places, NEW r \in Radii,
                    NEW w \in -HalfTurn..HalfTurn, NEW e \in -HalfTurn..HalfTurn
             PROVE  LET other == PositionToBbox(p, r)
                        union == UnionBbox(box, other)
                        b == [union EXCEPT !.west = w, !.east = e]
                    IN Spans(b, box) /\ Spans(b, other) => Width(union) <= Width(b)
  BY DEF UnionIsNarrowest
<1> DEFINE other == PositionToBbox(p, r)
           union == UnionBbox(box, other)
           b == [union EXCEPT !.west = w, !.east = e]
<1>1. BoxShape(box) /\ BoxShape(other) /\ BoxShape(union)
  BY PositionShape, UnionShape DEF BoxInv
<1>2. BoxShape(b)
  <2> HIDE DEF union
  <2> QED BY <1>1, BoxMoved
<1> HIDE DEF other, b
<1>3. Spans(b, box) /\ Spans(b, other) => Width(union) <= Width(b)
  BY <1>1, <1>2, UnionNarrowest
<1>4. QED
  BY <1>3 DEF other, b

-----------------------------------------------------------------------------
(* What upstreams are asked for instead of the box. *)

\* A box the right way up, wherever on the globe its edges are put.
Upright(b) ==
    /\ b.south \in Int /\ b.north \in Int /\ b.south <= b.north
    /\ b.west \in -HalfTurn..HalfTurn /\ b.east \in -HalfTurn..HalfTurn

\* A box is the right way up.
LEMMA ShapeIsUpright == ASSUME NEW b, BoxShape(b) PROVE Upright(b)
BY GlobeShape DEF BoxShape, Upright

\* The meridians of an ordinary box and of one that crosses the antimeridian.
LEMMA MeridiansAre ==
    ASSUME NEW b, Upright(b), NEW lon
    PROVE  LET edge == lon = HalfTurn \/ lon = -HalfTurn IN
           lon \in Meridians(b) <=>
              /\ lon \in -HalfTurn..HalfTurn
              /\ \/ /\ b.west <= b.east
                    /\ \/ b.west <= lon /\ lon <= b.east
                       \/ edge /\ (b.east = HalfTurn \/ b.west = -HalfTurn)
                 \/ b.west > b.east /\ (b.west <= lon \/ lon <= b.east \/ edge)
<1> DEFINE H == HalfTurn  w == b.west  e == b.east
<1>1. /\ H \in Nat \ {0} /\ w \in Int /\ -H <= w /\ w <= H /\ e \in Int /\ -H <= e /\ e <= H
      /\ b.south \in b.south..b.north
  BY GlobeShape DEF Upright
<1>2. lon \in Meridians(b) <=>
         lon \in -H..H /\ \E l \in SameMeridian(lon) :
                             IF w <= e THEN l \in w..e ELSE l >= w \/ l <= e
  BY <1>1 DEF Meridians, Covers, ContainsPoint
<1> HIDE DEF H, w, e
<1>3. CASE lon \in {-H, H}
  <2>1. SameMeridian(lon) = {-H, H}
    BY <1>3 DEF SameMeridian, H
  <2>2. lon \in Meridians(b) <=>
           \/ IF w <= e THEN H \in w..e ELSE H >= w \/ H <= e
           \/ IF w <= e THEN -H \in w..e ELSE -H >= w \/ -H <= e
    BY <1>1, <1>2, <1>3, <2>1
  <2> QED BY <1>1, <1>3, <2>2 DEF H, w, e
<1>4. CASE lon \notin {-H, H}
  <2>1. SameMeridian(lon) = {lon}
    BY <1>4 DEF SameMeridian, H
  <2>2. lon \in Meridians(b) <=>
           lon \in -H..H /\ (IF w <= e THEN lon \in w..e ELSE lon >= w \/ lon <= e)
    BY <1>2, <2>1
  <2> QED BY <1>1, <1>4, <2>2 DEF H, w, e
<1>5. QED
  BY <1>3, <1>4

\* The middle half of an interval that is too wide lies within it.
LEMMA ClampSpanIs ==
    ASSUME NEW low \in Int, NEW high \in Int, low <= high
    PROVE  /\ ClampSpan(low, high)[1] \in Int /\ ClampSpan(low, high)[2] \in Int
           /\ low <= ClampSpan(low, high)[1] /\ ClampSpan(low, high)[2] <= high
           /\ ClampSpan(low, high)[2] - ClampSpan(low, high)[1] = Lower(high - low, MaxSpan)
           /\ ClampSpan(low, high)[1] + ClampSpan(low, high)[2] - (low + high) \in {-1, 0}
<1> DEFINE middle == (low + high) \div 2  half == MaxSpan \div 2  rest == (low + high) % 2
<1>1. MaxSpan \in Nat /\ MaxSpan = half + half /\ half \in Nat
  <2>1. MaxSpan \in Nat /\ MaxSpan % 2 = 0
    BY BoxConstants
  <2> QED BY <2>1
<1>2. middle \in Int /\ rest \in {0, 1} /\ low + high = middle + middle + rest
  OBVIOUS
<1>3. ClampSpan(low, high) = IF high - low <= MaxSpan THEN <<low, high>>
                             ELSE <<middle - half, middle + half>>
  BY DEF ClampSpan
<1> HIDE DEF middle, half, rest
<1>4. CASE high - low <= MaxSpan
  BY <1>1, <1>3, <1>4 DEF Lower
<1>5. CASE ~(high - low <= MaxSpan)
  <2>1. ClampSpan(low, high)[1] = middle - half /\ ClampSpan(low, high)[2] = middle + half
    BY <1>3, <1>5
  <2>2. Lower(high - low, MaxSpan) = MaxSpan
    BY <1>1, <1>5 DEF Lower
  <2> QED BY <1>1, <1>2, <1>5, <2>1, <2>2
<1>6. QED
  BY <1>4, <1>5

\* An arc of longitude is clamped about its middle, on whichever side that comes to lie.
LEMMA ClampArc ==
    ASSUME NEW w \in -HalfTurn..HalfTurn, NEW e \in -HalfTurn..HalfTurn
    PROVE  LET c == ClampLongitudeSpan(w, e) IN
           /\ c[1] \in -HalfTurn..HalfTurn /\ c[2] \in -HalfTurn..HalfTurn
           /\ LongitudeSpan(c[1], c[2]) = Lower(LongitudeSpan(w, e), MaxSpan)
           /\ \A lon \in -HalfTurn..HalfTurn :
                 OnArc(c[1], LongitudeSpan(c[1], c[2]), lon) => OnArc(w, LongitudeSpan(w, e), lon)
<1> DEFINE H == HalfTurn  M == MaxSpan  span == LongitudeSpan(w, e)  c == ClampLongitudeSpan(w, e)
<1>1. /\ H \in Nat \ {0} /\ FullTurn = H + H /\ M \in Nat
      /\ w \in Int /\ -H <= w /\ w <= H /\ e \in Int /\ -H <= e /\ e <= H
      /\ \A s : s \in Shifts <=> s = 0 \/ s = H + H \/ s = -(H + H)
  BY GlobeShape
<1>2. span = IF e >= w THEN e - w ELSE H + H - w + e
  BY <1>1 DEF LongitudeSpan
<1>3. ASSUME NEW from \in Int, NEW width \in Int, w <= from, from + width <= w + span,
             NEW lon \in -H..H, OnArc(from, width, lon)
      PROVE  OnArc(w, span, lon)
  <2>1. PICK s \in Shifts : from <= lon + s /\ lon + s <= from + width
    BY <1>3 DEF OnArc
  <2>2. w <= lon + s /\ lon + s <= w + span
    BY <1>1, <1>2, <1>3, <2>1
  <2> QED BY <2>2 DEF OnArc
<1>4. CASE span <= M
  <2>1. c = <<w, e>>
    BY <1>4 DEF ClampLongitudeSpan
  <2>2. span \in Int
    BY <1>1, <1>2
  <2> HIDE DEF c, span
  <2>3. c[1] = w /\ c[2] = e
    BY <2>1
  <2>4. LongitudeSpan(c[1], c[2]) = span
    BY <2>3 DEF span
  <2>5. Lower(span, M) = span
    BY <1>1, <1>4, <2>2 DEF Lower
  <2> QED BY <2>3, <2>4, <2>5 DEF c, span
<1>5. CASE span > M /\ w <= e
  <2> DEFINE d == ClampSpan(w, e)
  <2>1. c = d
    BY <1>1, <1>2, <1>5 DEF ClampLongitudeSpan
  <2>2. d[1] \in Int /\ d[2] \in Int /\ w <= d[1] /\ d[2] <= e /\ d[2] - d[1] = M
    BY <1>1, <1>2, <1>5, ClampSpanIs DEF Lower
  <2> HIDE DEF d, c
  <2>3. LongitudeSpan(c[1], c[2]) = M /\ Lower(span, M) = M
    BY <1>1, <1>5, <2>1, <2>2 DEF LongitudeSpan, Lower
  <2>4. ASSUME NEW lon \in -H..H, OnArc(c[1], M, lon) PROVE OnArc(w, span, lon)
    BY <1>1, <1>2, <1>3, <1>5, <2>1, <2>2, <2>4
  <2>5. c[1] \in -H..H /\ c[2] \in -H..H
    BY <1>1, <1>5, <2>1, <2>2
  <2> QED BY <2>3, <2>4, <2>5 DEF c
<1>6. CASE span > M /\ w > e
  <2> DEFINE d == ClampSpan(w, e + FullTurn)  f == d[1]
  <2>1. c = <<WrapLongitude(d[1]), WrapLongitude(d[2])>>
    BY <1>1, <1>2, <1>6 DEF ClampLongitudeSpan
  <2>2. /\ e + FullTurn \in Int /\ w <= e + FullTurn /\ span = e + FullTurn - w
        /\ Lower(e + FullTurn - w, M) = M
    BY <1>1, <1>2, <1>6 DEF Lower
  <2>3. f \in Int /\ w <= f /\ f + M <= w + span /\ d[2] = f + M
    <3>1. d[1] \in Int /\ d[2] \in Int /\ w <= d[1] /\ d[2] <= e + FullTurn /\ d[2] - d[1] = M
      BY <1>1, <2>2, ClampSpanIs
    <3> HIDE DEF d
    <3> QED BY <1>1, <2>2, <3>1
  <2> HIDE DEF d, f
  <2>4. c[1] = WrapLongitude(f) /\ c[2] = WrapLongitude(f + M)
    BY <2>1, <2>3 DEF f
  <2> HIDE DEF c
  <2>5. w + span <= 3 * H /\ M < FullTurn /\ w + span = e + H + H
    BY <1>1, <1>2, <1>6
  <2>6. CASE f <= H
    <3>1. /\ c[1] \in -H..H /\ c[2] \in -H..H /\ LongitudeSpan(c[1], c[2]) = M
      <4>1. f \in Int /\ -3 * HalfTurn <= f /\ f <= HalfTurn /\ M \in Nat /\ M < FullTurn
        BY <1>1, <2>3, <2>5, <2>6
      <4> HIDE DEF H, M
      <4>2. LET x == WrapLongitude(f)  y == WrapLongitude(f + M) IN
            /\ x \in -HalfTurn..HalfTurn /\ y \in -HalfTurn..HalfTurn
            /\ LongitudeSpan(x, y) = M
        BY <4>1, IntervalWraps
      <4> QED BY <2>4, <4>2 DEF H
    <3>2. c[1] = f
      BY <1>1, <2>3, <2>4, <2>6, WrapIs
    <3>3. ASSUME NEW lon \in -H..H, OnArc(c[1], M, lon) PROVE OnArc(w, span, lon)
      BY <1>1, <1>3, <2>3, <3>2, <3>3
    <3> QED BY <2>2, <3>1, <3>3 DEF c
  <2>7. CASE f > H
    <3>1. c[1] = f - (H + H) /\ c[2] = f + M - (H + H)
      BY <1>1, <2>3, <2>4, <2>5, <2>7, WrapIs
    <3>2. c[1] \in -H..H /\ c[2] \in -H..H /\ c[1] <= c[2]
      BY <1>1, <2>3, <2>5, <2>7, <3>1
    <3>3. LongitudeSpan(c[1], c[2]) = M
      BY <1>1, <2>3, <3>1, <3>2 DEF LongitudeSpan
    <3>4. ASSUME NEW lon \in -H..H, OnArc(c[1], M, lon) PROVE OnArc(w, span, lon)
      <4>1. PICK s \in Shifts : f - (H + H) <= lon + s /\ lon + s <= f - (H + H) + M
        BY <3>1, <3>4 DEF OnArc
      <4>2. s \in Int /\ (s = 0 \/ s = -(H + H))
        BY <1>1, <1>6, <2>3, <2>5, <2>7, <4>1
      <4>3. w <= lon + (s + (H + H)) /\ lon + (s + (H + H)) <= w + span
        BY <1>1, <1>2, <2>3, <4>1, <4>2
      <4>4. s + (H + H) \in Shifts
        BY <1>1, <4>2
      <4> QED BY <4>3, <4>4 DEF OnArc
    <3> QED BY <2>2, <3>2, <3>3, <3>4 DEF c
  <2> QED BY <1>1, <2>3, <2>6, <2>7
<1>7. QED
  BY <1>1, <1>2, <1>4, <1>5, <1>6

\* The meridians of a box are those on its arc.
LEMMA MeridiansOnArc ==
    ASSUME NEW b, BoxShape(b)
    PROVE  Meridians(b) = {lon \in -HalfTurn..HalfTurn : OnArc(b.west, Width(b), lon)}
<1>1. b.south \in Int /\ b.north \in Int /\ b.south <= b.north
  BY DEF BoxShape
<1>2. \A lon \in -HalfTurn..HalfTurn : Covers(b, lon, b.south) <=> OnArc(b.west, Width(b), lon)
  BY <1>1, CoversIsOnArc
<1>3. QED
  BY <1>2 DEF Meridians

\* The clamped box lies within the box, is not too wide and keeps its middle.
LEMMA ClampIsSound ==
    ASSUME NEW b, BoxShape(b)
    PROVE  LET clamped == ClampBbox(b) IN
           /\ Meridians(clamped) \subseteq Meridians(b)
           /\ Width(clamped) = Lower(Width(b), MaxSpan)
           /\ clamped.south + clamped.north \in {b.south + b.north + d : d \in {-1, 0, 1}}
<1> DEFINE k == ClampBbox(b)  lats == ClampSpan(b.south, b.north)  lons == ClampLongitudeSpan(b.west, b.east)
<1>1. /\ b.south \in Int /\ b.north \in Int /\ b.south <= b.north /\ -Pole <= b.south /\ b.north <= Pole
      /\ b.west \in -HalfTurn..HalfTurn /\ b.east \in -HalfTurn..HalfTurn /\ Pole \in Nat /\ HalfTurn \in Nat
  BY GlobeShape DEF BoxShape
<1>2. k = [south |-> lats[1], north |-> lats[2], west |-> lons[1], east |-> lons[2]]
  BY DEF ClampBbox
<1>3. /\ lats[1] \in Int /\ lats[2] \in Int /\ b.south <= lats[1] /\ lats[2] <= b.north
      /\ lats[2] - lats[1] = Lower(b.north - b.south, MaxSpan)
      /\ lats[1] + lats[2] - (b.south + b.north) \in {-1, 0}
  BY <1>1, ClampSpanIs
<1>4. /\ lons[1] \in -HalfTurn..HalfTurn /\ lons[2] \in -HalfTurn..HalfTurn
      /\ LongitudeSpan(lons[1], lons[2]) = Lower(LongitudeSpan(b.west, b.east), MaxSpan)
      /\ \A lon \in -HalfTurn..HalfTurn :
            OnArc(lons[1], LongitudeSpan(lons[1], lons[2]), lon)
               => OnArc(b.west, LongitudeSpan(b.west, b.east), lon)
  BY <1>1, ClampArc
<1> HIDE DEF lats, lons
<1>5. k.south = lats[1] /\ k.north = lats[2] /\ k.west = lons[1] /\ k.east = lons[2]
  BY <1>2
<1>6. lats[1] <= lats[2]
  <2>1. b.north - b.south \in Nat /\ MaxSpan \in Nat
    BY <1>1, GlobeShape
  <2>2. Lower(b.north - b.south, MaxSpan) \in Nat
    BY <2>1 DEF Lower
  <2> QED BY <1>3, <2>2
<1>7. BoxShape(k)
  <2>1. k \in [north : Int, south : Int, west : Int, east : Int]
    BY <1>1, <1>2, <1>3, <1>4
  <2> HIDE DEF k
  <2> QED BY <1>1, <1>3, <1>4, <1>5, <1>6, <2>1 DEF BoxShape
<1> HIDE DEF k
<1>8. Width(k) = LongitudeSpan(lons[1], lons[2]) /\ Width(b) = LongitudeSpan(b.west, b.east)
  BY <1>5 DEF Width
<1>9. Meridians(k) \subseteq Meridians(b)
  BY <1>4, <1>5, <1>7, <1>8, MeridiansOnArc
<1>10. k.south + k.north \in {b.south + b.north + d : d \in {-1, 0, 1}}
  <2>1. \/ k.south + k.north = b.south + b.north + 0
        \/ k.south + k.north = b.south + b.north + (-1)
    BY <1>1, <1>3, <1>5
  <2> QED BY <2>1
<1>11. QED
  BY <1>4, <1>8, <1>9, <1>10 DEF k

\* The parts of a box that is split are ordinary, and cover the same.
LEMMA SplitIsSound ==
    ASSUME NEW b, BoxShape(b)
    PROVE  /\ UNION {Meridians(c) : c \in SplitEnvelope(b)} = Meridians(b)
           /\ \A c \in SplitEnvelope(b) : c.west <= c.east
<1> DEFINE H == HalfTurn
<1>1. /\ H \in Nat \ {0} /\ b.west \in Int /\ -H <= b.west /\ b.west <= H
      /\ b.east \in Int /\ -H <= b.east /\ b.east <= H /\ Upright(b)
  BY GlobeShape, ShapeIsUpright DEF BoxShape
<1>2. CASE b.west <= b.east
  <2>1. SplitEnvelope(b) = {b}
    BY <1>2 DEF SplitEnvelope
  <2> QED BY <1>2, <2>1
<1>3. CASE b.west > b.east
  <2> DEFINE p == [b EXCEPT !.east = H]  q == [b EXCEPT !.west = -H]
  <2>1. SplitEnvelope(b) = {p, q}
    BY <1>1, <1>3 DEF SplitEnvelope
  <2>2. Upright(p) /\ p.west = b.west /\ p.east = H
    BY <1>1 DEF BoxShape, Upright
  <2>3. Upright(q) /\ q.west = -H /\ q.east = b.east
    BY <1>1 DEF BoxShape, Upright
  <2> HIDE DEF p, q
  <2>4. ASSUME NEW lon PROVE lon \in Meridians(b) <=> lon \in Meridians(p) \/ lon \in Meridians(q)
    <3>1. lon \in Meridians(p) <=> lon \in -H..H /\ (b.west <= lon \/ lon = H \/ lon = -H)
      BY <1>1, <2>2, MeridiansAre
    <3>2. lon \in Meridians(q) <=> lon \in -H..H /\ (lon <= b.east \/ lon = H \/ lon = -H)
      BY <1>1, <2>3, MeridiansAre
    <3>3. lon \in Meridians(b) <=> lon \in -H..H /\ (b.west <= lon \/ lon <= b.east \/ lon = H \/ lon = -H)
      BY <1>1, <1>3, MeridiansAre
    <3> QED BY <3>1, <3>2, <3>3
  <2>5. UNION {Meridians(c) : c \in {p, q}} = Meridians(p) \cup Meridians(q)
    OBVIOUS
  <2>6. Meridians(p) \cup Meridians(q) = Meridians(b)
    BY <2>4
  <2> QED BY <1>1, <2>1, <2>2, <2>3, <2>5, <2>6
<1>4. QED
  BY <1>1, <1>2, <1>3

\* A number is at most a tile above its floor, and a tile below its ceiling.
LEMMA FloorIs ==
    ASSUME NEW x \in Int
    PROVE  /\ Floor(x) \in Int /\ Floor(x) <= x /\ x < Floor(x) + Cell
           /\ Ceiling(x) \in Int /\ x <= Ceiling(x) /\ Ceiling(x) < x + Cell
<1>1. Cell \in Nat \ {0}
  BY GlobeShape
<1>2. \A y \in Int : Floor(y) \in Int /\ Floor(y) <= y /\ y < Floor(y) + Cell
  <2> TAKE y \in Int
  <2> DEFINE q == y \div Cell  r == y % Cell
  <2>1. q \in Int /\ r \in 0..Cell-1 /\ y = Cell * q + r
    BY <1>1
  <2>2. Floor(y) = Cell * q
    BY DEF Floor
  <2> HIDE DEF q, r
  <2>3. Cell * q \in Int
    BY <1>1, <2>1
  <2> QED BY <1>1, <2>1, <2>2, <2>3
<1>3. -x \in Int
  OBVIOUS
<1>4. Floor(-x) \in Int /\ Floor(-x) <= -x /\ -x < Floor(-x) + Cell
  BY <1>2, <1>3
<1> DEFINE f == Floor(-x)
<1>5. Ceiling(x) = -f
  BY DEF Ceiling
<1> HIDE DEF f
<1>6. f \in Int /\ f <= -x /\ -x < f + Cell
  BY <1>4 DEF f
<1>7. QED
  BY <1>1, <1>2, <1>5, <1>6

\* What two tiles are apart is nothing or a tile at the least.
LEMMA TilesApart ==
    ASSUME NEW i \in Int
    PROVE  /\ Cell * i \in Int /\ -(Cell * i) = Cell * (-i)
           /\ Cell * i > -Cell => Cell * i >= 0
           /\ Cell * i > 0 => Cell * i >= Cell
<1>1. Cell \in Nat \ {0}
  BY GlobeShape
<1>2. Cell * i \in Int /\ -(Cell * i) = Cell * (-i)
  BY <1>1
<1>3. i >= 1 => Cell * i >= Cell
  BY <1>1
<1>4. i <= -1 => Cell * i <= -Cell
  BY <1>1
<1>5. i = 0 => Cell * i = 0
  BY <1>1
<1>6. QED
  BY <1>1, <1>2, <1>3, <1>4, <1>5

\* The tile of a longitude starts and ends on the globe, and the antimeridian is an edge.
LEMMA TileOnGlobe ==
    ASSUME NEW w \in -HalfTurn..HalfTurn, NEW e \in -HalfTurn..HalfTurn
    PROVE  /\ Floor(w) \in -HalfTurn..HalfTurn /\ Ceiling(e) \in -HalfTurn..HalfTurn
           /\ \E i \in Int : Ceiling(e) - Floor(w) = Cell * i
           /\ \E i \in Int : FullTurn - Floor(w) + Ceiling(e) = Cell * i
<1> DEFINE k == HalfTurn \div Cell  q == w \div Cell  p == (-e) \div Cell  H == HalfTurn
           f == Floor(w)  c == Ceiling(e)
<1>1. /\ Cell \in Nat \ {0} /\ H \in Nat \ {0} /\ FullTurn = H + H
      /\ w \in Int /\ -H <= w /\ w <= H /\ e \in Int /\ -H <= e /\ e <= H /\ -e \in Int
  BY GlobeShape
<1>2. k \in Int /\ Cell * k = H
  <2>1. H % Cell = 0
    BY BoxConstants
  <2>2. k \in Int /\ H = Cell * k + (H % Cell)
    BY <1>1
  <2>3. Cell * k \in Int
    BY <1>1, <2>2
  <2> HIDE DEF k
  <2> QED BY <1>1, <2>1, <2>2, <2>3
<1>3. q \in Int /\ p \in Int
  BY <1>1
<1>4. f = Cell * q /\ c = -(Cell * p)
  BY DEF Floor, Ceiling
<1>5. /\ f \in Int /\ f <= w /\ w < f + Cell
      /\ c \in Int /\ e <= c /\ c < e + Cell
  BY <1>1, FloorIs
<1> HIDE DEF k, q, p, f, c, H
<1>6. q + k \in Int /\ k + p \in Int /\ Cell * (q + k) = f + H /\ Cell * (k + p) = H - c
  <2>1. Cell * (q + k) = Cell * q + Cell * k
    BY <1>1, <1>2, <1>3
  <2>2. Cell * (k + p) = Cell * k + Cell * p
    BY <1>1, <1>2, <1>3
  <2>3. Cell * q \in Int /\ Cell * p \in Int
    BY <1>1, <1>3
  <2> QED BY <1>1, <1>2, <1>3, <1>4, <2>1, <2>2, <2>3
<1>7. f + H >= 0 /\ H - c >= 0
  <2>1. f + H > -Cell /\ H - c > -Cell
    BY <1>1, <1>5
  <2> QED BY <1>6, <2>1, TilesApart
<1>8. c - f = Cell * (-(p + q))
  <2>1. Cell * (-(p + q)) = -(Cell * p) - Cell * q
    BY <1>1, <1>3
  <2> QED BY <1>4, <1>5, <2>1
<1>9. H + H - f + c = Cell * (k + k + (-(p + q)))
  <2>1. Cell * (k + k + (-(p + q))) = Cell * k + Cell * k + Cell * (-(p + q))
    BY <1>1, <1>2, <1>3
  <2> QED BY <1>1, <1>2, <1>5, <1>8, <2>1
<1>10. f \in -H..H /\ c \in -H..H
  BY <1>1, <1>5, <1>7
<1>11. -(p + q) \in Int /\ k + k + (-(p + q)) \in Int
  BY <1>2, <1>3
<1>12. (\E i \in Int : c - f = Cell * i) /\ (\E i \in Int : FullTurn - f + c = Cell * i)
  <2> DEFINE i == -(p + q)  j == k + k + (-(p + q))
  <2>1. i \in Int /\ j \in Int /\ c - f = Cell * i /\ H + H - f + c = Cell * j
    BY <1>8, <1>9, <1>11, Zenon
  <2> HIDE DEF i, j
  <2>2. FullTurn - f + c = H + H - f + c
    <3>1. FullTurn = H + H
      BY <1>1
    <3> QED BY <1>1, <1>5, <3>1, SMT
  <2>3. FullTurn - f + c = Cell * j
    BY <2>1, <2>2, Zenon
  <2> QED BY <2>1, <2>3, Zenon
<1>13. QED
  BY <1>10, <1>12 DEF f, c, H

\* The edges of a box are on its meridians.
LEMMA EdgesAreMeridians ==
    ASSUME NEW b, Upright(b)
    PROVE  b.west \in Meridians(b) /\ b.east \in Meridians(b)
<1>1. /\ b.west \in Int /\ b.east \in Int
      /\ b.west \in -HalfTurn..HalfTurn /\ b.east \in -HalfTurn..HalfTurn
  BY GlobeShape DEF Upright
<1>2. b.west \in Meridians(b)
  BY <1>1, MeridiansAre
<1>3. b.east \in Meridians(b)
  BY <1>1, MeridiansAre
<1>4. QED
  BY <1>2, <1>3

\* The tile of a box of sensible size holds the box.
LEMMA TileIsSound ==
    ASSUME NEW b, BoxShape(b), Sensible(b)
    PROVE  LET tile == SnapBbox(b) IN
           /\ Upright(tile)
           /\ Meridians(b) \subseteq Meridians(tile)
           /\ tile.south <= b.south /\ b.north <= tile.north
<1> DEFINE H == HalfTurn  tile == SnapBbox(b)  w == b.west  e == b.east
<1>1. /\ H \in Nat \ {0} /\ FullTurn = H + H /\ Cell \in Nat \ {0} /\ 2 * Cell <= H
      /\ w \in Int /\ -H <= w /\ w <= H /\ e \in Int /\ -H <= e /\ e <= H
      /\ b.south \in Int /\ b.north \in Int /\ b.south <= b.north
      /\ w \in -HalfTurn..HalfTurn /\ e \in -HalfTurn..HalfTurn
  BY GlobeShape DEF BoxShape
<1>2. /\ tile.south = Floor(b.south) /\ tile.north = Ceiling(b.north)
      /\ tile.west = Floor(w) /\ tile.east = Ceiling(e)
  BY DEF SnapBbox
<1>3. /\ tile.south \in Int /\ tile.south <= b.south /\ tile.north \in Int /\ b.north <= tile.north
      /\ tile.west \in Int /\ tile.west <= w /\ w < tile.west + Cell
      /\ tile.east \in Int /\ e <= tile.east /\ tile.east < e + Cell
  BY <1>1, <1>2, FloorIs
<1>4. tile.west \in -HalfTurn..HalfTurn /\ tile.east \in -HalfTurn..HalfTurn
  BY <1>1, <1>2, TileOnGlobe
<1> HIDE DEF tile
<1>5. Upright(tile)
  BY <1>1, <1>3, <1>4 DEF Upright
<1>6. w > e => w - e >= H
  <2>1. w > e => FullTurn - w + e <= H
    BY WidthShape DEF Sensible
  <2> QED BY <1>1, <2>1
<1>7. w > e => tile.west > tile.east
  BY <1>1, <1>3, <1>6
<1>8. w <= e => tile.west <= tile.east
  BY <1>1, <1>3
<1>9. ASSUME NEW lon \in Meridians(b) PROVE lon \in Meridians(tile)
  <2>1. lon \in -H..H
    BY DEF Meridians
  <2>2. CASE w <= e
    <3>1. \/ w <= lon /\ lon <= e
          \/ (lon = H \/ lon = -H) /\ (e = H \/ w = -H)
      BY <1>1, <1>9, <2>2, MeridiansAre, ShapeIsUpright
    <3>2. \/ tile.west <= lon /\ lon <= tile.east
          \/ (lon = H \/ lon = -H) /\ (tile.east = H \/ tile.west = -H)
      BY <1>1, <1>3, <1>4, <2>1, <3>1
    <3> QED BY <1>5, <1>8, <2>1, <2>2, <3>2, MeridiansAre
  <2>3. CASE w > e
    <3>1. w <= lon \/ lon <= e \/ lon = H \/ lon = -H
      BY <1>1, <1>9, <2>3, MeridiansAre, ShapeIsUpright
    <3>2. tile.west <= lon \/ lon <= tile.east \/ lon = H \/ lon = -H
      BY <1>1, <1>3, <2>1, <3>1
    <3> QED BY <1>5, <1>7, <2>1, <2>3, <3>2, MeridiansAre
  <2> QED BY <1>1, <2>2, <2>3
<1>10. QED
  BY <1>3, <1>5, <1>9 DEF tile

\* The tile beside a tile has an edge in common with it.
LEMMA TilesAdjoin ==
    ASSUME NEW b, BoxShape(b), Sensible(b), Width(SnapBbox(b)) > 0, NEW east \in {-1, 1}
    PROVE  Meridians(TranslateBbox(SnapBbox(b), east, 0)) \cap Meridians(SnapBbox(b)) # {}
<1> DEFINE H == HalfTurn  tile == SnapBbox(b)  next == TranslateBbox(tile, east, 0)
           f == tile.west  c == tile.east
<1>1. /\ H \in Nat \ {0} /\ FullTurn = H + H /\ Cell \in Nat \ {0} /\ 2 * Cell <= H
      /\ b.west \in -HalfTurn..HalfTurn /\ b.east \in -HalfTurn..HalfTurn
  BY GlobeShape DEF BoxShape
<1>2. Upright(tile)
  BY TileIsSound
<1>3. f = Floor(b.west) /\ c = Ceiling(b.east)
  BY DEF SnapBbox
<1>4. (\E i \in Int : c - f = Cell * i) /\ (\E i \in Int : H + H - f + c = Cell * i)
  <2>1. /\ \E i \in Int : Ceiling(b.east) - Floor(b.west) = Cell * i
        /\ \E i \in Int : FullTurn - Floor(b.west) + Ceiling(b.east) = Cell * i
    BY <1>1, TileOnGlobe
  <2>2. PICK i \in Int : Ceiling(b.east) - Floor(b.west) = Cell * i
    BY <2>1
  <2>3. PICK j \in Int : FullTurn - Floor(b.west) + Ceiling(b.east) = Cell * j
    BY <2>1
  <2> HIDE DEF f, c
  <2>4. c - f = Cell * i
    BY <1>3, <2>2, Zenon
  <2>5. FullTurn - f + c = Cell * j
    BY <1>3, <2>3, Zenon
  <2>6. H + H - f + c = FullTurn - f + c
    <3>1. Floor(b.west) \in -HalfTurn..HalfTurn /\ Ceiling(b.east) \in -HalfTurn..HalfTurn
      BY <1>1, TileOnGlobe
    <3>2. f \in Int /\ c \in Int
      BY <1>1, <1>3, <3>1
    <3> QED BY <1>1, <3>2, SMT
  <2>7. H + H - f + c = Cell * j
    BY <2>5, <2>6, Zenon
  <2> QED BY <2>4, <2>7, Zenon
<1> HIDE DEF tile
<1>5. /\ f \in Int /\ -H <= f /\ f <= H /\ c \in Int /\ -H <= c /\ c <= H
      /\ f \in -HalfTurn..HalfTurn /\ c \in -HalfTurn..HalfTurn
      /\ tile.south \in Int /\ tile.north \in Int /\ tile.south <= tile.north
  BY <1>1, <1>2 DEF Upright
<1>6. Width(tile) = IF c >= f THEN c - f ELSE H + H - f + c
  BY <1>1, <1>5 DEF Width, LongitudeSpan
<1>7. IF c >= f THEN c - f >= Cell ELSE H + H - f + c >= Cell
  <2>1. PICK i \in Int : c - f = Cell * i
    BY <1>4
  <2>2. PICK j \in Int : H + H - f + c = Cell * j
    BY <1>4
  <2>3. IF c >= f THEN Cell * i > 0 ELSE Cell * j > 0
    BY <1>6, <2>1, <2>2 DEF tile
  <2> QED BY <2>1, <2>2, <2>3, TilesApart
<1>8. /\ next.south = tile.south /\ next.north = tile.north
      /\ next.west = WrapLongitude(f + east * Cell) /\ next.east = WrapLongitude(c + east * Cell)
  <2>1. 0 * Cell = 0
    BY <1>1
  <2> QED BY <1>5, <2>1 DEF TranslateBbox
<1> HIDE DEF next, f, c
<1>9. /\ \A x \in Int : -3 * H <= x /\ x <= 3 * H =>
             WrapLongitude(x) = IF x > H THEN x - (H + H) ELSE IF x < -H THEN x + (H + H) ELSE x
  BY <1>1, WrapIs
<1>10. east * Cell = Cell \/ east * Cell = -Cell
  BY <1>1
<1>11. next.west \in -H..H /\ next.east \in -H..H
  BY <1>1, <1>5, <1>8, <1>9, <1>10
<1>12. Upright(next)
  BY <1>5, <1>8, <1>11 DEF Upright
<1>13. next.west \in Meridians(next) /\ next.east \in Meridians(next)
  BY <1>12, EdgesAreMeridians
<1>14. CASE east = 1
  <2>1. next.west = IF f + Cell > H THEN f + Cell - (H + H) ELSE f + Cell
    BY <1>1, <1>5, <1>8, <1>9, <1>14
  <2> DEFINE lon == next.west
  <2> HIDE DEF lon
  <2>2. /\ lon \in -H..H
        /\ \/ f <= c /\ (f <= lon /\ lon <= c)
           \/ f > c /\ (f <= lon \/ lon <= c)
    BY <1>1, <1>5, <1>7, <1>11, <2>1 DEF lon
  <2>3. lon \in Meridians(tile)
    BY <1>2, <2>2, MeridiansAre DEF f, c
  <2> QED BY <1>13, <2>3 DEF lon, next, tile
<1>15. CASE east = -1
  <2>1. next.east = IF c - Cell < -H THEN c - Cell + (H + H) ELSE c - Cell
    BY <1>1, <1>5, <1>8, <1>9, <1>15
  <2> DEFINE lon == next.east
  <2> HIDE DEF lon
  <2>2. /\ lon \in -H..H
        /\ \/ f <= c /\ (f <= lon /\ lon <= c)
           \/ f > c /\ (f <= lon \/ lon <= c)
    BY <1>1, <1>5, <1>7, <1>11, <2>1 DEF lon
  <2>3. lon \in Meridians(tile)
    BY <1>2, <2>2, MeridiansAre DEF f, c
  <2> QED BY <1>13, <2>3 DEF lon, next, tile
<1>16. QED
  BY <1>14, <1>15

\* A box that is not too wide has few meridians.
LEMMA FewMeridians ==
    ASSUME NEW b, BoxShape(b), Width(b) <= MaxExplicit
    PROVE  Cardinality(Meridians(b)) <= MaxExplicit + 2
<1> DEFINE H == HalfTurn  w == b.west  e == b.east  m == Meridians(b)
<1>1. /\ H \in Nat \ {0} /\ FullTurn = H + H /\ MaxExplicit \in Nat
      /\ w \in Int /\ -H <= w /\ w <= H /\ e \in Int /\ -H <= e /\ e <= H /\ Upright(b)
  BY GlobeShape, ShapeIsUpright DEF BoxShape
<1>2. \A lon : lon \in m <=>
         /\ lon \in -H..H
         /\ \/ /\ w <= e
               /\ \/ w <= lon /\ lon <= e
                  \/ (lon = H \/ lon = -H) /\ (e = H \/ w = -H)
            \/ w > e /\ (w <= lon \/ lon <= e \/ lon = H \/ lon = -H)
  BY <1>1, MeridiansAre
<1> HIDE DEF m
<1>3. CASE w <= e
  <2> DEFINE S == w..e  x == IF w = -H THEN H ELSE -H
  <2>1. IsFiniteSet(S) /\ Cardinality(S) = e - w + 1
    <3>1. IsFiniteSet(S) /\ Cardinality(S) = IF w > e THEN 0 ELSE e - w + 1
      BY <1>1, FS_Interval
    <3> HIDE DEF S
    <3> QED BY <1>1, <1>3, <3>1
  <2>2. m \subseteq S \cup {x}
    <3>1. ASSUME NEW lon \in m PROVE lon \in S \/ lon = x
      <4>1. lon \in Int /\ -H <= lon /\ lon <= H
        BY <1>1, <1>2
      <4>2. \/ w <= lon /\ lon <= e
            \/ (lon = H \/ lon = -H) /\ (e = H \/ w = -H)
        BY <1>1, <1>2, <1>3
      <4> QED BY <1>1, <1>3, <4>1, <4>2
    <3> QED BY <3>1
  <2> HIDE DEF S, x
  <2>3. IsFiniteSet(S \cup {x}) /\ Cardinality(S \cup {x}) <= e - w + 2
    <3>1. /\ IsFiniteSet(S \cup {x})
          /\ Cardinality(S \cup {x}) = IF x \in S THEN Cardinality(S) ELSE Cardinality(S) + 1
      BY <2>1, FS_AddElement
    <3> QED BY <1>1, <2>1, <3>1
  <2>4. Cardinality(m) <= Cardinality(S \cup {x}) /\ IsFiniteSet(m)
    BY <2>2, <2>3, FS_Subset
  <2>5. Cardinality(m) \in Nat /\ Cardinality(S \cup {x}) \in Nat
    BY <2>3, <2>4, FS_CardinalityType
  <2>6. e - w <= MaxExplicit
    BY <1>3, WidthShape
  <2> QED BY <1>1, <2>3, <2>4, <2>5, <2>6 DEF m
<1>4. CASE w > e
  <2> DEFINE S == w..H  T == -H..e
  <2>1. IsFiniteSet(S) /\ Cardinality(S) = H - w + 1
    <3>1. IsFiniteSet(S) /\ Cardinality(S) = IF w > H THEN 0 ELSE H - w + 1
      <4>1. w \in Int /\ H \in Int
        BY <1>1
      <4> HIDE DEF w, H
      <4> QED BY <4>1, FS_Interval
    <3> HIDE DEF S
    <3> QED BY <1>1, <3>1
  <2>2. IsFiniteSet(T) /\ Cardinality(T) = e + H + 1
    <3>1. -H \in Int
      BY <1>1
    <3>2. IsFiniteSet(T) /\ Cardinality(T) = IF -H > e THEN 0 ELSE e - (-H) + 1
      BY <1>1, <3>1, FS_Interval
    <3> QED BY <1>1, <3>2
  <2>3. m \subseteq S \cup T
    <3>1. ASSUME NEW lon \in m PROVE lon \in S \/ lon \in T
      <4>1. lon \in Int /\ -H <= lon /\ lon <= H
        BY <1>1, <1>2
      <4>2. w <= lon \/ lon <= e \/ lon = H \/ lon = -H
        BY <1>1, <1>2, <1>4
      <4> QED BY <1>1, <4>1, <4>2
    <3> QED BY <3>1
  <2> HIDE DEF S, T
  <2>4. /\ IsFiniteSet(S \cup T) /\ IsFiniteSet(S \cap T)
        /\ Cardinality(S \cup T) = Cardinality(S) + Cardinality(T) - Cardinality(S \cap T)
    <3>1. S \cap T \in SUBSET S
      OBVIOUS
    <3> QED BY <2>1, <2>2, <3>1, FS_Union, FS_Subset
  <2>5. Cardinality(m) <= Cardinality(S \cup T) /\ IsFiniteSet(m)
    BY <2>3, <2>4, FS_Subset
  <2>6. /\ Cardinality(m) \in Nat /\ Cardinality(S \cup T) \in Nat /\ Cardinality(S \cap T) \in Nat
    BY <2>4, <2>5, FS_CardinalityType
  <2>7. H + H - w + e <= MaxExplicit
    BY <1>1, <1>4, WidthShape
  <2> QED BY <1>1, <2>1, <2>2, <2>4, <2>5, <2>6, <2>7 DEF m
<1>5. QED
  BY <1>1, <1>3, <1>4

\* What is asked for instead of the box of a tick is what it should be.
LEMMA BoxInvQueries == BoxInv => QueriesSound
<1> SUFFICES ASSUME BoxInv, box # NoBox PROVE QueriesSound
  BY DEF QueriesSound
<1>1. BoxShape(box)
  BY DEF BoxInv
<1>2. /\ Meridians(ClampBbox(box)) \subseteq Meridians(box)
      /\ Width(ClampBbox(box)) = Lower(Width(box), MaxSpan)
      /\ ClampBbox(box).south + ClampBbox(box).north
            \in {box.south + box.north + d : d \in {-1, 0, 1}}
  BY <1>1, ClampIsSound
<1>3. /\ UNION {Meridians(b) : b \in SplitEnvelope(box)} = Meridians(box)
      /\ \A b \in SplitEnvelope(box) : b.west <= b.east
  BY <1>1, SplitIsSound
<1>4. Sensible(box) =>
         /\ Meridians(box) \subseteq Meridians(SnapBbox(box))
         /\ SnapBbox(box).south <= box.south /\ box.north <= SnapBbox(box).north
         /\ \A east \in {-1, 1} : Width(SnapBbox(box)) > 0 =>
               Meridians(TranslateBbox(SnapBbox(box), east, 0)) \cap Meridians(SnapBbox(box)) # {}
  BY <1>1, TileIsSound, TilesAdjoin
<1>5. ResolveExplicitBbox(box) # NoBox => Cardinality(Meridians(box)) <= MaxExplicit + 2
  BY <1>1, FewMeridians DEF ResolveExplicitBbox, Width
<1>6. ASSUME NEW p \in Places, NEW r \in Radii, ResolvePosition(p, r) # NoBox
      PROVE  ResolvePosition(p, r).north - ResolvePosition(p, r).south <= MaxExplicit
  <2>1. r \in Nat /\ r <= MaxSearch /\ ResolvePosition(p, r) = PositionToBbox(p, r)
    BY <1>6, BoxConstants DEF ResolvePosition
  <2>2. /\ MaxSearch \in Nat /\ 2 * MaxSearch <= MaxExplicit /\ MaxExplicit \in Nat
    BY BoxConstants
  <2>3. /\ PositionToBbox(p, r).north \in Int /\ PositionToBbox(p, r).south \in Int
        /\ PositionToBbox(p, r).north - PositionToBbox(p, r).south <= 2 * r
    BY PositionShape DEF BoxShape
  <2> QED BY <2>1, <2>2, <2>3
<1>7. QED
  BY <1>2, <1>3, <1>4, <1>5, <1>6 DEF QueriesSound

\* The box of a tick covers every circle it was made for that does not reach a pole, on
\* whichever side of the antimeridian it lies; a union is no wider than it must be; and the
\* clamped box, the split one, the tile and the box a chart asks for are what they should be
\* (position-utilities.ts, longitude.ts, bbox-debounce.ts, overpass-client.ts,
\* arcgis-query.ts, resource-query.ts).
THEOREM BoxesAreSound == BoxSpec => []BoxesSound
<1>1. BoxInv => BoxesSound
  BY BoxInvNarrowest, BoxInvQueries DEF BoxInv, BoxesSound
<1>2. QED
  BY <1>1, BoxInvInit, BoxInvStep, PTL DEF BoxSpec
=============================================================================
