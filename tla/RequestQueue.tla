---------------------------- MODULE RequestQueue ----------------------------
(***************************************************************************)
(* The queued HTTP client of the two crowd-sourced upstreams               *)
(* (inputs/http-client.ts).  A request waits for one of a few slots, holds *)
(* it through the pacing timer, the fetch, its retries and their backoff,  *)
(* and frees it when it settles.  The waiting list is bounded, a caller    *)
(* may abort its request at any time, and close() stops everything.        *)
(*                                                                         *)
(* The network is the environment: a fetch is answered, or fails in a way  *)
(* worth a retry.  Time is kept in countdowns; a timer may fire late.      *)
(***************************************************************************)
EXTENDS Integers, Sequences, FiniteSets

CONSTANTS
    Requests,           \* bound: each request is made once
    MaxConcurrency, MinDelay, MaxRetries,
    MaxWaiting          \* MAX_QUEUE_WAITING

ASSUME LimitsAssumption ==
    /\ MaxConcurrency \in Nat \ {0} /\ MaxWaiting \in Nat \ {0}
    /\ MinDelay \in Nat /\ MaxRetries \in Nat

VARIABLES
    phase,      \* where each request is
    waiting,    \* the queue for a slot
    active,     \* the slots taken
    spacing,    \* time until nextAllowedStart
    timer,      \* time until the pacing timer of a scheduled request is due
    attempt,    \* retries made
    aborted,    \* the requests whose caller's signal has fired
    closed

vars == <<phase, waiting, active, spacing, timer, attempt, aborted, closed>>

\* The phases in which a request holds a slot, and those in which it is over.
Holding == {"scheduled", "fetching", "backoff", "aborting"}
Settled == {"answered", "failed", "rejected"}

Init ==
    /\ phase = [r \in Requests |-> "new"]
    /\ waiting = <<>>
    /\ active = 0
    /\ spacing = 0
    /\ timer = [r \in Requests |-> 0]
    /\ attempt = [r \in Requests |-> 0]
    /\ aborted = {}
    /\ closed = FALSE

-----------------------------------------------------------------------------
(* The queue. *)

\* pump: the oldest waiter takes a free slot, paced behind the last one.
Pump(phases, queue, held) ==
    IF held < MaxConcurrency /\ queue # <<>>
      THEN /\ phase' = [phases EXCEPT ![Head(queue)] = "scheduled"]
           /\ waiting' = Tail(queue)
           /\ active' = held + 1
           /\ timer' = [timer EXCEPT ![Head(queue)] = spacing]
           /\ spacing' = spacing + MinDelay
      ELSE /\ phase' = phases
           /\ waiting' = queue
           /\ active' = held
           /\ UNCHANGED <<timer, spacing>>

\* Fault: a slot freed by a failure is not given back.
ReleaseOnAnswer(r, outcome) ==
    IF outcome = "answered"
      THEN Pump([phase EXCEPT ![r] = outcome], waiting, active - 1)
      ELSE /\ phase' = [phase EXCEPT ![r] = outcome]
           /\ UNCHANGED <<waiting, active, timer, spacing>>

\* release: the task has settled; its slot goes to the next waiter.
Release(r, outcome) == Pump([phase EXCEPT ![r] = outcome], waiting, active - 1)

\* Fault: the pump is left to the releases.
SubmitUnpumped(r) ==
    /\ phase[r] = "new"
    /\ IF closed
         THEN phase' = [phase EXCEPT ![r] = "rejected"] /\ UNCHANGED waiting
         ELSE phase' = [phase EXCEPT ![r] = "waiting"] /\ waiting' = Append(waiting, r)
    /\ UNCHANGED <<active, spacing, timer, attempt, aborted, closed>>

\* Fault: a full queue takes one more.
SubmitUnbounded(r) ==
    /\ phase[r] = "new"
    /\ \/ /\ closed
          /\ phase' = [phase EXCEPT ![r] = "rejected"]
          /\ UNCHANGED <<waiting, active, timer, spacing>>
       \/ ~closed /\ Pump([phase EXCEPT ![r] = "waiting"], Append(waiting, r), active)
    /\ UNCHANGED <<attempt, aborted, closed>>

\* run, up to its await of acquire: a full queue drops its oldest waiter.
Submit(r) ==
    /\ phase[r] = "new"
    /\ \/ /\ closed
          /\ phase' = [phase EXCEPT ![r] = "rejected"]
          /\ UNCHANGED <<waiting, active, timer, spacing>>
       \/ /\ ~closed /\ Len(waiting) >= MaxWaiting
          /\ Pump([phase EXCEPT ![r] = "waiting", ![Head(waiting)] = "rejected"],
                  Append(Tail(waiting), r), active)
       \/ /\ ~closed /\ Len(waiting) < MaxWaiting
          /\ Pump([phase EXCEPT ![r] = "waiting"], Append(waiting, r), active)
    /\ UNCHANGED <<attempt, aborted, closed>>

-----------------------------------------------------------------------------
(* The task: fetchWithRetry. *)

\* A fetch is called; with an aborted signal nothing goes out.
Starts(r) == phase' = [phase EXCEPT ![r] = IF r \in aborted THEN "aborting" ELSE "fetching"]

\* The pacing timer fires.
Fire(r) ==
    /\ phase[r] = "scheduled" /\ timer[r] = 0
    /\ Starts(r)
    /\ UNCHANGED <<waiting, active, spacing, timer, attempt, aborted, closed>>

\* A response that is not worth a retry.
Answer(r) ==
    /\ phase[r] = "fetching"
    /\ Release(r, "answered")
    /\ UNCHANGED <<attempt, aborted, closed>>

\* A retryable status or a network error: back off, the slot still held, or,
\* with the retries spent, hand on what there is.
Fail(r) ==
    /\ phase[r] = "fetching"
    /\ \/ /\ attempt[r] < MaxRetries
          /\ phase' = [phase EXCEPT ![r] = "backoff"]
          /\ attempt' = [attempt EXCEPT ![r] = @ + 1]
          /\ UNCHANGED <<waiting, active, spacing, timer>>
       \/ /\ attempt[r] >= MaxRetries
          /\ Release(r, "failed")
          /\ UNCHANGED attempt
    /\ UNCHANGED <<aborted, closed>>

\* The backoff is over; with full jitter that can be at once.
Retry(r) ==
    /\ phase[r] = "backoff"
    /\ Starts(r)
    /\ UNCHANGED <<waiting, active, spacing, timer, attempt, aborted, closed>>

\* The abort reaches the task, which rejects without a retry.
Rejects(r) ==
    /\ phase[r] = "aborting"
    /\ Release(r, "failed")
    /\ UNCHANGED <<attempt, aborted, closed>>

\* A request whose signal fires once it is out, or backing off, is over; one that
\* still waits for its slot learns of it when it has one.
Aborting(fired) ==
    [r \in Requests |-> IF phase[r] \in {"fetching", "backoff"} /\ r \in fired
                          THEN "aborting" ELSE phase[r]]

\* The caller's own signal fires.
CallerAborts(r) ==
    /\ phase[r] \in {"waiting"} \cup Holding /\ r \notin aborted
    /\ aborted' = aborted \cup {r}
    /\ phase' = Aborting({r})
    /\ UNCHANGED <<waiting, active, spacing, timer, attempt, closed>>

\* Fault: requests paced behind a timer are left to it.
CloseLeavesTimers ==
    /\ ~closed
    /\ closed' = TRUE
    /\ aborted' = Requests
    /\ phase' = [r \in Requests |->
          IF phase[r] = "waiting" THEN "rejected" ELSE Aborting(Requests)[r]]
    /\ waiting' = <<>>
    /\ UNCHANGED <<active, spacing, timer, attempt>>

\* close(): abort, fire every timer, reject every waiter.
Close ==
    /\ ~closed
    /\ closed' = TRUE
    /\ aborted' = Requests
    /\ phase' = [r \in Requests |->
          CASE phase[r] = "waiting" -> "rejected"
            [] phase[r] = "scheduled" -> "aborting"
            [] OTHER -> Aborting(Requests)[r]]
    /\ waiting' = <<>>
    /\ UNCHANGED <<active, spacing, timer, attempt>>

Advance ==
    /\ spacing' = IF spacing > 0 THEN spacing - 1 ELSE 0
    /\ timer' = [r \in Requests |-> IF timer[r] > 0 THEN timer[r] - 1 ELSE 0]
    /\ UNCHANGED <<phase, waiting, active, attempt, aborted, closed>>

Settles(r) == Answer(r) \/ Fail(r) \/ Rejects(r)

Next ==
    \/ \E r \in Requests : \/ Submit(r) \/ CallerAborts(r)
                           \/ Fire(r) \/ Retry(r) \/ Settles(r)
    \/ Close
    \/ Advance

\* Time passes, timers and backoffs end, and each fetch is timed out at worst.
Fairness ==
    /\ WF_vars(Advance)
    /\ \A r \in Requests : WF_vars(Fire(r)) /\ WF_vars(Retry(r)) /\ WF_vars(Settles(r))

Spec == Init /\ [][Next]_vars /\ Fairness

-----------------------------------------------------------------------------
\* A slot is never leaked nor shared, nor is a place in the queue: the counter is
\* the number of requests between their pump and their settling, whichever way
\* each of them ends, and both stay within their limits.
SlotsConserved ==
    /\ active <= MaxConcurrency /\ Len(waiting) <= MaxWaiting
    /\ active = Cardinality({r \in Requests : phase[r] \in Holding})
    /\ {r \in Requests : phase[r] = "waiting"} = {waiting[i] : i \in 1..Len(waiting)}
    /\ Cardinality({waiting[i] : i \in 1..Len(waiting)}) = Len(waiting)

\* No request waits while a slot is free: one pump per arrival and one per
\* release are enough.
WorkConserving == waiting # <<>> => active = MaxConcurrency

\* A close is immediate: nothing waits, is paced or backs off after it, and what
\* still holds a slot has only its rejection to deliver.
ClosedIsQuiet ==
    closed => \A r \in Requests : phase[r] \in {"new", "aborting"} \cup Settled

\* The three together, as the runs check them.
SlotsSound == SlotsConserved /\ WorkConserving /\ ClosedIsQuiet

\* Every request made settles, the aborted and the ones closed down included.
EveryRequestSettles ==
    \A r \in Requests : phase[r] # "new" ~> phase[r] \in Settled
=============================================================================
