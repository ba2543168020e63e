------------------------------ MODULE MCRequests ------------------------------
(***************************************************************************)
(* How requests are made: a run is one of                                  *)
(*   - the queue of a client, with more requests than slots and places;    *)
(*   - one request of the one-shot client, of at most four chunks.         *)
(* What a run does not move stays as it began.                             *)
(***************************************************************************)
EXTENDS RequestQueue, OneShotHttp

CONSTANTS q1, q2, q3, q4

MCRequests == {q1, q2, q3, q4}

VARIABLES
    part    \* which of the two this run is

requestsVars == <<part, vars, httpVars>>

RequestsInit ==
    /\ part \in {"queue", "oneshot"}
    /\ part # "oneshot" => signal = FALSE
    /\ Init /\ HttpInit

Queue(step) == part = "queue" /\ step /\ UNCHANGED <<part, httpVars>>
Alone(step) == part = "oneshot" /\ step /\ UNCHANGED <<part, vars>>

RequestsNext ==
    \/ Queue(Next)
    \/ Alone(HttpNext)

\* The fairness of the queue.
QueueFairness ==
    /\ WF_requestsVars(Queue(Advance))
    /\ \A r \in MCRequests : /\ WF_requestsVars(Queue(Fire(r)))
                             /\ WF_requestsVars(Queue(Retry(r)))
                             /\ WF_requestsVars(Queue(Settles(r)))

\* The fairness of the one-shot client.
AloneFairness ==
    /\ WF_requestsVars(Alone(Begin))
    /\ WF_requestsVars(Alone(Deadline))

RequestsSpec ==
    /\ RequestsInit /\ [][RequestsNext]_requestsVars
    /\ QueueFairness /\ AloneFairness

-----------------------------------------------------------------------------
\* No request hangs, of the queue or of the one-shot client.
RequestsSettle == EveryRequestSettles /\ (part = "oneshot" => RequestSettles)
=============================================================================
