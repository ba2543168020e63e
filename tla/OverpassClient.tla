--------------------------- MODULE OverpassClient ---------------------------
(***************************************************************************)
(* One query of the Overpass client (inputs/openseamap/overpass-client.ts) *)
(* tried against the configured endpoints in their order, each in a slot   *)
(* of the request queue and with the retries of the HTTP client            *)
(* (http-client.ts), until one answers, the caller gives up, the plugin    *)
(* stops, or the budget of the chain is spent.  The environment is the     *)
(* endpoints, each with one health for the length of the query, and the    *)
(* other queries in the queue (RequestQueue), which make this one wait or  *)
(* push it out.  Time is in units of ten seconds.                          *)
(***************************************************************************)
EXTENDS Integers, Sequences, SequencesExt

CONSTANTS
    Endpoints,      \* usable endpoint URLs
    Unusable,       \* a configured value that is none
    Default,        \* DEFAULT_OVERPASS_ENDPOINT
    MaxConfigured,  \* bound: the fallbacks a user enters
    Bodies,         \* bound: the elements an endpoint may answer with
    RequestTimeout, \* REQUEST_TIMEOUT_MS
    Gateway,        \* how long a gateway takes to give up
    MaxRetries,
    Backoffs, RetryAfters,  \* how long the client may wait, of its own or as it is told
    LongestWait,    \* what the client caps both of them at
    Budget,         \* FAILOVER_DEADLINE_MS
    QueueWaits,     \* bound: how long the queue may make a request wait
    Nobody

ASSUME OverpassAssumption ==
    /\ Default \in Endpoints /\ Unusable \notin Endpoints
    /\ {RequestTimeout, Gateway, MaxRetries, LongestWait} \subseteq Nat /\ Gateway <= RequestTimeout
    /\ Backoffs \cup RetryAfters \subseteq 0..LongestWait
    /\ Budget \in Nat \ {0} /\ QueueWaits \subseteq Nat

VARIABLES
    endpointList,   \* what the client tries, in order
    health,         \* how each endpoint behaves
    at,             \* the endpoint being tried
    attempt,        \* the retries made of it
    phase,          \* "queued" for a slot, "slot" when it has one, "sent" or "over"
    spent,          \* the time since the query began
    waited,         \* the part of it that the slot it had last took to come
    given,          \* "none", "aborted" by the caller or "closed"
    outcome,        \* <<>>, <<"failed">> or what was answered
    tried,          \* history: the endpoints a request went to
    pushedOut,      \* history: the endpoints whose request the queue dropped
    abandoned       \* history: the query went on to a mirror after its caller gave it up

overpassVars == <<endpointList, health, at, attempt, phase, spent, waited, given, outcome,
                  tried, pushedOut, abandoned>>

\* usableEndpoint: a value is one or it is dropped.
UsableEndpoint(raw) == raw # Unusable

\* resolvePrimaryEndpoint
ResolvePrimaryEndpoint(raw) == IF UsableEndpoint(raw) THEN raw ELSE Default

\* normalizeFallbackEndpoints: the first of each that is usable, in their order.
NormalizeFallbackEndpoints(raw) ==
    FoldLeft(LAMBDA kept, value : IF UsableEndpoint(value) /\ ~Contains(kept, value)
                                    THEN Append(kept, value) ELSE kept, <<>>, raw)

\* normalizeEndpoints: the primary and its mirrors, without repetition.
NormalizeEndpoints(primary, fallbacks) ==
    NormalizeFallbackEndpoints(<<ResolvePrimaryEndpoint(primary)>> \o fallbacks)

\* A good one answers, a wrong one with a body or a status that is of no use; the
\* others are worth a retry.
Healths == {"good", "wrong", "refusing", "busy", "gateway", "hung"}

OverpassInit ==
    /\ \E primary \in Endpoints \cup {Unusable} :
          \E n \in 0..MaxConfigured : \E fallbacks \in [1..n -> Endpoints \cup {Unusable}] :
              endpointList = NormalizeEndpoints(primary, fallbacks)
    /\ health \in [Range(endpointList) -> Healths]
    /\ at = 1 /\ attempt = 0 /\ phase = "queued" /\ spent = 0 /\ waited = 0
    /\ given = "none" /\ outcome = <<>> /\ tried = {} /\ pushedOut = {} /\ abandoned = FALSE

Endpoint == endpointList[at]

-----------------------------------------------------------------------------
\* parseElement: an element without a name, a type or a place is not one.
ParseElement(wire) == wire = "whole"

\* collectElements: those that are well formed.
CollectElements(wires) == SelectSeq(wires, ParseElement)

\* getById: the first that is well formed, or none.
GetById(wires) ==
    IF CollectElements(wires) = <<>> THEN Nobody ELSE CollectElements(wires)[1]

\* acquire, pump: the request has its slot, for all its retries.  One whose caller gave
\* it up waits like any other.
SlotComes ==
    /\ phase = "queued" /\ given # "closed"
    /\ \E wait \in QueueWaits : spent' = spent + wait /\ waited' = wait
    /\ phase' = "slot"
    /\ UNCHANGED <<endpointList, health, at, attempt, given, outcome, tried, pushedOut, abandoned>>

\* A request goes to the endpoint, unless the query has been given up.
Send ==
    /\ phase = "slot" /\ given = "none"
    /\ phase' = "sent"
    /\ tried' = tried \cup {Endpoint}
    /\ UNCHANGED <<endpointList, health, at, attempt, spent, waited, given, outcome, pushedOut,
                   abandoned>>

\* How long a request of each health takes to end.
Takes == CASE health[Endpoint] = "hung" -> RequestTimeout
           [] health[Endpoint] = "gateway" -> Gateway
           [] OTHER -> 0

\* assertResponseOk, and the elements array: the endpoint has answered.
EndpointAnswers ==
    /\ phase = "sent" /\ given = "none" /\ health[Endpoint] = "good"
    /\ \E wires \in Bodies : outcome' \in {<<"list", CollectElements(wires)>>, <<"detail", GetById(wires)>>}
    /\ phase' = "over"
    /\ UNCHANGED <<endpointList, health, at, attempt, spent, waited, given, tried, pushedOut,
                   abandoned>>

\* How long the client waits before the next retry: as the endpoint says, or of its own.
Waits == IF health[Endpoint] = "busy" THEN RetryAfters ELSE Backoffs

\* fetchWithRetry: the attempt failed in a way worth another.
Retry ==
    /\ phase = "sent" /\ given = "none" /\ attempt < MaxRetries
    /\ health[Endpoint] \in {"refusing", "busy", "gateway", "hung"}
    /\ \E wait \in Waits : spent' = spent + Takes + wait
    /\ attempt' = attempt + 1 /\ phase' = "slot"
    /\ UNCHANGED <<endpointList, health, at, waited, given, outcome, tried, pushedOut, abandoned>>

\* Fault: the chain has no budget of its own.
Unbudgeted(time) == at = Len(endpointList)

\* Fault: the budget alone ends the chain.
AbandonedGoesOn(time) == time >= Budget \/ at = Len(endpointList)

\* runRawQuery: whether the failure of an endpoint is the failure of the query.
LastFailure(time) == given = "aborted" \/ time >= Budget \/ at = Len(endpointList)

\* The request has failed: the query fails over to the next endpoint, for which it
\* queues again, or it fails.
FailOver(time) ==
    /\ spent' = time
    /\ abandoned' = (abandoned \/ (given = "aborted" /\ ~LastFailure(time)))
    /\ IF LastFailure(time)
         THEN /\ outcome' = <<"failed">> /\ phase' = "over"
              /\ UNCHANGED <<at, attempt>>
         ELSE /\ at' = at + 1 /\ attempt' = 0 /\ phase' = "queued"
              /\ UNCHANGED outcome
    /\ UNCHANGED <<endpointList, health, given, tried>>

\* acquire: the queue is full of newer requests, and drops the oldest one, this.
PushedOut ==
    /\ phase = "queued" /\ given # "closed"
    /\ \E wait \in QueueWaits : FailOver(spent + wait) /\ waited' = wait
    /\ pushedOut' = pushedOut \cup {Endpoint}

\* attemptRawQuery rejects: its last attempt failed, or the answer is of no use.
Rejected ==
    /\ phase = "sent" /\ given = "none"
    /\ \/ health[Endpoint] = "wrong"
       \/ health[Endpoint] # "good" /\ attempt = MaxRetries
    /\ FailOver(spent + Takes)
    /\ UNCHANGED <<waited, pushedOut>>

\* The caller's signal fires, or close is called: what is in flight is cut off.
GiveUp(how) ==
    /\ phase # "over" /\ given = "none"
    /\ given' = how
    /\ UNCHANGED <<endpointList, health, at, attempt, phase, spent, waited, outcome, tried,
                   pushedOut, abandoned>>

\* What was given up rejects at once, from its slot, or when it gets one; a closed queue
\* rejects what waits in it and takes no request for the others.
CutOff ==
    /\ \/ phase \in {"slot", "sent"} /\ given # "none"
       \/ phase = "queued" /\ given = "closed"
    /\ FailOver(spent)
    /\ UNCHANGED <<waited, pushedOut>>

OverpassNext ==
    \/ SlotComes \/ PushedOut \/ Send \/ EndpointAnswers \/ Retry \/ Rejected \/ CutOff
    \/ \E how \in {"aborted", "closed"} : GiveUp(how)

OverpassSpec == OverpassInit /\ [][OverpassNext]_overpassVars

-----------------------------------------------------------------------------
\* The longest that one endpoint can hold the query, once its request has a slot.
OneEndpoint == (MaxRetries + 1) * RequestTimeout + MaxRetries * LongestWait

\* Apart from the wait for its last slot, which nothing here bounds, a query stays
\* within its budget and one endpoint's own time; an abandoned one turns to no further
\* mirror; it fails with the budget in hand only when it was given up or every endpoint
\* has been asked, or dropped by the queue before it was; and what it answers with came
\* from an endpoint that was asked and answered, never from an outage.
QueryBounded ==
    /\ spent < Budget + waited + OneEndpoint
    /\ ~abandoned
    /\ outcome = <<"failed">> /\ given = "none" /\ spent < Budget =>
          \A i \in 1..Len(endpointList) : endpointList[i] \in tried \cup pushedOut
    /\ outcome \notin {<<>>, <<"failed">>} => health[Endpoint] = "good" /\ Endpoint \in tried
    /\ \A i \in 1..(at - 1) : given = "none" => endpointList[i] \in tried \cup pushedOut

\* A single instance outage does not take the source offline: with mirrors configured
\* and one endpoint at fault, a query that is not given up is answered.  (Not so when
\* the one at fault hangs, nor when the queue drops the query.)
MirrorAnswers ==
    /\ Len(endpointList) > 1
    /\ \E faulty \in Range(endpointList) :
          \A other \in Range(endpointList) \ {faulty} : health[other] = "good"
    /\ outcome = <<"failed">>
    => given # "none" \/ pushedOut # {}

\* A query fails over from an endpoint that was asked and failed.  (Not so of one whose
\* request the full queue of the client dropped.)
FailsOverWhenAsked ==
    given = "none" => \A i \in 1..(at - 1) : endpointList[i] \in tried
=============================================================================
