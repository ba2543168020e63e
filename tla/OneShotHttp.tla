----------------------------- MODULE OneShotHttp -----------------------------
(***************************************************************************)
(* One request of the one-shot transport (inputs/http-one-shot.ts) under   *)
(* the callers that read its answer: conditionalGet                        *)
(* (http-conditional-get.ts), requestJson, and the World Port Index client *)
(* over it.  The deadline, the caller's signal, the upstream and the       *)
(* decompressor race to settle it.  The upstream answers as it likes, in   *)
(* chunks of one unit; what it announces need not be what it sends.        *)
(***************************************************************************)
EXTENDS Integers

CONSTANTS
    Cap,            \* maxResponseBytes, counted decoded
    MaxChunks       \* bound: the chunks an upstream sends

ASSUME HttpAssumption == Cap \in Nat \ {0} /\ MaxChunks \in Nat

VARIABLES
    connection,     \* "none", "open", "ended" or "destroyed"
    response,       \* <<>> or the head of the response
    decoder,        \* "none", "open" or "destroyed"
    size,           \* the decoded chunks that are held
    armed,          \* the deadline's timer
    listening,      \* the listener of the caller's signal
    signal,         \* the caller's signal has fired
    settled         \* <<>>, <<"rejected", why>> or <<"resolved", status, size>>

httpVars == <<connection, response, decoder, size, armed, listening, signal, settled>>

Codings == {"identity", "gzip", "br", "deflate"}
Heads == [status : {200, 304, 500}, coding : Codings, announced : 0..(Cap + 1)]

HttpInit ==
    /\ connection = "none" /\ response = <<>> /\ decoder = "none" /\ size = 0
    /\ armed = FALSE /\ listening = FALSE /\ signal \in BOOLEAN /\ settled = <<>>

-----------------------------------------------------------------------------
\* rejectOnce, resolveOnce and cleanup: only the first call counts.
Settle(how) ==
    /\ settled' = IF settled = <<>> THEN how ELSE settled
    /\ armed' = FALSE /\ listening' = FALSE

\* rejectOnce: the decompressor goes with the promise.
Reject(why) ==
    /\ Settle(<<"rejected", why>>)
    /\ decoder' = IF settled = <<>> /\ decoder = "open" THEN "destroyed" ELSE decoder

\* requestText, up to req.end(): an aborted caller gets no connection.
Begin ==
    /\ connection = "none" /\ settled = <<>>
    /\ IF signal
         THEN settled' = <<"rejected", "aborted">> /\ UNCHANGED <<connection, armed, listening>>
         ELSE connection' = "open" /\ armed' = TRUE /\ listening' = TRUE /\ UNCHANGED settled
    /\ UNCHANGED <<response, decoder, size, signal>>

StatusHasNoBody(status) == status = 304

\* chooseDecoder, for a response with a body.
ChooseDecoder(head) ==
    CASE StatusHasNoBody(head.status) \/ head.coding = "identity" -> "identity"
      [] ~StatusHasNoBody(head.status) /\ head.coding \in {"gzip", "br"} -> "decode"
      [] OTHER -> "unsupported"

\* Fault: what the upstream announces is compared whatever its coding.
AnnouncedIsDecoded(head) == head.announced > Cap

\* The announced length says something of a body that is not decoded only.
TooLongAsAnnounced(head) == ChooseDecoder(head) = "identity" /\ head.announced > Cap

\* The head of the response.
Headed ==
    /\ connection = "open" /\ response = <<>>
    /\ \E head \in Heads :
          /\ response' = <<head>>
          /\ CASE ChooseDecoder(head) = "unsupported" ->
                    Reject("unsupported coding") /\ connection' = "destroyed"
               [] ChooseDecoder(head) # "unsupported" /\ TooLongAsAnnounced(head) ->
                    Reject("too large") /\ connection' = "destroyed"
               [] OTHER ->
                    /\ decoder' = IF ChooseDecoder(head) = "decode" THEN "open" ELSE "none"
                    /\ UNCHANGED <<connection, armed, listening, settled>>
    /\ UNCHANGED <<size, signal>>

Streaming ==
    /\ connection = "open" /\ response # <<>> /\ decoder # "destroyed"

\* Fault: the length announced is trusted.
Uncapped(n) == FALSE

OverCap(n) == n > Cap

\* A chunk comes out of the decompressor, or off the wire.
Chunk ==
    /\ Streaming /\ size < MaxChunks /\ ~StatusHasNoBody(response[1].status)
    /\ size' = size + 1
    /\ IF OverCap(size') THEN Reject("too large") /\ connection' = "destroyed"
       ELSE UNCHANGED <<connection, decoder, armed, listening, settled>>
    /\ UNCHANGED <<response, signal>>

\* The whole of the body has come.
End ==
    /\ Streaming
    /\ Settle(<<"resolved", response[1].status, size>>)
    /\ connection' = "ended"
    /\ UNCHANGED <<response, decoder, size, signal>>

\* The upstream, or the way to it, breaks off.
BrokenOff ==
    /\ connection = "open"
    /\ Reject("broken off") /\ connection' = "ended"
    /\ UNCHANGED <<response, size, signal>>

\* The decompressor meets what it cannot read.  The connection is left as it is.
Undecodable ==
    /\ Streaming /\ decoder = "open"
    /\ Reject("undecodable")
    /\ UNCHANGED <<connection, response, size, signal>>

Deadline ==
    /\ armed
    /\ Reject("timed out") /\ connection' = "destroyed"
    /\ UNCHANGED <<response, size, signal>>

\* Fault: the request is left to run to completion unread.
AbandonedUnread ==
    /\ ~signal /\ signal' = TRUE
    /\ IF listening THEN Reject("aborted")
       ELSE UNCHANGED <<decoder, armed, listening, settled>>
    /\ UNCHANGED <<connection, response, size>>

\* The caller's signal fires.
Abort ==
    /\ ~signal /\ signal' = TRUE
    /\ IF listening THEN Reject("aborted") /\ connection' = "destroyed"
       ELSE UNCHANGED <<connection, decoder, armed, listening, settled>>
    /\ UNCHANGED <<response, size>>

HttpNext ==
    \/ Begin \/ Headed \/ Chunk \/ End \/ BrokenOff \/ Undecodable \/ Deadline \/ Abort

HttpSpec == HttpInit /\ [][HttpNext]_httpVars /\ WF_httpVars(Begin) /\ WF_httpVars(Deadline)

-----------------------------------------------------------------------------
(* What its callers make of the answer. *)

\* conditionalGet: once it has been aborted its failure is thrown, never returned.
ConditionalGet ==
    CASE settled[1] = "rejected" -> IF signal THEN "thrown" ELSE "error"
      [] settled[1] = "resolved" -> CASE settled[2] = 304 -> "not-modified"
                                      [] settled[2] = 200 -> "ok"
                                      [] OTHER -> "error"

\* requestJson: the answer of a status that is none is thrown.
RequestJson(parses) ==
    IF settled[1] = "resolved" /\ settled[2] \in 200..299 /\ parses THEN "json" ELSE "thrown"

\* fetchAllPorts: a document of another shape is no empty index.
FetchAllPorts(parses, hasPorts) ==
    IF RequestJson(parses) = "json" /\ hasPorts THEN "ports" ELSE "thrown"

-----------------------------------------------------------------------------
\* A request settles with what the upstream sent or with a failure, whichever of the
\* racers comes first: what it resolves to is within the cap and was decoded, it holds
\* neither timer nor listener afterwards, its connection is over unless the
\* decompressor failed, and the abort of a caller never reads as a failed upstream.
RequestSound ==
    settled # <<>> =>
        /\ ~armed /\ ~listening
        /\ connection = "open" => settled = <<"rejected", "undecodable">>
        /\ settled[1] = "rejected" => decoder # "open"
        /\ settled[1] = "resolved" =>
              /\ settled[3] = size /\ size <= Cap
              /\ ChooseDecoder(response[1]) # "unsupported"
              /\ ConditionalGet = "not-modified" => size = 0
        /\ settled = <<"rejected", "too large">> =>
              size > Cap \/ (response[1].coding = "identity" \/ response[1].status = 304)
        /\ ConditionalGet \in {"ok", "not-modified"} => settled[1] = "resolved"
        /\ settled = <<"rejected", "aborted">> =>
              ConditionalGet = "thrown" /\ FetchAllPorts(TRUE, TRUE) = "thrown"

\* Every request settles, whatever the upstream does.
RequestSettles == <>(settled # <<>>)
=============================================================================
