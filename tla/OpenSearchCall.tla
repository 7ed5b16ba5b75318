-------------------------- MODULE OpenSearchCall --------------------------
(***************************************************************************)
(* One call of GenericOpenSearchApiTool, from the write gate to the text   *)
(* it returns: a client is made for the call and closed after it; the      *)
(* transport of opensearch-py asks BufferedAsyncHttpConnection up to       *)
(* 1 + MaxRetries times; the connection streams the response in chunks     *)
(* under a size limit and, when that raises anything but the size error,   *)
(* sends the whole request again through the parent class.                 *)
(***************************************************************************)
EXTENDS Integers

CONSTANTS
  Limits,       \* values max_response_size may have when it is set
  NoLimit,      \* max_response_size is None
  ChunkSize,    \* 8192
  MaxBody,      \* bound on the size of a response
  MaxRetries    \* retries of the transport (its default is 3)

ASSUME LimitsAssumption == Limits \subseteq Int /\ NoLimit \notin Int
ASSUME SizesAssumption == ChunkSize \in Nat \ {0} /\ MaxBody \in Nat /\ MaxRetries \in Nat

VARIABLES
  limit,        \* max_response_size of the connection, or NoLimit
  allowWrite,   \* registry['allow_write']
  pc,
  method,       \* "read" (GET, HEAD) or "write"
  clientOpen,   \* the client of the call holds a session
  attempt,      \* retries the transport has used
  sends,        \* requests put on the wire for this call
  executed,     \* how often the cluster carried the request out
  lost,         \* how often it did and the answer did not arrive
  status,       \* status of the response being read
  body,         \* its size
  received,     \* bytes of it read so far
  cause,        \* why streaming, or the whole request, failed
  cleanup,      \* how the close() of the client went
  result        \* how the call ended

config == <<limit, allowWrite>>
wire == <<sends, executed, lost, status, body, received>>
vars == <<config, pc, method, clientOpen, attempt, wire, cause, cleanup, result>>

Sizes == 0..MaxBody
Transport == {"connection", "timeout"}    \* no complete answer
Statuses == {"2xx", "4xx", "5xx"}         \* 5xx: 502, 503 or 504
Limited == limit # NoLimit

Init ==
  /\ limit \in {NoLimit} \cup Limits
  /\ allowWrite \in BOOLEAN
  /\ pc = "idle"
  /\ method = "read"
  /\ clientOpen = FALSE
  /\ attempt = 0
  /\ sends = 0 /\ executed = 0 /\ lost = 0
  /\ status = "none" /\ body = 0 /\ received = 0
  /\ cause = "none"
  /\ cleanup = "none"
  /\ result = "none"
--------------------------------------------------------------------------
\* The tool rejects an unknown method or a path without its slash, and a
\* write while writes are switched off.
Call(m, wellFormed) ==
  /\ pc = "idle"
  /\ method' = m
  /\ IF ~wellFormed \/ (m = "write" /\ ~allowWrite)
     THEN pc' = "done" /\ result' = "refused"
     ELSE pc' = "opening" /\ UNCHANGED result
  /\ UNCHANGED <<config, clientOpen, attempt, wire, cause, cleanup>>

\* initialize_client, inside the try of the context manager.
Open ==
  /\ pc = "opening"
  /\ \/ clientOpen' = TRUE /\ pc' = "ready" /\ UNCHANGED result
     \/ result' = "configuration" /\ pc' = "done" /\ UNCHANGED clientOpen
  /\ UNCHANGED <<config, method, attempt, wire, cause, cleanup>>

\* Mutant: only the success path closes the client.
MutLeave(how) ==
  /\ result' = how
  /\ pc' = IF how = "ok" THEN "closing" ELSE "done"

\* The async with block is left with a result or an exception.
Leave(how) == result' = how /\ pc' = "closing"
--------------------------------------------------------------------------
\* What becomes of a request put on the wire: an answer of some status and
\* size begins, or it fails before that.  A gateway that answers 5xx does not
\* know, any more than a broken connection, whether the cluster carried it out.
NobodyKnows == \E n \in {0, 1} : executed' = executed + n /\ lost' = lost + n

Answered(s, b) ==
  /\ sends' = sends + 1
  /\ status' = s
  /\ body' = b
  /\ \/ s = "2xx" /\ executed' = executed + 1 /\ UNCHANGED lost
     \/ s = "4xx" /\ UNCHANGED <<executed, lost>>
     \/ s = "5xx" /\ NobodyKnows

Unanswered ==
  /\ sends' = sends + 1
  /\ status' = "none" /\ body' = 0 /\ received' = 0
  /\ NobodyKnows
--------------------------------------------------------------------------
\* perform_request: the streaming attempt.
Send ==
  /\ pc = "ready"
  /\ \/ \E s \in Statuses, b \in Sizes :
          Answered(s, b) /\ received' = 0 /\ pc' = "streaming" /\ UNCHANGED cause
     \/ Unanswered /\ cause' \in Transport /\ pc' = "failed"
  /\ UNCHANGED <<config, method, clientOpen, attempt, cleanup, result>>

\* Mutant: the last chunk is counted as a whole one.
MutChunk == ChunkSize

Chunk == IF body - received < ChunkSize THEN body - received ELSE ChunkSize

OverLimit == Limited /\ received + Chunk > limit

\* Mutant: the total is the size of the last chunk.
MutReadChunk ==
  /\ pc = "streaming"
  /\ received < body
  /\ ~OverLimit
  /\ received' = Chunk
  /\ UNCHANGED <<config, pc, method, clientOpen, attempt, sends, executed, lost,
                 status, body, cause, cleanup, result>>

ReadChunk ==
  /\ pc = "streaming"
  /\ received < body
  /\ ~OverLimit
  /\ received' = received + Chunk
  /\ UNCHANGED <<config, pc, method, clientOpen, attempt, sends, executed, lost,
                 status, body, cause, cleanup, result>>

\* Mutant: the size error is handled like every other exception.
MutExceedLimit ==
  /\ pc = "streaming"
  /\ received < body
  /\ OverLimit
  /\ received' = received + Chunk
  /\ cause' = "size"
  /\ pc' = "failed"
  /\ UNCHANGED <<config, method, clientOpen, attempt, sends, executed, lost,
                 status, body, cleanup, result>>

\* ResponseSizeExceededError is no TransportError: nobody retries it.
ExceedLimit ==
  /\ pc = "streaming"
  /\ received < body
  /\ OverLimit
  /\ received' = received + Chunk
  /\ Leave("size")
  /\ UNCHANGED <<config, method, clientOpen, attempt, sends, executed, lost,
                 status, body, cause, cleanup>>

\* The connection breaks, or the total timeout expires, in mid-response.
StreamBreaks ==
  /\ pc = "streaming"
  /\ cause' \in Transport
  /\ lost' = IF status = "2xx" THEN lost + 1 ELSE lost
  /\ pc' = "failed"
  /\ UNCHANGED <<config, method, clientOpen, attempt, sends, executed, status,
                 body, received, cleanup, result>>

\* The response is complete.  _raise_error is called inside the try.
StreamEnds ==
  /\ pc = "streaming"
  /\ received = body
  /\ \/ status = "2xx" /\ Leave("ok") /\ UNCHANGED cause
     \/ status # "2xx" /\ cause' = status /\ pc' = "failed" /\ UNCHANGED result
  /\ UNCHANGED <<config, method, clientOpen, attempt, wire, cleanup>>

\* Mutant: the size of what the parent downloaded is not checked.
MutTooLarge(b) == FALSE

TooLarge(b) == Limited /\ b > limit

\* _fallback_perform_request: the parent sends the request again, downloads
\* the whole response, and the size is compared with the limit afterwards.
Fallback ==
  /\ pc = "failed"
  /\ \/ \E b \in Sizes :
          /\ Answered("2xx", b) /\ received' = b
          /\ \/ TooLarge(b) /\ Leave("size") /\ UNCHANGED cause
             \/ ~TooLarge(b) /\ Leave("ok") /\ UNCHANGED cause
     \/ \E s \in Statuses \ {"2xx"}, b \in Sizes :
          /\ Answered(s, b) /\ received' = b
          /\ cause' = s /\ pc' = "raised" /\ UNCHANGED result
     \/ Unanswered /\ cause' \in Transport /\ pc' = "raised" /\ UNCHANGED result
  /\ UNCHANGED <<config, method, clientOpen, attempt, cleanup>>
--------------------------------------------------------------------------
Retryable == cause \in {"connection", "5xx"}

\* The transport retries what both tries of the connection failed to get.
Retry ==
  /\ pc = "raised"
  /\ Retryable
  /\ attempt < MaxRetries
  /\ attempt' = attempt + 1
  /\ pc' = "ready"
  /\ UNCHANGED <<config, method, clientOpen, wire, cause, cleanup, result>>

GiveUp ==
  /\ pc = "raised"
  /\ ~Retryable \/ attempt = MaxRetries
  /\ Leave(cause)
  /\ UNCHANGED <<config, method, clientOpen, attempt, wire, cause, cleanup>>

\* The MCP client cancels the call: CancelledError is no Exception, so neither
\* the connection nor the transport tries again.
Cancel ==
  /\ pc \in {"ready", "streaming", "failed", "raised"}
  /\ Leave("cancelled")
  /\ UNCHANGED <<config, method, clientOpen, attempt, wire, cause, cleanup>>

\* Mutant: an exception of close() takes the place of the result.
MutClose ==
  /\ pc = "closing"
  /\ \/ clientOpen' = FALSE /\ cleanup' = "closed" /\ UNCHANGED result
     \/ clientOpen' \in BOOLEAN /\ cleanup' = "raised" /\ result' = "connection"
  /\ pc' = "done"
  /\ UNCHANGED <<config, method, attempt, wire, cause>>

\* The finally clause.  An exception of close(), before or after the session
\* is gone, is logged and dropped.
Close ==
  /\ pc = "closing"
  /\ \/ clientOpen' = FALSE /\ cleanup' = "closed"
     \/ clientOpen' \in BOOLEAN /\ cleanup' = "raised"
  /\ pc' = "done"
  /\ UNCHANGED <<config, method, attempt, wire, cause, result>>

\* The same clause does not take a cancellation at the await of close(); what
\* the call had to return is lost with it.
CancelClose ==
  /\ pc = "closing"
  /\ clientOpen' \in BOOLEAN /\ cleanup' = "cancelled"
  /\ result' = "cancelled"
  /\ pc' = "done"
  /\ UNCHANGED <<config, method, attempt, wire, cause>>

\* The text of the result or of the error goes back to the agent.  A session
\* that is still open is nobody's: the next call makes a client of its own.
Finish ==
  /\ pc = "done"
  /\ pc' = "idle"
  /\ method' = "read"
  /\ clientOpen' = FALSE
  /\ attempt' = 0
  /\ sends' = 0 /\ executed' = 0 /\ lost' = 0
  /\ status' = "none" /\ body' = 0 /\ received' = 0
  /\ cause' = "none"
  /\ cleanup' = "none"
  /\ result' = "none"
  /\ UNCHANGED config
--------------------------------------------------------------------------
Progress ==
  \/ Open \/ Send \/ ReadChunk \/ ExceedLimit \/ StreamBreaks \/ StreamEnds
  \/ Fallback \/ Retry \/ GiveUp \/ Close \/ Finish

Next == (\E m \in {"read", "write"}, wellFormed \in BOOLEAN : Call(m, wellFormed)) \/ Progress \/ Cancel \/ CancelClose

Spec == Init /\ [][Next]_vars

\* aiohttp's total timeout ends every exchange with the cluster.
FairSpec == Spec /\ WF_vars(Progress)
--------------------------------------------------------------------------
Causes == Transport \cup (Statuses \ {"2xx"})

\* Every variable has its type, and at most two requests go out per attempt.
TypeOK ==
  /\ limit \in {NoLimit} \cup Limits
  /\ allowWrite \in BOOLEAN
  /\ pc \in {"idle", "opening", "ready", "streaming", "failed", "raised", "closing", "done"}
  /\ method \in {"read", "write"}
  /\ clientOpen \in BOOLEAN
  /\ attempt \in 0..MaxRetries
  /\ sends \in 0..(2 * (MaxRetries + 1))
  /\ executed \in 0..sends
  /\ lost \in 0..executed
  /\ status \in Statuses \cup {"none"}
  /\ body \in Sizes
  /\ received \in 0..body
  /\ cause \in Causes \cup {"none"}
  /\ cleanup \in {"none", "closed", "raised", "cancelled"}
  /\ result \in {"none", "ok", "refused", "configuration", "size", "cancelled"} \cup Causes

\* While the response is streamed no more than the limit is kept, and a
\* response over the limit is never the reason for sending the request again.
StreamWithinLimit ==
  Limited /\ received > limit /\ received > 0 => pc \notin {"streaming", "failed"}

\* No tool sees a response over the limit, whichever of the two paths and
\* whichever of the retries obtained it.
ResultWithinLimit == result = "ok" /\ Limited => received <= limit \/ received = 0

\* The request is carried out again only because an answer was lost: all
\* executions but one are executions whose answer did not arrive.  A write
\* that was answered is never repeated, also when its answer is too large.
RepeatedOnlyWhenLost == executed <= lost + 1

\* However a call ends, its client has been closed by then, unless close()
\* itself raised or was cancelled while it was awaited.
ClientReleased == pc = "done" /\ clientOpen => cleanup \in {"raised", "cancelled"}

\* Once the last request was answered well, completely and within the limit,
\* that answer is the result: no failure of an earlier request or of close(),
\* which is not to mask anything, turns it into an error.  Only a cancellation
\* loses it.
GoodAnswerKept ==
  pc = "done" /\ status = "2xx" /\ received = body /\ ~TooLarge(received) =>
    result \in {"ok", "cancelled"}

\* Every call ends.
CallEnds == pc # "idle" ~> pc = "idle"
===========================================================================
