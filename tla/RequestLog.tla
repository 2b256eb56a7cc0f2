------------------------------ MODULE RequestLog ------------------------------
(***************************************************************************)
(* What the log says of one protocol request (src/server/handle-protocol.  *)
(* ts and the middleware of src/server/app.ts).  A request is validated,   *)
(* routed, executed against the upstream as a stream, as a stream that is  *)
(* collected, or as one call, and answered; meanwhile the client may go    *)
(* away, the upstream may fail before, in or after its parts, a plugin may *)
(* refuse the stream and a renderer may throw.  All of them write the same *)
(* telemetry, from which one request.completed event is logged, and an     *)
(* entry of the error log (NDJSON) for real failures.                      *)
(***************************************************************************)
EXTENDS Naturals, FiniteSets

CONSTANTS
  Modes               \* execution modes: "stream", "stream-only", "generate"

ASSUME ModesAreModes == Modes \subseteq {"stream", "stream-only", "generate"}

(* What classifyUpstreamFailure makes of an error.                         *)
Failures == {"timeout", "auth_required", "rate_limited", "upstream_aborted", "upstream_error"}

Outcomes == Failures \cup
  {"none", "success", "validation_error", "routing_error", "client_error", "incomplete_stream",
   "client_cancelled", "internal_error"}

Stages == {"received", "acquiring", "probing", "flowing", "cancelling", "completed"}

VARIABLES
  stage,              \* how far the request is
  mode,               \* telemetry.executionMode
  raw,                \* the renderer passes the upstream's own events through
  telemetry,          \* outcome, explicitFailure, terminalPart, pendingStreamError, ...
  status,             \* of the response: "none", "ok", "client", "server"
  gone,               \* the client's connection has ended
  ended,              \* the upstream stream has ended
  cancelled,          \* the client was seen to go before any failure
  reported            \* the failures the upstream itself reported

vars == <<stage, mode, raw, telemetry, status, gone, ended, cancelled, reported>>

Init ==
  /\ stage = "received"
  /\ mode \in Modes
  /\ raw \in BOOLEAN
  /\ telemetry = [outcome |-> "none", explicitFailure |-> FALSE, terminalPart |-> "none",
                  pendingStreamError |-> "none", ndjsonWritten |-> FALSE]
  /\ status = "none"
  /\ gone = FALSE
  /\ ended = FALSE
  /\ cancelled = FALSE
  /\ reported = {}

-----------------------------------------------------------------------------
(* What the steps make of the telemetry t.                                 *)

(* Faulty: a later outcome replaces the failure.                           *)
WithOutcome_Faulty(t, outcome, failure) ==
  [t EXCEPT !.outcome = outcome, !.explicitFailure = @ \/ failure]

(* setOutcome: the first failure stays.                                    *)
WithOutcome(t, outcome, failure) ==
  IF t.explicitFailure THEN t
  ELSE [t EXCEPT !.outcome = outcome, !.explicitFailure = failure]

(* Faulty: the outcome alone is looked at.                                 *)
CausedByClient_Faulty(t, failure) == FALSE

(* A client that went away made the upstream abort.                        *)
CausedByClient(t, failure) == t.outcome = "client_cancelled" /\ failure = "upstream_aborted"

TerminalOf(failure) == IF failure = "upstream_aborted" THEN "abort" ELSE "error"

(* Faulty: the last failure wins.                                          *)
WithFailure_Faulty(t, failure) ==
  [t EXCEPT !.outcome = failure, !.explicitFailure = TRUE, !.terminalPart = TerminalOf(failure)]

(* applyUpstreamFailure: only a cancellation gives way to a failure.       *)
WithFailure(t, failure) ==
  IF CausedByClient(t, failure) THEN
    [t EXCEPT !.terminalPart = "abort", !.explicitFailure = TRUE]
  ELSE IF t.explicitFailure /\ t.outcome # "client_cancelled" THEN t
  ELSE [t EXCEPT !.outcome = failure, !.explicitFailure = TRUE,
                 !.terminalPart = TerminalOf(failure)]

(* Faulty: every failure is written.                                       *)
ShouldWrite_Faulty(failure) == TRUE

(* shouldWriteErrorPreview                                                 *)
ShouldWrite(failure) == failure \in {"timeout", "upstream_error"}

WithErrorLog(t, failure) ==
  [t EXCEPT !.ndjsonWritten = @ \/ ShouldWrite(failure)]

(* recordFailure of observeTerminalParts                                   *)
Recorded(t, failure) ==
  IF CausedByClient(t, failure) THEN [t EXCEPT !.pendingStreamError = "none"]
  ELSE [WithErrorLog(WithFailure(t, failure), failure) EXCEPT !.pendingStreamError = "none"]

(* handleUpstreamError                                                     *)
Handled(t, failure) == WithErrorLog(WithFailure(t, failure), failure)

(* markInternalFailure                                                     *)
WithInternalFailure(t) ==
  IF t.explicitFailure THEN t
  ELSE [t EXCEPT !.outcome = "internal_error", !.explicitFailure = TRUE, !.terminalPart = "error"]

(* A finish part, which ends nothing yet.                                  *)
Finished(t) ==
  [WithOutcome(t, "success", FALSE) EXCEPT
     !.terminalPart = IF t.explicitFailure THEN @ ELSE "finish",
     !.pendingStreamError = "none"]

AbortSeen(t) ==
  [WithOutcome(t, "upstream_aborted", TRUE) EXCEPT
     !.terminalPart = IF t.explicitFailure THEN @ ELSE "abort",
     !.pendingStreamError = "none"]

(* Faulty: an error that the stream kept to itself is forgotten.           *)
EndSeen_Faulty(t) ==
  IF t.terminalPart # "none" THEN t ELSE [t EXCEPT !.terminalPart = "eof"]

(* The stream ended: without a terminal part it failed, with the error     *)
(* that streamText kept or as an incomplete stream.                        *)
EndSeen(t) ==
  IF t.terminalPart # "none" THEN t
  ELSE IF t.pendingStreamError # "none" THEN Recorded(t, t.pendingStreamError)
  ELSE IF t.outcome = "client_cancelled" THEN t
  ELSE [WithOutcome(t, "incomplete_stream", TRUE) EXCEPT !.terminalPart = "eof"]

StatusOf(failure) ==
  CASE failure \in {"auth_required", "rate_limited"} -> "client" [] OTHER -> "server"

-----------------------------------------------------------------------------
(* The middleware.                                                         *)

(* Faulty: only a success is told from the status.                         *)
OutcomeFromStatus_Faulty(s) == IF s = "ok" THEN "success" ELSE "none"

OutcomeFromStatus(s) ==
  CASE s = "ok" -> "success" [] s = "client" -> "client_error" [] s = "server" -> "internal_error"

(* logCompleted                                                            *)
Completed(t, s) ==
  /\ stage' = "completed"
  /\ status' = s
  /\ telemetry' = IF t.outcome # "none" THEN t ELSE [t EXCEPT !.outcome = OutcomeFromStatus(s)]

(* An exception of the handler is answered by app.onError.                 *)
Crashed(t) == Completed(WithOutcome(t, "internal_error", TRUE), "server")

(* abortFromIncomingRequest                                                *)
ClientLeaves ==
  /\ stage # "completed"
  /\ ~gone
  /\ gone' = TRUE
  /\ cancelled' = (cancelled \/ ~telemetry.explicitFailure)
  /\ telemetry' = WithOutcome(telemetry, "client_cancelled", TRUE)
  /\ UNCHANGED <<stage, mode, raw, status, ended, reported>>

-----------------------------------------------------------------------------
(* Before the upstream is called.                                          *)

Unchanged == UNCHANGED <<mode, raw, gone, cancelled>>

Refuse(outcome) ==
  /\ stage = "received"
  /\ Completed(WithOutcome(telemetry, outcome, TRUE), "client")
  /\ Unchanged /\ UNCHANGED <<ended, reported>>

(* An unsupported image, or one that could not be taken out.               *)
RefuseVision(s) ==
  /\ stage = "received"
  /\ Completed(telemetry, s)
  /\ Unchanged /\ UNCHANGED <<ended, reported>>

CrashEarly ==
  /\ stage = "received"
  /\ Crashed(telemetry)
  /\ Unchanged /\ UNCHANGED <<ended, reported>>

Resolve ==
  /\ stage = "received"
  /\ stage' = "acquiring"
  /\ Unchanged /\ UNCHANGED <<telemetry, status, ended, reported>>

-----------------------------------------------------------------------------
(* The first answer of the upstream, or the end of its deadline.           *)

GenerateSucceeds ==
  /\ stage = "acquiring" /\ mode = "generate"
  /\ LET t == WithOutcome(telemetry, "success", FALSE) IN
       Completed(t, "ok") \/ Crashed(WithInternalFailure(t))
  /\ Unchanged /\ UNCHANGED <<ended, reported>>

AcquisitionFails(failure) ==
  /\ stage = "acquiring"
  /\ reported' = reported \cup {failure}
  /\ Completed(Handled(telemetry, failure), StatusOf(failure))
  /\ Unchanged /\ UNCHANGED ended

(* A plugin answers for the first part of the stream.                      *)
PluginRefuses ==
  /\ stage = "acquiring" /\ mode # "generate"
  /\ Completed(WithOutcome(telemetry, "rate_limited", TRUE), "client")
  /\ Unchanged /\ UNCHANGED <<ended, reported>>

AcquireStream ==
  /\ stage = "acquiring" /\ mode # "generate"
  /\ stage' = IF mode = "stream" THEN "probing" ELSE "flowing"
  /\ Unchanged /\ UNCHANGED <<telemetry, status, ended, reported>>

(* The headers of the response are known: it starts.                       *)
StartResponse ==
  /\ stage = "probing"
  /\ \/ stage' = "flowing" /\ status' = "ok" /\ UNCHANGED telemetry
     \/ Crashed(WithInternalFailure(telemetry))
  /\ Unchanged /\ UNCHANGED <<ended, reported>>

-----------------------------------------------------------------------------
(* The stream.                                                             *)

(* Only a raw renderer's headers are looked for in the parts.              *)
Pulling == stage \in {"flowing", "cancelling"} \cup (IF raw THEN {"probing"} ELSE {}) /\ ~ended

(* streamText tells of an error before the stream does, if it does.        *)
OnError(failure) ==
  /\ Pulling
  /\ telemetry' = [telemetry EXCEPT !.pendingStreamError = failure]
  /\ reported' = reported \cup {failure}
  /\ Unchanged /\ UNCHANGED <<stage, status, ended>>

(* What the observer saw goes on to the renderer, which may stop there; a  *)
(* raw renderer stops at errors only.                                      *)
Passes(t, mayStop) ==
  /\ stage' = stage
  /\ telemetry' = t
  /\ ended' \in {ended, mayStop}
  /\ UNCHANGED status

(* collectStreamResult throws.                                             *)
Thrown(t, failure) == Completed(Handled(t, failure), StatusOf(failure)) /\ UNCHANGED ended

Collected(t) ==
  /\ Completed(t, "ok") \/ Crashed(WithInternalFailure(t))
  /\ UNCHANGED ended

(* With a raw renderer it is not this part that says how the stream ended. *)
FinishPart ==
  /\ Pulling
  /\ LET t == IF raw THEN telemetry ELSE Finished(telemetry) IN
       IF mode = "stream" THEN Passes(t, ~raw) ELSE Collected(t)
  /\ Unchanged /\ UNCHANGED reported

(* response.completed, response.incomplete and response.failed             *)
RawFinish ==
  /\ Pulling /\ raw
  /\ Passes(Finished(telemetry), FALSE)
  /\ Unchanged /\ UNCHANGED reported

RawFailure ==
  /\ Pulling /\ raw
  /\ reported' = reported \cup {"upstream_error"}
  /\ Passes(Recorded(telemetry, "upstream_error"), FALSE)
  /\ Unchanged

ErrorPart(failure) ==
  /\ Pulling
  /\ reported' = reported \cup {failure}
  /\ LET t == Recorded(telemetry, failure) IN
       IF mode = "stream" THEN Passes(t, TRUE) ELSE Thrown(t, failure)
  /\ Unchanged

AbortPart ==
  /\ Pulling
  /\ reported' = reported \cup {"upstream_aborted"}
  /\ LET t == AbortSeen(telemetry) IN
       IF mode = "stream" THEN Passes(t, ~raw) ELSE Thrown(t, "upstream_aborted")
  /\ Unchanged

(* The stream ends: RequestTimeout ends it for a client that went away.    *)
(* collectStreamResult throws an IncompleteStreamError of its own.         *)
StreamEnds ==
  /\ Pulling
  /\ ended' = TRUE
  /\ LET t == EndSeen(telemetry) IN
       IF mode = "stream" THEN stage' = stage /\ telemetry' = t /\ UNCHANGED status
       ELSE Completed(Handled(t, "upstream_error"), "server")
  /\ Unchanged /\ UNCHANGED reported

(* The stream throws: before the response starts the failure is answered,  *)
(* afterwards the renderer answers for it or the response breaks off.      *)
StreamFails(failure) ==
  /\ Pulling
  /\ reported' = reported \cup {failure}
  /\ ended' = TRUE
  /\ LET t == Recorded(telemetry, failure) IN
       IF mode = "stream" /\ stage # "probing" THEN
         \/ stage' = stage /\ telemetry' = t /\ UNCHANGED status
         \/ stage = "flowing" /\ Completed(WithInternalFailure(t), status)
       ELSE Completed(Handled(t, failure), StatusOf(failure))
  /\ Unchanged

(* The renderer throws.                                                    *)
RenderFails ==
  /\ stage = "flowing" /\ mode = "stream"
  /\ Completed(WithInternalFailure(telemetry), status)
  /\ Unchanged /\ UNCHANGED <<ended, reported>>

ResponseEnds ==
  /\ stage = "flowing" /\ mode = "stream" /\ ended
  /\ Completed(telemetry, status)
  /\ Unchanged /\ UNCHANGED <<ended, reported>>

(* The body of the response is cancelled: wrapStreamWithTerminalLog waits  *)
(* for the upstream to be cleaned up, and what it says meanwhile is still  *)
(* observed.                                                               *)
CancelBody ==
  /\ stage = "flowing" /\ mode = "stream"
  /\ stage' = "cancelling"
  /\ cancelled' = (cancelled \/ ~telemetry.explicitFailure)
  /\ telemetry' = WithOutcome(telemetry, "client_cancelled", TRUE)
  /\ gone' = TRUE
  /\ UNCHANGED <<mode, raw, status, ended, reported>>

(* Faulty: only a stream that ended by itself is logged.                   *)
CancelEnds_Faulty ==
  /\ stage = "cancelling" /\ ended
  /\ Completed(telemetry, status)
  /\ Unchanged /\ UNCHANGED <<ended, reported>>

CancelEnds ==
  /\ stage = "cancelling"
  /\ Completed(telemetry, status)
  /\ Unchanged /\ UNCHANGED <<ended, reported>>

-----------------------------------------------------------------------------
Early ==
  \/ \E o \in {"validation_error", "routing_error", "auth_required"} : Refuse(o)
  \/ \E s \in {"client", "server"} : RefuseVision(s)
  \/ CrashEarly \/ Resolve

Acquisition ==
  \/ GenerateSucceeds \/ PluginRefuses \/ AcquireStream \/ StartResponse
  \/ \E f \in Failures : AcquisitionFails(f)

Part ==
  \/ FinishPart \/ RawFinish \/ RawFailure \/ AbortPart
  \/ \E f \in Failures : OnError(f) \/ ErrorPart(f)

(* Each request has a deadline, which ends its wait for the upstream.      *)
Deadline == stage # "cancelling" /\ (AcquisitionFails("timeout") \/ StreamFails("timeout"))

Next ==
  \/ ClientLeaves \/ Early \/ Acquisition \/ Part
  \/ \E f \in Failures : StreamFails(f)
  \/ StreamEnds \/ RenderFails \/ ResponseEnds \/ CancelBody \/ CancelEnds

Spec ==
  /\ Init /\ [][Next]_vars
  /\ WF_vars(Early) /\ WF_vars(StartResponse) /\ WF_vars(Deadline)
  /\ WF_vars(ResponseEnds) /\ WF_vars(CancelEnds)

-----------------------------------------------------------------------------
(* Every variable keeps its type, and a completed request has an outcome.  *)
TypeOK ==
  /\ stage \in Stages
  /\ mode \in Modes /\ raw \in BOOLEAN
  /\ telemetry \in [outcome : Outcomes, explicitFailure : BOOLEAN,
                    terminalPart : {"none", "finish", "error", "abort", "eof"},
                    pendingStreamError : Failures \cup {"none"}, ndjsonWritten : BOOLEAN]
  /\ status \in {"none", "ok", "client", "server"}
  /\ stage = "completed" => telemetry.outcome # "none" /\ status # "none"
  /\ gone \in BOOLEAN /\ ended \in BOOLEAN /\ cancelled \in BOOLEAN
  /\ reported \subseteq Failures

(* A stream's status is sent before the stream is known to succeed: the    *)
(* outcome success still means that the upstream finished, that nothing    *)
(* failed and that the client was there to the end.                        *)
SuccessIsReal ==
  stage = "completed" /\ telemetry.outcome = "success" =>
    /\ status = "ok"
    /\ telemetry.terminalPart \in {"finish"} \cup (IF mode = "stream" THEN {} ELSE {"none"})
    /\ ~gone

(* The error log has the timeouts and the failures of upstream or stream,  *)
(* never an authentication, a rate limit or an abort.                      *)
OnlyRealFailuresWritten ==
  telemetry.ndjsonWritten =>
    \/ reported \cap {"timeout", "upstream_error"} # {}
    \/ mode = "stream-only" /\ ended

(* The failure that was diagnosed first is the one reported; only a        *)
(* client's departure gives way, to a failure of the upstream itself.      *)
FirstFailureStays ==
  [][telemetry.explicitFailure /\ telemetry'.outcome # telemetry.outcome
       => telemetry.outcome = "client_cancelled" /\ telemetry'.outcome \in Failures]_vars

(* A client that goes away is no failure: unless the upstream reports one  *)
(* of its own, the outcome says so and nothing is written to the error     *)
(* log.                                                                    *)
CancelIsQuiet ==
  cancelled /\ reported \subseteq {"upstream_aborted"} =>
    telemetry.outcome = "client_cancelled" /\ ~telemetry.ndjsonWritten

(* The same, but for streams that are collected.                           *)
CancelIsQuietUncollected == mode # "stream-only" => CancelIsQuiet

(* What is logged of a request that ended is what happened to it: a        *)
(* success was one, only real failures are in the error log, and a client  *)
(* that went away is not told as a failure of the upstream.                *)
LogIsReal == TypeOK /\ SuccessIsReal /\ OnlyRealFailuresWritten /\ CancelIsQuietUncollected

(* Every request ends with a request.completed event.                      *)
Completes == <>(stage = "completed")
=============================================================================
