------------------------------- MODULE MCRequest -------------------------------
(***************************************************************************)
(* Instances for TLC of one request: what the log says of it, and its      *)
(* upstream stream.  A behaviour is one of the two, as picked; the         *)
(* variables of the other stay as they are.                                *)
(***************************************************************************)
EXTENDS RequestLog

CONSTANT MaxParts

ASSUME StreamAssumption == MaxParts \in Nat

VARIABLES
  picked,
  timer, aborted, next, wrap, at, acquisition, started, refused, parts, exhausted, deliveries

Stream == INSTANCE UpstreamStream

logVars == <<stage, mode, raw, telemetry, status, gone, ended, cancelled, reported>>
streamVars == <<timer, aborted, next, wrap, at, acquisition, started, refused, parts, exhausted,
                deliveries>>
allVars == <<picked, logVars, streamVars>>

MCInit ==
  /\ picked \in {"log", "stream"}
  /\ Init /\ Stream!Init
  /\ picked = "log" => aborted = "none"
  /\ picked = "stream" => mode = "stream" /\ ~raw

OnlyLog == picked = "log" /\ UNCHANGED <<picked, streamVars>>
OnlyStream == picked = "stream" /\ UNCHANGED <<picked, logVars>>

MCNext == (OnlyLog /\ Next) \/ (OnlyStream /\ Stream!Next)

(* The fairness of RequestLog and of UpstreamStream.                       *)
MCSpec ==
  /\ MCInit /\ [][MCNext]_allVars
  /\ WF_allVars(OnlyLog /\ Early) /\ WF_allVars(OnlyLog /\ StartResponse)
  /\ WF_allVars(OnlyLog /\ Deadline)
  /\ WF_allVars(OnlyLog /\ ResponseEnds) /\ WF_allVars(OnlyLog /\ CancelEnds)
  /\ WF_allVars(OnlyStream /\ Stream!Inspector) /\ WF_allVars(OnlyStream /\ Stream!Hook)
  /\ WF_allVars(OnlyStream /\ Stream!DeadlineFires)
  /\ WF_allVars(OnlyStream /\ Stream!CancelResolves)
  /\ WF_allVars(OnlyStream /\ Stream!BoundReached)

-----------------------------------------------------------------------------
(* Every request ends with a request.completed event.                      *)
RequestCompletes == picked = "log" => Completes

(* The deadline is there as long as the upstream needs it, and no longer:  *)
(* see DeadlineGuardsUpstream and NoTimerAfterEnd in UpstreamStream.       *)
TimerGuardsUpstream == Stream!TypeOK /\ Stream!DeadlineGuardsUpstream /\ Stream!NoTimerAfterEnd

(* Every upstream is released, whoever waits for the stream is answered,   *)
(* and a failure of the upstream's cleanup reaches the log.                *)
StreamSettles ==
  picked = "stream" =>
    Stream!UpstreamReleased /\ Stream!ConsumerAnswered /\ Stream!CleanupFailureTold
=============================================================================
