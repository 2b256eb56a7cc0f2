--------------------------- MODULE RequestLogProofs ---------------------------
(***************************************************************************)
(* What TLAPS proves of MCRequest.  RequestLog: the log of a request is    *)
(* real, and its first failure stays, whatever the client, the upstream,   *)
(* the plugins and the renderer do and in whatever order; what a step does *)
(* to the telemetry is stated once for each of the operators that it is    *)
(* made of.  UpstreamStream, with any number of parts: the deadline is     *)
(* given up only when the upstream has ended or is being released, no      *)
(* timer is left when the stream is over, and no failure of the cleanup is *)
(* told twice.                                                             *)
(***************************************************************************)
EXTENDS MCRequest, TLAPS
-----------------------------------------------------------------------------
(* The log of a request (RequestLog).                                      *)

Telemetry ==
  [outcome : Outcomes, explicitFailure : BOOLEAN,
   terminalPart : {"none", "finish", "error", "abort", "eof"},
   pendingStreamError : Failures \cup {"none"}, ndjsonWritten : BOOLEAN]

(* A failure is an outcome, and so is the end of a stream; a success that  *)
(* is known before the request ends was told by the stream.                *)
Sound(t) ==
  /\ t \in Telemetry
  /\ t.explicitFailure => t.outcome \notin {"none", "success"}
  /\ t.outcome = "client_cancelled" => t.explicitFailure
  /\ t.terminalPart # "none" => t.outcome # "none"

(* What no step does: take a failure back, or replace it by another unless *)
(* it was the client's departure.                                          *)
Keeps(t, u) ==
  t.explicitFailure =>
    /\ u.explicitFailure
    /\ u.outcome # t.outcome => t.outcome = "client_cancelled" /\ u.outcome \in Failures

(* As long as nothing but an abort was reported.                           *)
Quiet(t, u) == t.outcome = "client_cancelled" /\ t.explicitFailure => u.outcome = t.outcome

-----------------------------------------------------------------------------
LEMMA OutcomeSet ==
  ASSUME NEW t, Sound(t), NEW o \in Outcomes, NEW failure \in BOOLEAN,
         o # "none", failure <=> o # "success"
  PROVE  /\ Sound(WithOutcome(t, o, failure))
         /\ Keeps(t, WithOutcome(t, o, failure)) /\ Quiet(t, WithOutcome(t, o, failure))
         /\ failure => WithOutcome(t, o, failure).explicitFailure
         /\ WithOutcome(t, o, failure).outcome # "none"
         /\ WithOutcome(t, o, failure).ndjsonWritten = t.ndjsonWritten
         /\ WithOutcome(t, o, failure).terminalPart = t.terminalPart
         /\ WithOutcome(t, o, failure).pendingStreamError = t.pendingStreamError
BY DEF Sound, Keeps, Quiet, WithOutcome, Telemetry

LEMMA FailureSet ==
  ASSUME NEW t, Sound(t), NEW f \in Failures
  PROVE  /\ Sound(WithFailure(t, f)) /\ Keeps(t, WithFailure(t, f))
         /\ f = "upstream_aborted" => Quiet(t, WithFailure(t, f))
         /\ WithFailure(t, f).explicitFailure
         /\ WithFailure(t, f).ndjsonWritten = t.ndjsonWritten
         /\ WithFailure(t, f).pendingStreamError = t.pendingStreamError
<1> DEFINE u == WithFailure(t, f)
<1>1. f \in Outcomes /\ f \notin {"none", "success", "client_cancelled"}
  BY DEF Outcomes, Failures
<1>2. TerminalOf(f) \in {"abort", "error"}
  BY DEF TerminalOf
<1>3. CASE CausedByClient(t, f)
  <2>1. u = [t EXCEPT !.terminalPart = "abort", !.explicitFailure = TRUE]
    BY <1>3 DEF WithFailure
  <2> HIDE DEF u
  <2> QED
    BY <1>3, <2>1 DEF Sound, Keeps, Quiet, Telemetry, CausedByClient, u
<1>4. CASE ~CausedByClient(t, f) /\ t.explicitFailure /\ t.outcome # "client_cancelled"
  <2>1. u = t
    BY <1>4 DEF WithFailure
  <2> QED
    BY <1>4, <2>1 DEF Keeps, Quiet
<1>5. CASE ~CausedByClient(t, f) /\ ~(t.explicitFailure /\ t.outcome # "client_cancelled")
  <2>1. u = [t EXCEPT !.outcome = f, !.explicitFailure = TRUE, !.terminalPart = TerminalOf(f)]
    BY <1>5 DEF WithFailure
  <2> HIDE DEF u
  <2>2. u \in Telemetry /\ u.outcome = f /\ u.explicitFailure
    BY <1>1, <1>2, <2>1 DEF Sound, Telemetry
  <2> QED
    BY <1>1, <1>5, <2>1, <2>2 DEF Sound, Keeps, Quiet, Telemetry, CausedByClient, u
<1> QED
  BY <1>3, <1>4, <1>5

LEMMA RecordedIs ==
  ASSUME NEW t, Sound(t), NEW f \in Failures
  PROVE  /\ Sound(Recorded(t, f)) /\ Keeps(t, Recorded(t, f))
         /\ f = "upstream_aborted" => Quiet(t, Recorded(t, f))
         /\ Recorded(t, f).explicitFailure
         /\ Recorded(t, f).ndjsonWritten => t.ndjsonWritten \/ f \in {"timeout", "upstream_error"}
         /\ Recorded(t, f).pendingStreamError = "none"
<1> DEFINE u == WithFailure(t, f)
<1>1. CASE CausedByClient(t, f)
  BY <1>1 DEF Recorded, CausedByClient, Sound, Keeps, Quiet, Telemetry
<1>2. CASE ~CausedByClient(t, f)
  <2>1. Recorded(t, f) = [u EXCEPT !.ndjsonWritten = @ \/ ShouldWrite(f), !.pendingStreamError = "none"]
    BY <1>2, FailureSet DEF Recorded, WithErrorLog, Sound, Telemetry
  <2>2. ShouldWrite(f) \in BOOLEAN /\ (ShouldWrite(f) => f \in {"timeout", "upstream_error"})
    BY DEF ShouldWrite
  <2>3. /\ Sound(u) /\ Keeps(t, u) /\ u.explicitFailure /\ u.ndjsonWritten = t.ndjsonWritten
        /\ f = "upstream_aborted" => Quiet(t, u)
    BY FailureSet
  <2> HIDE DEF u
  <2> QED
    BY <2>1, <2>2, <2>3 DEF Sound, Keeps, Quiet, Telemetry
<1> QED
  BY <1>1, <1>2

LEMMA HandledIs ==
  ASSUME NEW t, Sound(t), NEW f \in Failures
  PROVE  /\ Sound(Handled(t, f)) /\ Keeps(t, Handled(t, f))
         /\ f = "upstream_aborted" => Quiet(t, Handled(t, f))
         /\ Handled(t, f).explicitFailure
         /\ Handled(t, f).ndjsonWritten => t.ndjsonWritten \/ f \in {"timeout", "upstream_error"}
         /\ Handled(t, f).pendingStreamError = t.pendingStreamError
<1> DEFINE u == WithFailure(t, f)
<1>1. Handled(t, f) = [u EXCEPT !.ndjsonWritten = @ \/ ShouldWrite(f)]
  BY DEF Handled, WithErrorLog
<1>2. ShouldWrite(f) \in BOOLEAN /\ (ShouldWrite(f) => f \in {"timeout", "upstream_error"})
  BY DEF ShouldWrite
<1>3. /\ Sound(u) /\ Keeps(t, u) /\ u.explicitFailure /\ u.ndjsonWritten = t.ndjsonWritten
      /\ f = "upstream_aborted" => Quiet(t, u) /\ u.pendingStreamError = t.pendingStreamError
  BY FailureSet
<1>4. u.pendingStreamError = t.pendingStreamError
  BY FailureSet
<1> HIDE DEF u
<1> QED
  BY <1>1, <1>2, <1>3, <1>4 DEF Sound, Keeps, Quiet, Telemetry

LEMMA InternalFailureIs ==
  ASSUME NEW t, Sound(t)
  PROVE  LET u == WithInternalFailure(t) IN
           /\ Sound(u) /\ Keeps(t, u) /\ Quiet(t, u) /\ u.explicitFailure
           /\ u.ndjsonWritten = t.ndjsonWritten /\ u.pendingStreamError = t.pendingStreamError
BY DEF Sound, Keeps, Quiet, WithInternalFailure, Telemetry, Outcomes

LEMMA FinishedIs ==
  ASSUME NEW t, Sound(t)
  PROVE  LET u == Finished(t) IN
           /\ Sound(u) /\ Keeps(t, u) /\ Quiet(t, u) /\ u.outcome # "none"
           /\ u.outcome = "success" => u.terminalPart = "finish"
           /\ u.ndjsonWritten = t.ndjsonWritten /\ u.pendingStreamError = "none"
           /\ u.explicitFailure = t.explicitFailure
BY DEF Sound, Keeps, Quiet, Finished, WithOutcome, Telemetry, Outcomes

LEMMA AbortSeenIs ==
  ASSUME NEW t, Sound(t)
  PROVE  LET u == AbortSeen(t) IN
           /\ Sound(u) /\ Keeps(t, u) /\ Quiet(t, u) /\ u.explicitFailure
           /\ u.ndjsonWritten = t.ndjsonWritten /\ u.pendingStreamError = "none"
BY DEF Sound, Keeps, Quiet, AbortSeen, WithOutcome, Telemetry, Outcomes, Failures

(* Of what the stream kept to itself when it ends.                         *)
LEMMA EndSeenIs ==
  ASSUME NEW t, Sound(t)
  PROVE  LET u == EndSeen(t) f == t.pendingStreamError IN
           /\ Sound(u) /\ Keeps(t, u) /\ u.outcome # "none"
           /\ f \in {"none", "upstream_aborted"} => Quiet(t, u)
           /\ u.outcome = "success" => t.outcome = "success" /\ u.terminalPart = t.terminalPart
           /\ u.ndjsonWritten => t.ndjsonWritten \/ f \in {"timeout", "upstream_error"}
           /\ u.pendingStreamError \in {"none", f}
           /\ t.explicitFailure => u.explicitFailure
<1>1. CASE t.terminalPart # "none"
  BY <1>1 DEF EndSeen, Sound, Keeps, Quiet, Telemetry
<1>2. CASE t.terminalPart = "none" /\ t.pendingStreamError # "none"
  <2>1. t.pendingStreamError \in Failures
    BY <1>2 DEF Sound, Telemetry
  <2>2. EndSeen(t) = Recorded(t, t.pendingStreamError)
    BY <1>2 DEF EndSeen
  <2> QED
    BY <1>2, <2>1, <2>2, RecordedIs DEF Sound, Keeps
<1>3. CASE t.terminalPart = "none" /\ t.pendingStreamError = "none"
  BY <1>3 DEF EndSeen, WithOutcome, Sound, Keeps, Quiet, Telemetry, Outcomes
<1> QED
  BY <1>1, <1>2, <1>3

-----------------------------------------------------------------------------
Types ==
  /\ stage \in Stages /\ mode \in Modes /\ raw \in BOOLEAN
  /\ status \in {"none", "ok", "client", "server"}
  /\ gone \in BOOLEAN /\ ended \in BOOLEAN /\ cancelled \in BOOLEAN
  /\ reported \subseteq Failures

(* What is said of the request fits to how far it is.                      *)
Staged ==
  /\ stage \in {"received", "acquiring"} =>
       ~ended /\ telemetry.outcome \in {"none", "client_cancelled"}
  /\ stage \in {"probing", "cancelling"} => mode = "stream"
  /\ stage = "flowing" => mode # "generate"
  /\ stage = "cancelling" => gone
  /\ mode = "stream" /\ stage \in {"flowing", "cancelling"} => status = "ok"
  /\ ended /\ stage # "completed" => telemetry.outcome # "none"
  /\ stage = "completed" => telemetry.outcome # "none" /\ status # "none"

SuccessTold ==
  telemetry.outcome = "success" =>
    /\ telemetry.terminalPart = "finish" \/ (stage = "completed" /\ mode # "stream")
    /\ stage = "completed" => /\ status = "ok"
                              /\ telemetry.terminalPart \in {"none", "finish"}

DepartureTold ==
  /\ gone \/ cancelled => telemetry.explicitFailure
  /\ mode # "stream-only" /\ cancelled /\ reported \subseteq {"upstream_aborted"} =>
       telemetry.outcome = "client_cancelled"

FailuresTold ==
  /\ telemetry.pendingStreamError \in reported \cup {"none"}
  /\ OnlyRealFailuresWritten

IInv == Types /\ Sound(telemetry) /\ Staged /\ SuccessTold /\ DepartureTold /\ FailuresTold

LEMMA Initially == Init => IInv
<1> SUFFICES ASSUME Init PROVE IInv
  OBVIOUS
<1>1. Types
  <2>1. stage \in Stages /\ status \in {"none", "ok", "client", "server"} /\ reported \subseteq Failures
    BY DEF Init, Stages
  <2>2. gone \in BOOLEAN /\ ended \in BOOLEAN /\ cancelled \in BOOLEAN
    BY DEF Init
  <2>3. mode \in Modes /\ raw \in BOOLEAN
    BY DEF Init
  <2> QED
    BY <2>1, <2>2, <2>3, Zenon DEF Types
<1>2. Sound(telemetry)
  BY DEF Init, Sound, Telemetry, Outcomes
<1>3. Staged /\ SuccessTold
  BY DEF Init, Staged, SuccessTold
<1>4. DepartureTold /\ FailuresTold
  BY DEF Init, DepartureTold, FailuresTold, OnlyRealFailuresWritten
<1> QED
  BY <1>1, <1>2, <1>3, <1>4 DEF IInv

LEMMA InvIsReal == IInv => LogIsReal
<1> SUFFICES ASSUME IInv PROVE LogIsReal
  OBVIOUS
<1>1. TypeOK
  BY DEF IInv, Types, Sound, Telemetry, Staged, TypeOK
<1>2. SuccessIsReal
  BY DEF IInv, Sound, SuccessTold, DepartureTold, SuccessIsReal
<1>3. CancelIsQuietUncollected
  BY DEF IInv, DepartureTold, FailuresTold, OnlyRealFailuresWritten, CancelIsQuietUncollected,
     CancelIsQuiet
<1> QED
  BY <1>1, <1>2, <1>3 DEF LogIsReal, IInv, FailuresTold

-----------------------------------------------------------------------------
(* What the telemetry becomes, u, is what a step that reports the failures *)
(* of reported' may make of it.                                            *)
Follows(t, u) ==
  /\ Sound(u) /\ Keeps(t, u)
  /\ mode # "stream-only" /\ reported' \subseteq {"upstream_aborted"} => Quiet(t, u)
  /\ u.ndjsonWritten =>
       \/ t.ndjsonWritten
       \/ reported' \cap {"timeout", "upstream_error"} # {}
       \/ mode = "stream-only" /\ ended'
  /\ u.pendingStreamError \in reported' \cup {"none"}

(* A step that does not end the request.                                   *)
LEMMA GoesOn ==
  ASSUME IInv, stage # "completed", stage' = stage, status' = status,
         UNCHANGED <<mode, raw, gone, cancelled>>,
         ended' \in BOOLEAN, ended => ended', reported \subseteq reported', reported' \subseteq Failures,
         Follows(telemetry, telemetry'),
         stage \notin {"received", "acquiring"},
         ended' => ended \/ telemetry'.outcome # "none",
         telemetry'.outcome = "success" => telemetry'.terminalPart = "finish",
         telemetry.outcome # "none" => telemetry'.outcome # "none"
  PROVE  IInv'
<1>1. Types'
  BY DEF IInv, Types
<1>2. Sound(telemetry)'
  BY DEF Follows
<1>3. Staged'
  BY DEF IInv, Staged, Types
<1>4. SuccessTold'
  BY DEF SuccessTold
<1>5. DepartureTold'
  BY DEF IInv, DepartureTold, Follows, Keeps, Quiet
<1>6. FailuresTold'
  BY DEF IInv, FailuresTold, OnlyRealFailuresWritten, Follows
<1> QED
  BY <1>1, <1>2, <1>3, <1>4, <1>5, <1>6 DEF IInv

(* A step that ends the request with the telemetry t and the status s.     *)
LEMMA Ends ==
  ASSUME IInv, stage # "completed", NEW t, NEW s \in {"ok", "client", "server"}, Completed(t, s),
         UNCHANGED <<mode, raw, gone, cancelled>>,
         ended' \in BOOLEAN, ended => ended', reported \subseteq reported', reported' \subseteq Failures,
         Follows(telemetry, t),
         t.outcome = "success" => s = "ok" /\ (t.terminalPart = "finish" \/ (mode # "stream" /\ t.terminalPart = "none")),
         t.outcome = "none" /\ s = "ok" => mode # "stream"
  PROVE  IInv' /\ Keeps(telemetry, telemetry')
<1>1. CASE t.outcome # "none"
  <2>1. telemetry' = t /\ stage' = "completed" /\ status' = s
    BY <1>1 DEF Completed
  <2>2. Types'
    BY <2>1 DEF IInv, Types, Stages
  <2>3. Staged'
    BY <1>1, <2>1 DEF Staged
  <2>4. SuccessTold'
    BY <2>1 DEF SuccessTold
  <2>5. DepartureTold'
    BY <2>1 DEF IInv, DepartureTold, Follows, Keeps, Quiet
  <2>6. FailuresTold'
    BY <2>1 DEF IInv, FailuresTold, OnlyRealFailuresWritten, Follows
  <2> QED
    BY <2>1, <2>2, <2>3, <2>4, <2>5, <2>6 DEF IInv, Follows
<1>2. CASE t.outcome = "none"
  <2>1. telemetry' = [t EXCEPT !.outcome = OutcomeFromStatus(s)] /\ stage' = "completed" /\ status' = s
    BY <1>2 DEF Completed
  <2>2. /\ OutcomeFromStatus(s) \in Outcomes
        /\ OutcomeFromStatus(s) \notin {"none", "client_cancelled"}
        /\ OutcomeFromStatus(s) = "success" => s = "ok"
    BY DEF OutcomeFromStatus, Outcomes
  <2>3. ~t.explicitFailure /\ t \in Telemetry /\ t.terminalPart = "none"
    BY <1>2 DEF Follows, Sound
  <2>4. Types'
    BY <2>1 DEF IInv, Types, Stages
  <2>5. Sound(telemetry)' /\ ~telemetry'.explicitFailure /\ telemetry'.outcome = OutcomeFromStatus(s)
    BY <2>1, <2>2, <2>3 DEF Sound, Telemetry
  <2>6. /\ telemetry'.ndjsonWritten = t.ndjsonWritten /\ telemetry'.pendingStreamError = t.pendingStreamError
        /\ telemetry'.terminalPart = "none"
    BY <2>1, <2>3 DEF Telemetry
  <2>7. ~telemetry.explicitFailure
    BY <2>3 DEF Follows, Keeps
  <2>8. Staged'
    BY <2>1, <2>2, <2>5 DEF Staged
  <2>9. SuccessTold'
    BY <1>2, <2>1, <2>2, <2>5, <2>6 DEF SuccessTold
  <2>10. DepartureTold'
    BY <2>7 DEF IInv, DepartureTold
  <2>11. FailuresTold'
    BY <2>6 DEF IInv, FailuresTold, OnlyRealFailuresWritten, Follows
  <2> QED
    BY <2>4, <2>5, <2>7, <2>8, <2>9, <2>10, <2>11 DEF IInv, Keeps
<1> QED
  BY <1>1, <1>2

-----------------------------------------------------------------------------
(* The steps.                                                              *)
Good == IInv' /\ Keeps(telemetry, telemetry')

LEMMA ClientLeavesKeeps ==
  ASSUME IInv, ClientLeaves
  PROVE  Good
<1>1. telemetry' = WithOutcome(telemetry, "client_cancelled", TRUE)
  BY DEF ClientLeaves
<1>2. /\ Sound(telemetry') /\ Keeps(telemetry, telemetry') /\ Quiet(telemetry, telemetry')
      /\ telemetry'.explicitFailure /\ telemetry'.outcome # "none"
      /\ telemetry'.ndjsonWritten = telemetry.ndjsonWritten
      /\ telemetry'.pendingStreamError = telemetry.pendingStreamError
  BY <1>1, OutcomeSet DEF IInv, Outcomes
<1>3. ~telemetry.explicitFailure => telemetry'.outcome = "client_cancelled"
  BY <1>1 DEF WithOutcome, IInv, Sound, Telemetry
<1>4. Types'
  BY DEF ClientLeaves, IInv, Types
<1>5. Staged'
  <2>1. telemetry'.outcome \in {telemetry.outcome, "client_cancelled"}
    BY <1>1 DEF WithOutcome, IInv, Sound, Telemetry
  <2> QED
    BY <1>2, <2>1 DEF ClientLeaves, IInv, Staged
<1>6. SuccessTold'
  BY <1>2 DEF Sound, SuccessTold
<1>7. DepartureTold'
  BY <1>2, <1>3 DEF ClientLeaves, IInv, DepartureTold, Quiet
<1>8. FailuresTold'
  BY <1>2 DEF ClientLeaves, IInv, FailuresTold, OnlyRealFailuresWritten
<1> QED
  BY <1>2, <1>4, <1>5, <1>6, <1>7, <1>8 DEF Good, IInv

LEMMA EarlyKeeps ==
  ASSUME IInv, Early
  PROVE  Good
<1>1. ended \in BOOLEAN /\ reported \subseteq Failures
  BY DEF IInv, Types
<1>2. CASE \E o \in {"validation_error", "routing_error", "auth_required"} : Refuse(o)
  <2>1. PICK o \in {"validation_error", "routing_error", "auth_required"} : Refuse(o)
    BY <1>2
  <2> DEFINE t == WithOutcome(telemetry, o, TRUE)
  <2>2. /\ stage = "received" /\ Completed(t, "client")
        /\ UNCHANGED <<mode, raw, gone, cancelled, ended, reported>>
    BY <2>1 DEF Refuse, Unchanged
  <2>3. Follows(telemetry, t) /\ t.outcome \notin {"none", "success"}
    <3>1. /\ Sound(t) /\ Keeps(telemetry, t) /\ Quiet(telemetry, t) /\ t.explicitFailure
          /\ t.ndjsonWritten = telemetry.ndjsonWritten
          /\ t.pendingStreamError = telemetry.pendingStreamError
      BY OutcomeSet DEF IInv, Outcomes, Failures
    <3> HIDE DEF t
    <3> QED
      BY <3>1, <2>2 DEF IInv, Follows, FailuresTold, Sound
  <2> HIDE DEF t
  <2> QED
    BY <1>1, <2>2, <2>3, Ends DEF Good
<1>3. CASE \E s \in {"client", "server"} : RefuseVision(s)
  <2>1. PICK s \in {"client", "server"} : RefuseVision(s)
    BY <1>3
  <2>2. /\ stage = "received" /\ Completed(telemetry, s)
        /\ UNCHANGED <<mode, raw, gone, cancelled, ended, reported>>
    BY <2>1 DEF RefuseVision, Unchanged
  <2>3. Follows(telemetry, telemetry)
    BY <2>2 DEF IInv, Follows, Keeps, Quiet, FailuresTold
  <2>4. telemetry.outcome # "success"
    BY <2>2 DEF IInv, Staged
  <2> QED
    BY <1>1, <2>2, <2>3, <2>4, Ends DEF Good
<1>4. CASE CrashEarly
  <2> DEFINE t == WithOutcome(telemetry, "internal_error", TRUE)
  <2>2. /\ stage = "received" /\ Completed(t, "server")
        /\ UNCHANGED <<mode, raw, gone, cancelled, ended, reported>>
    BY <1>4 DEF CrashEarly, Crashed, Unchanged
  <2>3. Follows(telemetry, t) /\ t.outcome \notin {"none", "success"}
    <3>1. /\ Sound(t) /\ Keeps(telemetry, t) /\ Quiet(telemetry, t) /\ t.explicitFailure
          /\ t.ndjsonWritten = telemetry.ndjsonWritten
          /\ t.pendingStreamError = telemetry.pendingStreamError
      BY OutcomeSet DEF IInv, Outcomes
    <3> HIDE DEF t
    <3> QED
      BY <3>1, <2>2 DEF IInv, Follows, FailuresTold, Sound
  <2> HIDE DEF t
  <2> QED
    BY <1>1, <2>2, <2>3, Ends DEF Good
<1>5. CASE Resolve
  BY <1>5 DEF Resolve, Unchanged, Good, IInv, Types, Staged, SuccessTold, DepartureTold, FailuresTold,
     OnlyRealFailuresWritten, Stages, Keeps
<1> QED
  BY <1>2, <1>3, <1>4, <1>5 DEF Early

(* A failure is reported before it is told.                                *)
LEMMA RecordedFollows ==
  ASSUME IInv, NEW f \in Failures, reported' = reported \cup {f}
  PROVE  /\ Follows(telemetry, Recorded(telemetry, f))
         /\ Recorded(telemetry, f).outcome \notin {"none", "success"}
<1> DEFINE t == Recorded(telemetry, f)
<1>1. /\ Sound(t) /\ Keeps(telemetry, t)
      /\ f = "upstream_aborted" => Quiet(telemetry, t)
      /\ t.explicitFailure /\ t.pendingStreamError = "none"
      /\ t.ndjsonWritten => telemetry.ndjsonWritten \/ f \in {"timeout", "upstream_error"}
  BY RecordedIs DEF IInv
<1> HIDE DEF t
<1>2. t.outcome \notin {"none", "success"}
  BY <1>1 DEF Sound
<1>3. Follows(telemetry, t)
  BY <1>1 DEF Follows
<1> QED
  BY <1>2, <1>3 DEF t

LEMMA HandledFollows ==
  ASSUME IInv, NEW f \in Failures, f \in reported', reported \subseteq reported',
         NEW t, Follows(telemetry, t)
  PROVE  /\ Follows(telemetry, Handled(t, f))
         /\ Handled(t, f).outcome \notin {"none", "success"}
<1> DEFINE u == Handled(t, f)
<1>1. /\ Sound(u) /\ Keeps(t, u)
      /\ f = "upstream_aborted" => Quiet(t, u)
      /\ u.explicitFailure /\ u.pendingStreamError = t.pendingStreamError
      /\ u.ndjsonWritten => t.ndjsonWritten \/ f \in {"timeout", "upstream_error"}
  BY HandledIs DEF Follows
<1> HIDE DEF u
<1>2. u.outcome \notin {"none", "success"}
  BY <1>1 DEF Sound
<1>3. Keeps(telemetry, u)
  BY <1>1 DEF Keeps, Follows, Failures
<1>4. Quiet(telemetry, t) /\ Quiet(t, u) => Quiet(telemetry, u)
  BY DEF Quiet, Follows, Sound
<1>5. Follows(telemetry, u)
  BY <1>1, <1>3, <1>4 DEF Follows
<1> QED
  BY <1>2, <1>5 DEF u

LEMMA InternalFollows ==
  ASSUME IInv, reported \subseteq reported', NEW t, Follows(telemetry, t)
  PROVE  /\ Follows(telemetry, WithInternalFailure(t))
         /\ WithInternalFailure(t).outcome \notin {"none", "success"}
<1> DEFINE u == WithInternalFailure(t)
<1>1. /\ Sound(u) /\ Keeps(t, u) /\ Quiet(t, u) /\ u.explicitFailure
      /\ u.ndjsonWritten = t.ndjsonWritten /\ u.pendingStreamError = t.pendingStreamError
  BY InternalFailureIs DEF Follows
<1> HIDE DEF u
<1>2. u.outcome \notin {"none", "success"}
  BY <1>1 DEF Sound
<1>3. Keeps(telemetry, u)
  BY <1>1 DEF Keeps, Follows, Failures
<1>4. Quiet(telemetry, t) => Quiet(telemetry, u)
  BY <1>1 DEF Quiet, Follows, Sound
<1>5. Follows(telemetry, u)
  BY <1>1, <1>3, <1>4 DEF Follows
<1> QED
  BY <1>2, <1>5 DEF u

LEMMA SameFollows ==
  ASSUME IInv, reported' = reported
  PROVE  Follows(telemetry, telemetry)
BY DEF IInv, Follows, Keeps, Quiet, FailuresTold

(* An exception is answered as an internal error.                          *)
LEMMA CrashedKeeps ==
  ASSUME IInv, stage # "completed", NEW t, Follows(telemetry, t),
         Crashed(WithInternalFailure(t)),
         UNCHANGED <<mode, raw, gone, cancelled, ended, reported>>
  PROVE  Good
<1> DEFINE u == WithInternalFailure(t) v == WithOutcome(u, "internal_error", TRUE)
<1>1. Completed(v, "server")
  BY DEF Crashed
<1>2. Follows(telemetry, u) /\ u.outcome \notin {"none", "success"} /\ u.explicitFailure
  BY InternalFollows, InternalFailureIs DEF Follows
<1> HIDE DEF u
<1>3. v = u
  BY <1>2 DEF WithOutcome
<1> HIDE DEF v
<1>4. ended \in BOOLEAN /\ reported \subseteq Failures
  BY DEF IInv, Types
<1> QED
  BY <1>1, <1>2, <1>3, <1>4, Ends DEF Good

LEMMA AcquisitionKeeps ==
  ASSUME IInv, Acquisition
  PROVE  Good
<1>1. ended \in BOOLEAN /\ reported \subseteq Failures
  BY DEF IInv, Types
<1>2. CASE GenerateSucceeds
  <2> DEFINE t == WithOutcome(telemetry, "success", FALSE)
  <2>1. /\ stage = "acquiring" /\ mode = "generate"
        /\ Completed(t, "ok") \/ Crashed(WithInternalFailure(t))
        /\ UNCHANGED <<mode, raw, gone, cancelled, ended, reported>>
    BY <1>2 DEF GenerateSucceeds, Unchanged
  <2>2. /\ Sound(t) /\ Keeps(telemetry, t) /\ Quiet(telemetry, t) /\ t.outcome # "none"
        /\ t.ndjsonWritten = telemetry.ndjsonWritten /\ t.terminalPart = telemetry.terminalPart
        /\ t.pendingStreamError = telemetry.pendingStreamError
    BY OutcomeSet DEF IInv, Outcomes
  <2>3. t.outcome = "success" => t.terminalPart \in {"none", "finish"}
    <3>1. t.outcome = "success" => telemetry.outcome \in {"none", "success"} \/ ~telemetry.explicitFailure
      BY DEF WithOutcome, IInv, Sound
    <3>2. telemetry.outcome = "none" \/ telemetry.explicitFailure
      BY <2>1 DEF IInv, Staged, Sound
    <3>3. t.outcome = "success" => telemetry.outcome = "none"
      BY <3>2 DEF WithOutcome, IInv, Sound
    <3> HIDE DEF t
    <3> QED
      BY <2>2, <3>3 DEF IInv, Sound
  <2> HIDE DEF t
  <2>4. Follows(telemetry, t)
    BY <2>1, <2>2 DEF IInv, Follows, FailuresTold
  <2>5. CASE Completed(t, "ok")
    BY <1>1, <2>1, <2>2, <2>3, <2>4, <2>5, Ends DEF Good
  <2>6. CASE Crashed(WithInternalFailure(t))
    BY <2>1, <2>4, <2>6, CrashedKeeps
  <2> QED
    BY <2>1, <2>5, <2>6
<1>3. CASE PluginRefuses
  <2> DEFINE t == WithOutcome(telemetry, "rate_limited", TRUE)
  <2>1. /\ stage = "acquiring" /\ Completed(t, "client")
        /\ UNCHANGED <<mode, raw, gone, cancelled, ended, reported>>
    BY <1>3 DEF PluginRefuses, Unchanged
  <2>2. /\ Sound(t) /\ Keeps(telemetry, t) /\ Quiet(telemetry, t) /\ t.explicitFailure
        /\ t.ndjsonWritten = telemetry.ndjsonWritten
        /\ t.pendingStreamError = telemetry.pendingStreamError
    BY OutcomeSet DEF IInv, Outcomes, Failures
  <2> HIDE DEF t
  <2>3. Follows(telemetry, t) /\ t.outcome \notin {"none", "success"}
    BY <2>1, <2>2 DEF IInv, Follows, FailuresTold, Sound
  <2> QED
    BY <1>1, <2>1, <2>3, Ends DEF Good
<1>4. CASE AcquireStream
  BY <1>4 DEF AcquireStream, Unchanged, Good, IInv, Types, Staged, SuccessTold, DepartureTold,
     FailuresTold, OnlyRealFailuresWritten, Stages, Keeps
<1>5. CASE StartResponse
  <2>1. CASE stage' = "flowing" /\ status' = "ok" /\ UNCHANGED telemetry
    BY <1>5, <2>1 DEF StartResponse, Unchanged, Good, IInv, Types, Staged, SuccessTold, DepartureTold,
       FailuresTold, OnlyRealFailuresWritten, Stages, Keeps
  <2>2. CASE Crashed(WithInternalFailure(telemetry))
    BY <1>5, <2>2, SameFollows, CrashedKeeps DEF StartResponse, Unchanged
  <2> QED
    BY <1>5, <2>1, <2>2 DEF StartResponse
<1>6. CASE \E f \in Failures : AcquisitionFails(f)
  <2>1. PICK f \in Failures : AcquisitionFails(f)
    BY <1>6
  <2> DEFINE t == Handled(telemetry, f)
  <2>2. /\ stage = "acquiring" /\ Completed(t, StatusOf(f)) /\ reported' = reported \cup {f}
        /\ UNCHANGED <<mode, raw, gone, cancelled, ended>>
    BY <2>1 DEF AcquisitionFails, Unchanged
  <2>3. Follows(telemetry, telemetry)
    BY <2>2 DEF IInv, Follows, Keeps, Quiet, FailuresTold
  <2>4. Follows(telemetry, t) /\ t.outcome \notin {"none", "success"}
    BY <2>2, <2>3, HandledFollows
  <2>5. StatusOf(f) \in {"client", "server"}
    BY DEF StatusOf
  <2>6. reported' \subseteq Failures
    BY <1>1, <2>2
  <2> HIDE DEF t
  <2> QED
    BY <1>1, <2>2, <2>4, <2>5, <2>6, Ends DEF Good
<1> QED
  BY <1>2, <1>3, <1>4, <1>5, <1>6 DEF Acquisition

-----------------------------------------------------------------------------
(* The parts of the stream and its end.                                    *)
LEMMA WhilePulling ==
  ASSUME IInv, Pulling
  PROVE  /\ stage \in {"probing", "flowing", "cancelling"} /\ ~ended
         /\ ended \in BOOLEAN /\ reported \subseteq Failures
         /\ mode # "stream" => stage = "flowing"
BY DEF IInv, Types, Staged, Pulling

(* A part that goes on to the renderer.                                    *)
LEMMA PassesKeeps ==
  ASSUME IInv, Pulling, NEW t, NEW may \in BOOLEAN, Passes(t, may),
         UNCHANGED <<mode, raw, gone, cancelled>>,
         reported \subseteq reported', reported' \subseteq Failures,
         Follows(telemetry, t), t.outcome # "none",
         t.outcome = "success" => t.terminalPart = "finish"
  PROVE  Good
<1>1. stage' = stage /\ status' = status /\ telemetry' = t /\ ended' \in {ended, may}
  BY DEF Passes
<1>2. ended' \in BOOLEAN /\ (ended => ended')
  BY <1>1, WhilePulling
<1>3. IInv'
  BY <1>1, <1>2, WhilePulling, GoesOn
<1> QED
  BY <1>1, <1>3 DEF Good, Follows

LEMMA FinishedFollows ==
  ASSUME IInv, reported' = reported
  PROVE  /\ Follows(telemetry, Finished(telemetry)) /\ Finished(telemetry).outcome # "none"
         /\ Finished(telemetry).outcome = "success" => Finished(telemetry).terminalPart = "finish"
<1> DEFINE t == Finished(telemetry)
<1>1. /\ Sound(t) /\ Keeps(telemetry, t) /\ Quiet(telemetry, t) /\ t.outcome # "none"
      /\ t.outcome = "success" => t.terminalPart = "finish"
      /\ t.ndjsonWritten = telemetry.ndjsonWritten /\ t.pendingStreamError = "none"
  BY FinishedIs DEF IInv
<1> HIDE DEF t
<1>2. Follows(telemetry, t)
  BY <1>1 DEF Follows
<1> QED
  BY <1>1, <1>2 DEF t

LEMMA FinishPartKeeps ==
  ASSUME IInv, FinishPart
  PROVE  Good
<1> DEFINE t == IF raw THEN telemetry ELSE Finished(telemetry)
<1>1. /\ Pulling /\ reported' = reported
      /\ UNCHANGED <<mode, raw, gone, cancelled, reported>>
      /\ IF mode = "stream" THEN Passes(t, ~raw) ELSE Collected(t)
  BY DEF FinishPart, Unchanged
<1>2. /\ Follows(telemetry, t)
      /\ t.outcome = "success" => t.terminalPart = "finish"
      /\ raw \/ t.outcome # "none"
  <2>1. CASE raw
    BY <1>1, <2>1, SameFollows, WhilePulling DEF IInv, SuccessTold
  <2>2. CASE ~raw
    BY <1>1, <2>2, FinishedFollows
  <2> QED
    BY <2>1, <2>2
<1>3. raw => t = telemetry
  OBVIOUS
<1> HIDE DEF t
<1>4. CASE mode = "stream"
  <2>1. /\ stage' = stage /\ status' = status /\ telemetry' = t /\ ended' \in {ended, ~raw}
    BY <1>1, <1>4 DEF Passes
  <2>2. ended' \in BOOLEAN /\ (ended => ended')
    BY <1>1, <2>1, WhilePulling DEF IInv, Types
  <2>3. ended' => ended \/ t.outcome # "none"
    BY <1>2, <2>1
  <2>4. telemetry.outcome # "none" => t.outcome # "none"
    BY <1>2, <1>3
  <2>5. IInv'
    BY <1>1, <1>2, <2>1, <2>2, <2>3, <2>4, WhilePulling, GoesOn
  <2> QED
    BY <1>2, <2>1, <2>5 DEF Good, Follows
<1>5. CASE mode # "stream"
  <2>1. stage = "flowing" /\ ended' = ended
    BY <1>1, <1>5, WhilePulling DEF Collected
  <2>2. CASE Completed(t, "ok")
    BY <1>1, <1>2, <1>5, <2>1, <2>2, WhilePulling, Ends DEF Good
  <2>3. CASE Crashed(WithInternalFailure(t))
    BY <1>1, <1>2, <2>1, <2>3, CrashedKeeps
  <2> QED
    BY <1>1, <1>5, <2>2, <2>3 DEF Collected
<1> QED
  BY <1>4, <1>5

(* A failure that collectStreamResult throws.                              *)
LEMMA ThrownKeeps ==
  ASSUME IInv, stage # "completed", NEW t, NEW f \in Failures, NEW s \in {"client", "server"},
         Follows(telemetry, t), f \in reported' \/ (f = "upstream_error" /\ mode = "stream-only" /\ ended'),
         Completed(Handled(t, f), s),
         UNCHANGED <<mode, raw, gone, cancelled>>,
         ended' \in BOOLEAN, ended => ended', reported \subseteq reported', reported' \subseteq Failures
  PROVE  Good
<1> DEFINE u == Handled(t, f)
<1>1. Follows(telemetry, u) /\ u.outcome \notin {"none", "success"}
  <2>1. CASE f \in reported'
    BY <2>1, HandledFollows
  <2>2. CASE mode = "stream-only" /\ ended'
    <3>1. /\ Sound(u) /\ Keeps(t, u) /\ u.explicitFailure
          /\ u.pendingStreamError = t.pendingStreamError
      BY HandledIs DEF Follows
    <3> HIDE DEF u
    <3>2. Keeps(telemetry, u)
      BY <3>1 DEF Keeps, Follows, Failures
    <3> QED
      BY <2>2, <3>1, <3>2 DEF Follows, Sound
  <2> QED
    BY <2>1, <2>2
<1> HIDE DEF u
<1> QED
  BY <1>1, Ends DEF Good, u

LEMMA PartKeeps ==
  ASSUME IInv, Part
  PROVE  Good
<1>1. CASE FinishPart
  BY <1>1, FinishPartKeeps
<1>2. CASE RawFinish
  BY <1>2, FinishedFollows, PassesKeeps, WhilePulling DEF RawFinish, Unchanged
<1>3. CASE RawFailure
  <2>1. /\ Pulling /\ reported' = reported \cup {"upstream_error"}
        /\ Passes(Recorded(telemetry, "upstream_error"), FALSE)
        /\ UNCHANGED <<mode, raw, gone, cancelled>>
    BY <1>3 DEF RawFailure, Unchanged
  <2>2. "upstream_error" \in Failures
    BY DEF Failures
  <2>3. reported \subseteq reported' /\ reported' \subseteq Failures
    BY <2>1, <2>2, WhilePulling
  <2> QED
    BY <2>1, <2>2, <2>3, RecordedFollows, PassesKeeps
<1>4. CASE AbortPart
  <2> DEFINE t == AbortSeen(telemetry)
  <2>1. /\ Pulling /\ reported' = reported \cup {"upstream_aborted"}
        /\ IF mode = "stream" THEN Passes(t, ~raw) ELSE Thrown(t, "upstream_aborted")
        /\ UNCHANGED <<mode, raw, gone, cancelled>>
    BY <1>4 DEF AbortPart, Unchanged
  <2>2. "upstream_aborted" \in Failures
    BY DEF Failures
  <2>3. /\ reported \subseteq reported' /\ reported' \subseteq Failures
        /\ "upstream_aborted" \in reported'
    BY <2>1, <2>2, WhilePulling
  <2>4. Follows(telemetry, t) /\ t.outcome \notin {"none", "success"}
    <3>1. /\ Sound(t) /\ Keeps(telemetry, t) /\ Quiet(telemetry, t) /\ t.explicitFailure
          /\ t.ndjsonWritten = telemetry.ndjsonWritten /\ t.pendingStreamError = "none"
      BY AbortSeenIs DEF IInv
    <3> HIDE DEF t
    <3> QED
      BY <3>1 DEF Follows, Sound
  <2> HIDE DEF t
  <2>5. CASE mode = "stream"
    <3>1. /\ stage' = stage /\ status' = status /\ telemetry' = t /\ ended' \in {ended, ~raw}
      BY <2>1, <2>5 DEF Passes
    <3>2. ended' \in BOOLEAN /\ (ended => ended')
      BY <2>1, <3>1, WhilePulling DEF IInv, Types
    <3>3. IInv'
      BY <2>1, <2>3, <2>4, <3>1, <3>2, WhilePulling, GoesOn
    <3> QED
      BY <2>4, <3>1, <3>3 DEF Good, Follows
  <2>6. CASE mode # "stream"
    <3>1. StatusOf("upstream_aborted") \in {"client", "server"}
      BY DEF StatusOf
    <3>2. /\ Completed(Handled(t, "upstream_aborted"), StatusOf("upstream_aborted"))
          /\ ended' = ended
      BY <2>1, <2>6 DEF Thrown
    <3> QED
      BY <2>1, <2>2, <2>3, <2>4, <3>1, <3>2, WhilePulling, ThrownKeeps
  <2> QED
    BY <2>5, <2>6
<1>5. CASE \E f \in Failures : OnError(f)
  <2>1. PICK f \in Failures : OnError(f)
    BY <1>5
  <2>2. /\ Pulling /\ telemetry' = [telemetry EXCEPT !.pendingStreamError = f]
        /\ reported' = reported \cup {f}
        /\ UNCHANGED <<stage, status, ended, mode, raw, gone, cancelled>>
    BY <2>1 DEF OnError, Unchanged
  <2>3. /\ Follows(telemetry, telemetry') /\ telemetry'.outcome = telemetry.outcome
        /\ telemetry'.terminalPart = telemetry.terminalPart
    BY <2>2 DEF IInv, Follows, Sound, Telemetry, Keeps, Quiet
  <2>4. reported \subseteq reported' /\ reported' \subseteq Failures
    BY <2>2, WhilePulling
  <2>5. telemetry.outcome = "success" => telemetry.terminalPart = "finish"
    BY <2>2, WhilePulling DEF IInv, SuccessTold
  <2>6. IInv'
    BY <2>2, <2>3, <2>4, <2>5, WhilePulling, GoesOn
  <2> QED
    BY <2>3, <2>6 DEF Good, Follows
<1>6. CASE \E f \in Failures : ErrorPart(f)
  <2>1. PICK f \in Failures : ErrorPart(f)
    BY <1>6
  <2> DEFINE t == Recorded(telemetry, f)
  <2>2. /\ Pulling /\ reported' = reported \cup {f}
        /\ IF mode = "stream" THEN Passes(t, TRUE) ELSE Thrown(t, f)
        /\ UNCHANGED <<mode, raw, gone, cancelled>>
    BY <2>1 DEF ErrorPart, Unchanged
  <2>3. reported \subseteq reported' /\ reported' \subseteq Failures /\ f \in reported'
    BY <2>2, WhilePulling
  <2>4. Follows(telemetry, t) /\ t.outcome \notin {"none", "success"}
    BY <2>2, RecordedFollows
  <2> HIDE DEF t
  <2>5. CASE mode = "stream"
    BY <2>2, <2>3, <2>4, <2>5, PassesKeeps
  <2>6. CASE mode # "stream"
    <3>1. StatusOf(f) \in {"client", "server"}
      BY DEF StatusOf
    <3>2. Completed(Handled(t, f), StatusOf(f)) /\ ended' = ended
      BY <2>2, <2>6 DEF Thrown
    <3> QED
      BY <2>2, <2>3, <2>4, <3>1, <3>2, WhilePulling, ThrownKeeps
  <2> QED
    BY <2>5, <2>6
<1> QED
  BY <1>1, <1>2, <1>3, <1>4, <1>5, <1>6 DEF Part

(* The end of the stream says what it kept to itself.                      *)
LEMMA StreamEndsKeeps ==
  ASSUME IInv, StreamEnds
  PROVE  Good
<1> DEFINE t == EndSeen(telemetry)
<1>1. /\ Pulling /\ ended' = TRUE /\ reported' = reported
      /\ IF mode = "stream" THEN stage' = stage /\ telemetry' = t /\ status' = status
         ELSE Completed(Handled(t, "upstream_error"), "server")
      /\ UNCHANGED <<mode, raw, gone, cancelled>>
  BY DEF StreamEnds, Unchanged
<1>2. telemetry.pendingStreamError \in reported \cup {"none"}
  BY DEF IInv, FailuresTold
<1>3. /\ Sound(t) /\ Keeps(telemetry, t) /\ t.outcome # "none"
      /\ telemetry.pendingStreamError \in {"none", "upstream_aborted"} => Quiet(telemetry, t)
      /\ t.outcome = "success" =>
           telemetry.outcome = "success" /\ t.terminalPart = telemetry.terminalPart
      /\ t.ndjsonWritten =>
           telemetry.ndjsonWritten \/ telemetry.pendingStreamError \in {"timeout", "upstream_error"}
      /\ t.pendingStreamError \in {"none", telemetry.pendingStreamError}
  BY EndSeenIs DEF IInv
<1> HIDE DEF t
<1>4. Follows(telemetry, t)
  BY <1>1, <1>2, <1>3 DEF Follows
<1>5. CASE mode = "stream"
  <2>1. t.outcome = "success" => t.terminalPart = "finish"
    BY <1>1, <1>3, <1>5 DEF IInv, SuccessTold
  <2>2. IInv'
    BY <1>1, <1>3, <1>4, <1>5, <2>1, WhilePulling, GoesOn
  <2> QED
    BY <1>1, <1>4, <1>5, <2>2 DEF Good, Follows
<1>6. CASE mode # "stream"
  <2>1. mode = "stream-only"
    BY <1>1, <1>6, WhilePulling, ModesAreModes DEF IInv, Types, Staged
  <2>2. "upstream_error" \in Failures
    BY DEF Failures
  <2> QED
    BY <1>1, <1>4, <1>6, <2>1, <2>2, WhilePulling, ThrownKeeps
<1> QED
  BY <1>5, <1>6

LEMMA StreamFailsKeeps ==
  ASSUME IInv, NEW f \in Failures, StreamFails(f)
  PROVE  Good
<1> DEFINE t == Recorded(telemetry, f)
<1>1. /\ Pulling /\ ended' = TRUE /\ reported' = reported \cup {f}
      /\ UNCHANGED <<mode, raw, gone, cancelled>>
  BY DEF StreamFails, Unchanged
<1>2. \/ mode = "stream" /\ stage' = stage /\ telemetry' = t /\ status' = status
      \/ mode = "stream" /\ stage = "flowing" /\ Completed(WithInternalFailure(t), status)
      \/ Completed(Handled(t, f), StatusOf(f))
  BY DEF StreamFails
<1>3. reported \subseteq reported' /\ reported' \subseteq Failures /\ f \in reported'
  BY <1>1, WhilePulling
<1>4. Follows(telemetry, t) /\ t.outcome \notin {"none", "success"}
  BY <1>1, RecordedFollows
<1> HIDE DEF t
<1>5. CASE mode = "stream" /\ stage' = stage /\ telemetry' = t /\ status' = status
  <2>1. IInv'
    BY <1>1, <1>3, <1>4, <1>5, WhilePulling, GoesOn
  <2> QED
    BY <1>4, <1>5, <2>1 DEF Good, Follows
<1>6. CASE mode = "stream" /\ stage = "flowing" /\ Completed(WithInternalFailure(t), status)
  <2> DEFINE u == WithInternalFailure(t)
  <2>1. Follows(telemetry, u) /\ u.outcome \notin {"none", "success"}
    BY <1>3, <1>4, InternalFollows
  <2>2. status \in {"ok", "client", "server"}
    BY <1>6 DEF IInv, Staged
  <2> HIDE DEF u
  <2>3. Completed(u, status)
    BY <1>6 DEF u
  <2> QED
    BY <1>1, <1>3, <2>1, <2>2, <2>3, WhilePulling, Ends DEF Good
<1>7. CASE Completed(Handled(t, f), StatusOf(f))
  <2>1. StatusOf(f) \in {"client", "server"}
    BY DEF StatusOf
  <2> QED
    BY <1>1, <1>3, <1>4, <1>7, <2>1, WhilePulling, ThrownKeeps
<1> QED
  BY <1>2, <1>5, <1>6, <1>7

LEMMA RenderFailsKeeps ==
  ASSUME IInv, RenderFails
  PROVE  Good
<1> DEFINE u == WithInternalFailure(telemetry)
<1>1. /\ stage = "flowing" /\ mode = "stream" /\ Completed(u, status)
      /\ UNCHANGED <<mode, raw, gone, cancelled, ended, reported>>
  BY DEF RenderFails, Unchanged
<1>2. Follows(telemetry, u) /\ u.outcome \notin {"none", "success"}
  BY <1>1, SameFollows, InternalFollows
<1> HIDE DEF u
<1>3. status \in {"ok", "client", "server"}
  BY <1>1 DEF IInv, Staged
<1>4. ended \in BOOLEAN /\ reported \subseteq Failures
  BY DEF IInv, Types
<1> QED
  BY <1>1, <1>2, <1>3, <1>4, Ends DEF Good

LEMMA ResponseEndsKeeps ==
  ASSUME IInv, ResponseEnds \/ CancelEnds
  PROVE  Good
<1>1. /\ stage \in {"flowing", "cancelling"} /\ mode = "stream" /\ Completed(telemetry, status)
      /\ UNCHANGED <<mode, raw, gone, cancelled, ended, reported>>
  BY DEF ResponseEnds, CancelEnds, Unchanged, IInv, Staged
<1>2. Follows(telemetry, telemetry) /\ status = "ok"
  BY <1>1, SameFollows DEF IInv, Staged
<1>3. telemetry.outcome # "none"
  <2>1. CASE ResponseEnds
    BY <1>1, <2>1 DEF ResponseEnds, IInv, Staged
  <2>2. CASE CancelEnds
    BY <1>1, <2>2 DEF CancelEnds, IInv, Staged, DepartureTold, Sound
  <2> QED
    BY <2>1, <2>2
<1>4. telemetry.outcome = "success" => telemetry.terminalPart = "finish"
  BY <1>1 DEF IInv, SuccessTold
<1>5. ended \in BOOLEAN /\ reported \subseteq Failures
  BY DEF IInv, Types
<1> QED
  BY <1>1, <1>2, <1>3, <1>4, <1>5, Ends DEF Good

LEMMA CancelBodyKeeps ==
  ASSUME IInv, CancelBody
  PROVE  Good
<1>1. telemetry' = WithOutcome(telemetry, "client_cancelled", TRUE)
  BY DEF CancelBody
<1>2. /\ Sound(telemetry') /\ Keeps(telemetry, telemetry') /\ Quiet(telemetry, telemetry')
      /\ telemetry'.explicitFailure /\ telemetry'.outcome # "none"
      /\ telemetry'.ndjsonWritten = telemetry.ndjsonWritten
      /\ telemetry'.pendingStreamError = telemetry.pendingStreamError
  BY <1>1, OutcomeSet DEF IInv, Outcomes
<1>3. ~telemetry.explicitFailure => telemetry'.outcome = "client_cancelled"
  BY <1>1 DEF WithOutcome, IInv, Sound, Telemetry
<1>4. Types'
  BY DEF CancelBody, IInv, Types, Stages
<1>5. Staged'
  BY <1>2 DEF CancelBody, IInv, Staged
<1>6. SuccessTold'
  BY <1>2 DEF Sound, SuccessTold
<1>7. DepartureTold'
  BY <1>2, <1>3 DEF CancelBody, IInv, DepartureTold, Quiet
<1>8. FailuresTold'
  BY <1>2 DEF CancelBody, IInv, FailuresTold, OnlyRealFailuresWritten
<1> QED
  BY <1>2, <1>4, <1>5, <1>6, <1>7, <1>8 DEF Good, IInv

LEMMA Preserved ==
  ASSUME IInv, [Next]_vars
  PROVE  Good
<1>1. CASE UNCHANGED vars
  BY <1>1 DEF vars, Good, IInv, Types, Sound, Staged, SuccessTold, DepartureTold, FailuresTold,
     OnlyRealFailuresWritten, Keeps
<1>2. CASE Next
  BY <1>2, ClientLeavesKeeps, EarlyKeeps, AcquisitionKeeps, PartKeeps, StreamEndsKeeps,
     StreamFailsKeeps, RenderFailsKeeps, ResponseEndsKeeps, CancelBodyKeeps DEF Next
<1> QED
  BY <1>1, <1>2

-----------------------------------------------------------------------------
LEMMA Invariance == Spec => []IInv
<1>1. IInv /\ [Next]_vars => IInv'
  BY Preserved DEF Good
<1> QED
  BY Initially, <1>1, PTL DEF Spec

(* What is logged of a request is what happened to it (LogIsReal): a       *)
(* success was one, only real failures are written to the error log, and   *)
(* a client that goes away is not told as a failure of the upstream,       *)
(* except by a collected stream.                                           *)
THEOREM LogTellsTruth == Spec => []LogIsReal
<1> QED
  BY Invariance, InvIsReal, PTL

(* The failure that was diagnosed first is the one reported; only a        *)
(* client's departure gives way, to a failure of the upstream itself       *)
(* (FirstFailureStays).                                                    *)
THEOREM FirstFailureIsTold == Spec => FirstFailureStays
<1>1. IInv /\ [Next]_vars =>
        [telemetry.explicitFailure /\ telemetry'.outcome # telemetry.outcome
           => telemetry.outcome = "client_cancelled" /\ telemetry'.outcome \in Failures]_vars
  BY Preserved DEF Good, Keeps
<1> QED
  BY Invariance, <1>1, PTL DEF Spec, FirstFailureStays

-----------------------------------------------------------------------------
(* The upstream stream (UpstreamStream).                                   *)

Settled == {"returned", "rejected"}

(* What holds of the wrapper w under the deadline t when failures of the   *)
(* cleanup were told as often as told says.  The race that the cleanup is  *)
(* put in tells how the cleanup went; a failure is told by the race, if    *)
(* nobody has claimed it, or by who has, or late, after the race.          *)
RaceTellsCleanup(w) ==
  /\ w.bounded = "none" <=> w.cleanup = "none"
  /\ w.bounded = "racing" => w.cleanup = "running"
  /\ w.bounded = "completed" => w.cleanup = "completed"
  /\ w.bounded \in {"failed", "rejected"} => w.cleanup = "failed"

ToldOnce(w, told) ==
  /\ told \in {0, 1}
  /\ told = 1 => w.cleanup = "failed"
  /\ w.bounded \in {"none"} \cup Stream!Settling => told = 0 /\ ~w.late /\ ~w.reported
  /\ w.claimed => w.close # "none"
  /\ w.close = "bounded" => w.claimed /\ w.bounded # "none"
  /\ w.bounded = "rejected" => w.claimed \/ w.reported
  /\ w.bounded = "rejected" /\ w.close = "bounded" => told = 0

TimerIsGone(w, t) ==
  (\/ w.naturallyDone
   \/ w.bounded \in Settled
   \/ w.close # "none" /\ w.bounded = "none") => t # "armed"

Consistent(w, t, told) ==
  w \in Stream!Wrapper /\ RaceTellsCleanup(w) /\ ToldOnce(w, told) /\ TimerIsGone(w, t)

StreamTypes ==
  /\ timer \in {"armed", "fired", "cleared"}
  /\ aborted \in {"none", "client", "timeout", "budget"}
  /\ next \in {"idle", "waiting", "part", "done", "cancelled", "failed", "timeout"}
  /\ at \in {"start", "pulling", "hook", "empty", "offered", "closing", "ended"}
  /\ acquisition \in {"running", "stream", "refused", "failed"}
  /\ started \in BOOLEAN /\ refused \in BOOLEAN /\ exhausted \in BOOLEAN
  /\ parts \in 0 .. MaxParts

Released == exhausted \/ wrap.cleanup # "none"

(* The wrapper listens to the abort until the upstream is released: before *)
(* it is, neither the deadline nor the signal can have gone.               *)
StreamInv ==
  /\ StreamTypes
  /\ Consistent(wrap, timer, deliveries)
  /\ at = "start" => timer = "armed" /\ next = "idle" /\ wrap.bounded = "none" /\ wrap.close = "none"
  /\ next = "done" => exhausted
  /\ at # "start" /\ (~wrap.attached \/ aborted # "none" \/ timer # "armed") => Released

-----------------------------------------------------------------------------
(* What the operators on the wrapper keep.                                 *)

(* The listeners, the cancellation and the pull that failed play no part.  *)
Alike(v, w) ==
  /\ v.cleanup = w.cleanup /\ v.bounded = w.bounded /\ v.close = w.close /\ v.claimed = w.claimed
  /\ v.reported = w.reported /\ v.naturallyDone = w.naturallyDone /\ v.late = w.late

LEMMA AlikeKeeps ==
  ASSUME NEW v \in Stream!Wrapper, NEW w, NEW t, NEW told, Consistent(w, t, told), Alike(v, w)
  PROVE  Consistent(v, t, told)
BY DEF Consistent, RaceTellsCleanup, ToldOnce, TimerIsGone, Alike

LEMMA BoundedKeeps ==
  ASSUME NEW w, NEW t, NEW told, Consistent(w, t, told)
  PROVE  /\ Consistent(Stream!Bounded(w), t, told)
         /\ Stream!Bounded(w).cleanup # "none" /\ Stream!Bounded(w).bounded # "none"
         /\ Stream!Bounded(w).attached = w.attached
         /\ Stream!Bounded(w).listening = w.listening
         /\ Stream!Bounded(w).close = w.close
         /\ Stream!Bounded(w).nextFailed = w.nextFailed
         /\ Stream!Bounded(w).reported = w.reported
<1>1. CASE w.bounded # "none"
  BY <1>1 DEF Stream!Bounded, Consistent, RaceTellsCleanup
<1>2. CASE w.bounded = "none"
  <2> DEFINE v == [w EXCEPT !.bounded = "racing", !.cleanup = "running"]
  <2>1. Stream!Bounded(w) = v
    BY <1>2 DEF Stream!Bounded
  <2>2. w \in Stream!Wrapper
    BY DEF Consistent
  <2>3. /\ v \in Stream!Wrapper /\ v.bounded = "racing" /\ v.cleanup = "running"
        /\ v.attached = w.attached /\ v.listening = w.listening /\ v.close = w.close
        /\ v.nextFailed = w.nextFailed /\ v.reported = w.reported /\ v.claimed = w.claimed
        /\ v.naturallyDone = w.naturallyDone /\ v.late = w.late
    BY <2>2 DEF Stream!Wrapper
  <2>4. w.cleanup = "none" /\ told = 0 /\ ~w.late /\ ~w.reported
    BY <1>2 DEF Consistent, RaceTellsCleanup, ToldOnce
  <2> HIDE DEF v
  <2>5. RaceTellsCleanup(v) /\ ToldOnce(v, told) /\ TimerIsGone(v, t)
    BY <1>2, <2>3, <2>4
       DEF Consistent, RaceTellsCleanup, ToldOnce, TimerIsGone, Settled, Stream!Settling
  <2> QED
    BY <2>1, <2>3, <2>5 DEF Consistent
<1> QED
  BY <1>1, <1>2

(* A caller that claims the failure is there before it is reported.        *)
LEMMA ClosedKeeps ==
  ASSUME NEW w, NEW t, NEW told, Consistent(w, t, told)
  PROVE  /\ Consistent(Stream!Closed(w), t, told)
         /\ w.cleanup # "none" => Stream!Closed(w).cleanup # "none"
         /\ Stream!Closed(w).attached = w.attached
<1>0. w \in Stream!Wrapper
  BY DEF Consistent
<1>1. CASE w.close # "none"
  BY <1>1 DEF Stream!Closed
<1>2. CASE w.close = "none" /\ w.naturallyDone
  <2> DEFINE v == [w EXCEPT !.close = "closed"]
  <2>1. Stream!Closed(w) = v
    BY <1>2 DEF Stream!Closed
  <2>2. /\ v \in Stream!Wrapper /\ v.close = "closed" /\ v.cleanup = w.cleanup /\ v.bounded = w.bounded
        /\ v.claimed = w.claimed /\ v.reported = w.reported /\ v.naturallyDone = w.naturallyDone
        /\ v.late = w.late /\ v.attached = w.attached
    BY <1>0 DEF Stream!Wrapper
  <2> HIDE DEF v
  <2>3. RaceTellsCleanup(v) /\ ToldOnce(v, told) /\ TimerIsGone(v, t)
    BY <1>2, <2>2 DEF Consistent, RaceTellsCleanup, ToldOnce, TimerIsGone
  <2> QED
    BY <2>1, <2>2, <2>3 DEF Consistent
<1>3. CASE w.close = "none" /\ ~w.naturallyDone
  <2> DEFINE b == Stream!Bounded(w)
  <2>1. /\ Consistent(b, t, told) /\ b.cleanup # "none" /\ b.bounded # "none"
        /\ b.attached = w.attached /\ b.close = w.close /\ b.nextFailed = w.nextFailed
        /\ b.reported = w.reported
    BY BoundedKeeps
  <2> HIDE DEF b
  <2>2. b \in Stream!Wrapper
    BY <2>1 DEF Consistent
  <2>3. CASE ~Stream!MayClaim(w)
    <3> DEFINE v == [b EXCEPT !.close = "closed"]
    <3>1. Stream!Closed(w) = v
      BY <1>3, <2>3 DEF Stream!Closed, b
    <3>2. /\ v \in Stream!Wrapper /\ v.close = "closed" /\ v.cleanup = b.cleanup /\ v.bounded = b.bounded
          /\ v.claimed = b.claimed /\ v.reported = b.reported /\ v.naturallyDone = b.naturallyDone
          /\ v.late = b.late /\ v.attached = b.attached
      BY <2>2 DEF Stream!Wrapper
    <3> HIDE DEF v
    <3>3. RaceTellsCleanup(v) /\ ToldOnce(v, told) /\ TimerIsGone(v, t)
      BY <2>1, <3>2 DEF Consistent, RaceTellsCleanup, ToldOnce, TimerIsGone
    <3> QED
      BY <2>1, <3>1, <3>2, <3>3 DEF Consistent
  <2>4. CASE Stream!MayClaim(w)
    <3> DEFINE v == [b EXCEPT !.claimed = TRUE, !.close = "bounded"]
    <3>1. Stream!Closed(w) = v
      BY <1>3, <2>4 DEF Stream!Closed, b
    <3>2. /\ v \in Stream!Wrapper /\ v.close = "bounded" /\ v.cleanup = b.cleanup /\ v.bounded = b.bounded
          /\ v.claimed = TRUE /\ v.reported = b.reported /\ v.naturallyDone = b.naturallyDone
          /\ v.late = b.late /\ v.attached = b.attached
      BY <2>2 DEF Stream!Wrapper
    <3> HIDE DEF v
    <3>3. b.bounded # "rejected"
      BY <1>3, <2>1, <2>4 DEF Consistent, ToldOnce, Stream!MayClaim
    <3>4. RaceTellsCleanup(v) /\ ToldOnce(v, told) /\ TimerIsGone(v, t)
      BY <2>1, <3>2, <3>3 DEF Consistent, RaceTellsCleanup, ToldOnce, TimerIsGone
    <3> QED
      BY <2>1, <3>1, <3>2, <3>4 DEF Consistent
  <2> QED
    BY <2>3, <2>4
<1> QED
  BY <1>1, <1>2, <1>3

LEMMA SilentKeeps ==
  ASSUME NEW w, NEW t, NEW told, Consistent(w, t, told)
  PROVE  /\ Consistent([w EXCEPT !.listening = FALSE], t, told)
         /\ [w EXCEPT !.listening = FALSE].cleanup = w.cleanup
         /\ [w EXCEPT !.listening = FALSE].attached = w.attached
<1> DEFINE v == [w EXCEPT !.listening = FALSE]
<1>1. v \in Stream!Wrapper /\ Alike(v, w) /\ v.cleanup = w.cleanup /\ v.attached = w.attached
  BY DEF Consistent, Stream!Wrapper, Alike
<1> QED
  BY <1>1, AlikeKeeps

(* An abort that the wrapper listens to releases the upstream.             *)
LEMMA OnAbortKeeps ==
  ASSUME NEW w, NEW t, NEW told, NEW reason, Consistent(w, t, told)
  PROVE  /\ Consistent(Stream!OnAbort(w, reason), t, told)
         /\ w.cleanup # "none" \/ w.attached => Stream!OnAbort(w, reason).cleanup # "none"
         /\ ~Stream!OnAbort(w, reason).attached
<1> DEFINE b == Stream!Bounded(w)
           v == IF ~w.attached THEN w
                ELSE [b EXCEPT !.attached = FALSE, !.cancel = IF reason = "timeout" THEN @ ELSE "scheduled"]
<1>1. w \in Stream!Wrapper /\ w.attached \in BOOLEAN
  BY DEF Consistent, Stream!Wrapper
<1>2. Consistent(b, t, told) /\ b.cleanup # "none" /\ b \in Stream!Wrapper
  BY BoundedKeeps DEF Consistent
<1>3. /\ Consistent(v, t, told) /\ ~v.attached /\ v \in Stream!Wrapper
      /\ w.cleanup # "none" \/ w.attached => v.cleanup # "none"
  <2>1. CASE ~w.attached
    BY <1>1, <2>1
  <2>2. CASE w.attached
    <3> HIDE DEF b
    <3>1. /\ v \in Stream!Wrapper /\ Alike(v, b) /\ ~v.attached /\ v.cleanup = b.cleanup
      BY <1>2, <2>2 DEF Stream!Wrapper, Alike
    <3> QED
      BY <1>2, <3>1, AlikeKeeps
  <2> QED
    BY <2>1, <2>2
<1>4. Stream!OnAbort(w, reason) = IF ~v.listening THEN v ELSE [Stream!Closed(v) EXCEPT !.listening = FALSE]
  BY DEF Stream!OnAbort
<1> HIDE DEF v
<1>5. /\ Consistent(Stream!Closed(v), t, told)
      /\ v.cleanup # "none" => Stream!Closed(v).cleanup # "none"
      /\ Stream!Closed(v).attached = v.attached
  BY <1>3, ClosedKeeps
<1>6. CASE ~v.listening
  BY <1>3, <1>4, <1>6
<1>7. CASE v.listening
  <2> DEFINE c == Stream!Closed(v)
             u == [c EXCEPT !.listening = FALSE]
  <2>1. Consistent(u, t, told) /\ u.cleanup = c.cleanup /\ u.attached = c.attached
    BY <1>5, SilentKeeps
  <2>2. Stream!OnAbort(w, reason) = u
    BY <1>4, <1>7
  <2> HIDE DEF u
  <2> QED
    BY <1>3, <1>5, <2>1, <2>2
<1> QED
  BY <1>6, <1>7

LEMMA AbortKeeps ==
  ASSUME NEW w, NEW t, NEW told, NEW reason, Consistent(w, t, told)
  PROVE  /\ Consistent(Stream!Abort(w, reason), t, told)
         /\ w.cleanup # "none" => Stream!Abort(w, reason).cleanup # "none"
         /\ aborted = "none" /\ w.attached => Stream!Abort(w, reason).cleanup # "none"
BY OnAbortKeeps DEF Stream!Abort

-----------------------------------------------------------------------------
(* The steps.                                                              *)

LEMMA StreamInitially == ASSUME Stream!Init PROVE StreamInv
<1>1. /\ wrap \in Stream!Wrapper /\ wrap.cleanup = "none" /\ wrap.bounded = "none" /\ wrap.close = "none"
      /\ wrap.claimed = FALSE /\ wrap.reported = FALSE /\ wrap.late = FALSE /\ wrap.naturallyDone = FALSE
  BY DEF Stream!Init, Stream!Wrapper
<1>2. Consistent(wrap, timer, deliveries)
  BY <1>1 DEF Stream!Init, Consistent, RaceTellsCleanup, ToldOnce, TimerIsGone, Settled
<1> QED
  <2>1. 0 \in 0 .. MaxParts
    BY StreamAssumption
  <2>2. StreamTypes
    BY <2>1 DEF Stream!Init, StreamTypes
  <2> QED
    BY <1>1, <1>2, <2>2 DEF Stream!Init, StreamInv

(* Most steps leave the wrapper, the deadline and the signal alone.        *)
LEMMA QuietKeeps ==
  ASSUME StreamInv,
         \/ Stream!PullPart \/ Stream!PullDone \/ Stream!PullFails \/ Stream!GotPart
         \/ Stream!HookPasses \/ Stream!ConsumerStarts
  PROVE  StreamInv'
<1>1. UNCHANGED <<wrap, timer, aborted, deliveries, refused>>
  BY DEF Stream!PullPart, Stream!PullDone, Stream!PullFails, Stream!GotPart, Stream!HookPasses,
         Stream!ConsumerStarts, Stream!UpstreamUnchanged
<1>2. StreamTypes'
  <2>1. parts' \in 0 .. MaxParts
    BY StreamAssumption
       DEF StreamInv, StreamTypes, Stream!PullPart, Stream!PullDone, Stream!PullFails, Stream!GotPart,
           Stream!HookPasses, Stream!ConsumerStarts
  <2>2. StreamTypes
    BY DEF StreamInv
  <2>3. CASE Stream!PullPart \/ Stream!PullDone \/ Stream!PullFails
    BY <1>1, <2>1, <2>2, <2>3
       DEF StreamTypes, Stream!PullPart, Stream!PullDone, Stream!PullFails, Stream!UpstreamUnchanged
  <2>4. CASE Stream!GotPart \/ Stream!ConsumerStarts
    BY <1>1, <2>1, <2>2, <2>4 DEF StreamTypes, Stream!GotPart, Stream!ConsumerStarts
  <2>5. CASE Stream!HookPasses
    BY <1>1, <2>1, <2>2, <2>5 DEF StreamTypes, Stream!HookPasses, Stream!Settle
  <2> QED
    BY <2>3, <2>4, <2>5
<1>3. /\ exhausted => exhausted'
      /\ next' = "done" => exhausted'
      /\ at = "start" => FALSE
      /\ at' # "start"
  BY DEF StreamInv, StreamTypes, Stream!PullPart, Stream!PullDone, Stream!PullFails, Stream!GotPart,
         Stream!HookPasses, Stream!ConsumerStarts, Stream!UpstreamUnchanged
<1> QED
  BY <1>1, <1>2, <1>3 DEF StreamInv, Released

(* The race is won by the cleanup, or the failure that comes after it is   *)
(* told: that of a cleanup that was given up.                              *)
LEMMA CleanupSettlesKeeps == ASSUME StreamInv, Stream!CleanupSettles PROVE StreamInv'
<1>1. PICK outcome \in {"completed", "failed"} :
        /\ wrap' = [wrap EXCEPT !.cleanup = outcome, !.bounded = IF @ = "racing" THEN outcome ELSE @]
        /\ deliveries' = IF wrap.late /\ outcome = "failed" THEN deliveries + 1 ELSE deliveries
  BY DEF Stream!CleanupSettles
<1>2. /\ wrap.cleanup = "running" /\ UNCHANGED <<timer, aborted, next, at, acquisition, started, refused, parts, exhausted>>
  BY DEF Stream!CleanupSettles, Stream!UpstreamUnchanged
<1>3. Consistent(wrap, timer, deliveries) /\ wrap \in Stream!Wrapper
  BY DEF StreamInv, Consistent
<1>4. deliveries = 0 /\ wrap.bounded # "none"
  BY <1>2, <1>3 DEF Consistent, ToldOnce, RaceTellsCleanup
<1>5. /\ wrap' \in Stream!Wrapper /\ wrap'.cleanup = outcome
      /\ wrap'.bounded = IF wrap.bounded = "racing" THEN outcome ELSE wrap.bounded
      /\ wrap'.close = wrap.close /\ wrap'.claimed = wrap.claimed /\ wrap'.reported = wrap.reported
      /\ wrap'.naturallyDone = wrap.naturallyDone /\ wrap'.late = wrap.late /\ wrap'.attached = wrap.attached
  BY <1>1, <1>3 DEF Stream!Wrapper
<1>6. RaceTellsCleanup(wrap')
  BY <1>2, <1>3, <1>5 DEF Consistent, RaceTellsCleanup
<1>7. ToldOnce(wrap', deliveries')
  BY <1>1, <1>2, <1>3, <1>4, <1>5 DEF Consistent, ToldOnce, RaceTellsCleanup, Stream!Settling
<1>8. TimerIsGone(wrap', timer')
  BY <1>2, <1>3, <1>4, <1>5 DEF Consistent, TimerIsGone, Settled
<1> QED
  BY <1>2, <1>4, <1>5, <1>6, <1>7, <1>8 DEF StreamInv, StreamTypes, Consistent, Released

LEMMA DeadlineFiresKeeps == ASSUME StreamInv, Stream!DeadlineFires PROVE StreamInv'
<1>1. /\ timer' = "fired" /\ at # "start" /\ wrap' = Stream!Abort(wrap, "timeout")
      /\ UNCHANGED <<at, started, refused, parts, exhausted, deliveries>>
      /\ aborted' = IF aborted = "none" THEN "timeout" ELSE aborted
      /\ next' = IF next = "waiting" THEN "timeout" ELSE next
      /\ acquisition' = IF acquisition = "running" THEN "failed" ELSE acquisition
  BY DEF Stream!DeadlineFires, Stream!Reason
<1>2. Consistent(wrap, timer, deliveries)
  BY DEF StreamInv
<1>3. /\ Consistent(wrap', timer, deliveries)
      /\ wrap.cleanup # "none" => wrap'.cleanup # "none"
      /\ aborted = "none" /\ wrap.attached => wrap'.cleanup # "none"
  BY <1>1, <1>2, AbortKeeps
<1>4. Consistent(wrap', timer', deliveries')
  BY <1>1, <1>3 DEF Consistent, TimerIsGone
<1>5. Released'
  BY <1>1, <1>3 DEF StreamInv, Released
<1> QED
  BY <1>1, <1>4, <1>5 DEF StreamInv, StreamTypes

LEMMA ClientAbortsKeeps == ASSUME StreamInv, Stream!ClientAborts PROVE StreamInv'
<1>1. /\ aborted = "none" /\ aborted' = "client" /\ at # "start" /\ wrap' = Stream!Abort(wrap, "client")
      /\ UNCHANGED <<timer, next, at, acquisition, started, refused, parts, exhausted, deliveries>>
  BY DEF Stream!ClientAborts
<1>2. Consistent(wrap, timer, deliveries)
  BY DEF StreamInv
<1>3. /\ Consistent(wrap', timer, deliveries)
      /\ wrap.cleanup # "none" => wrap'.cleanup # "none"
      /\ aborted = "none" /\ wrap.attached => wrap'.cleanup # "none"
  BY <1>1, <1>2, AbortKeeps
<1>4. Released'
  BY <1>1, <1>3 DEF StreamInv, Released
<1> QED
  BY <1>1, <1>3, <1>4 DEF StreamInv, StreamTypes

LEMMA CancelResolvesKeeps == ASSUME StreamInv, Stream!CancelResolves PROVE StreamInv'
<1>1. /\ wrap' = [wrap EXCEPT !.cancel = "resolved"]
      /\ next' = IF next = "waiting" THEN "cancelled" ELSE next
      /\ UNCHANGED <<timer, aborted, at, acquisition, started, refused, parts, exhausted, deliveries>>
  BY DEF Stream!CancelResolves, Stream!UpstreamUnchanged
<1>2. wrap' \in Stream!Wrapper /\ Alike(wrap', wrap) /\ wrap'.attached = wrap.attached
  BY <1>1 DEF StreamInv, Consistent, Stream!Wrapper, Alike
<1>3. Consistent(wrap', timer', deliveries')
  BY <1>1, <1>2, AlikeKeeps DEF StreamInv
<1> QED
  BY <1>1, <1>2, <1>3 DEF StreamInv, StreamTypes, Released, Alike

LEMMA BoundReachedKeeps == ASSUME StreamInv, Stream!BoundReached PROVE StreamInv'
<1>1. PICK b \in {"deadline", "budget"} : wrap' = [wrap EXCEPT !.bounded = b]
  BY DEF Stream!BoundReached
<1>2. /\ wrap.bounded = "racing"
      /\ UNCHANGED <<timer, aborted, next, at, acquisition, started, refused, parts, exhausted, deliveries>>
  BY DEF Stream!BoundReached, Stream!UpstreamUnchanged
<1>3. Consistent(wrap, timer, deliveries) /\ wrap \in Stream!Wrapper
  BY DEF StreamInv, Consistent
<1>4. /\ wrap' \in Stream!Wrapper /\ wrap'.cleanup = wrap.cleanup /\ wrap'.bounded = b
      /\ wrap'.close = wrap.close /\ wrap'.claimed = wrap.claimed /\ wrap'.reported = wrap.reported
      /\ wrap'.naturallyDone = wrap.naturallyDone /\ wrap'.late = wrap.late /\ wrap'.attached = wrap.attached
  BY <1>1, <1>3 DEF Stream!Wrapper
<1>5. Consistent(wrap', timer', deliveries')
  BY <1>2, <1>3, <1>4
     DEF Consistent, RaceTellsCleanup, ToldOnce, TimerIsGone, Settled, Stream!Settling
<1> QED
  BY <1>2, <1>4, <1>5 DEF StreamInv, StreamTypes, Released

(* The failure is reported by the race, or left to who has claimed it, or  *)
(* to the cleanup that was given up: and the deadline is over.             *)
LEMMA BoundedSettlesKeeps == ASSUME StreamInv, Stream!BoundedSettles PROVE StreamInv'
<1> DEFINE given == wrap.bounded \in {"deadline", "budget"}
           reason == IF wrap.bounded = "deadline" THEN "timeout" ELSE "budget"
           settled == [wrap EXCEPT !.late = given /\ Stream!Late(wrap), !.reported = @ \/ Stream!Reports(wrap),
                                   !.bounded = IF @ = "failed" THEN "rejected" ELSE "returned"]
           abandoned == IF given THEN Stream!Abort(settled, reason) ELSE settled
<1>1. /\ wrap.bounded \in {"completed", "failed", "deadline", "budget"}
      /\ timer' = (IF timer = "armed" THEN "cleared" ELSE timer)
      /\ wrap' = [abandoned EXCEPT !.attached = FALSE]
      /\ aborted' = IF given THEN Stream!Reason(reason) ELSE aborted
      /\ deliveries' = deliveries + IF Stream!Reports(wrap) \/ (given /\ wrap.cleanup = "failed") THEN 1 ELSE 0
      /\ UNCHANGED <<next, at, acquisition, started, refused, parts, exhausted>>
  BY DEF Stream!BoundedSettles, Stream!Settling, Stream!Cleared
<1>2. Consistent(wrap, timer, deliveries) /\ wrap \in Stream!Wrapper
  BY DEF StreamInv, Consistent
<1>3. deliveries = 0 /\ ~wrap.late /\ ~wrap.reported /\ wrap.cleanup # "none"
  BY <1>1, <1>2 DEF Consistent, ToldOnce, RaceTellsCleanup, Stream!Settling
<1>4. /\ settled \in Stream!Wrapper /\ settled.cleanup = wrap.cleanup
      /\ settled.bounded = IF wrap.bounded = "failed" THEN "rejected" ELSE "returned"
      /\ settled.close = wrap.close /\ settled.claimed = wrap.claimed
      /\ settled.reported = (wrap.bounded = "failed" /\ ~wrap.claimed)
      /\ settled.naturallyDone = wrap.naturallyDone
  BY <1>2, <1>3 DEF Stream!Wrapper, Stream!Reports, Stream!Late
<1>5. deliveries' = IF (wrap.bounded = "failed" /\ ~wrap.claimed) \/ (given /\ wrap.cleanup = "failed") THEN 1 ELSE 0
  BY <1>1, <1>3 DEF Stream!Reports
<1>6. timer' \in {"fired", "cleared"}
  BY <1>1 DEF StreamInv, StreamTypes
<1> HIDE DEF settled
<1>7. Consistent(settled, timer', deliveries')
  <2>1. RaceTellsCleanup(settled)
    BY <1>1, <1>2, <1>4 DEF Consistent, RaceTellsCleanup
  <2>2. ToldOnce(settled, deliveries')
    <3>1. settled.bounded \in Settled /\ wrap.bounded = "failed" => wrap.cleanup = "failed"
      BY <1>2, <1>4 DEF Consistent, RaceTellsCleanup, Settled
    <3> QED
      BY <1>1, <1>2, <1>4, <1>5, <3>1 DEF Consistent, ToldOnce, RaceTellsCleanup, Stream!Settling, Settled
  <2>3. TimerIsGone(settled, timer')
    BY <1>6 DEF TimerIsGone
  <2> QED
    BY <1>4, <2>1, <2>2, <2>3 DEF Consistent
<1>8. Consistent(abandoned, timer', deliveries') /\ abandoned.cleanup # "none"
  BY <1>3, <1>4, <1>7, AbortKeeps
<1> HIDE DEF abandoned
<1>9. wrap' \in Stream!Wrapper /\ Alike(wrap', abandoned)
  BY <1>1, <1>8 DEF Consistent, Stream!Wrapper, Alike
<1>10. Consistent(wrap', timer', deliveries') /\ wrap'.cleanup # "none"
  BY <1>8, <1>9, AlikeKeeps DEF Alike
<1>11. aborted' \in {"none", "client", "timeout", "budget"}
  BY <1>1 DEF Stream!Reason, StreamInv, StreamTypes
<1>12. at # "start"
  BY <1>1 DEF StreamInv
<1> QED
  BY <1>1, <1>6, <1>10, <1>11, <1>12 DEF StreamInv, StreamTypes, Released

LEMMA CloseSettlesKeeps == ASSUME StreamInv, Stream!CloseSettles PROVE StreamInv'
<1>1. /\ wrap.close = "bounded" /\ wrap.bounded \in {"returned", "rejected"}
      /\ wrap' = [wrap EXCEPT !.close = "closed"]
      /\ deliveries' = IF wrap.bounded = "rejected" THEN deliveries + 1 ELSE deliveries
      /\ UNCHANGED <<timer, aborted, next, at, acquisition, started, refused, parts, exhausted>>
  BY DEF Stream!CloseSettles, Stream!UpstreamUnchanged
<1>2. Consistent(wrap, timer, deliveries) /\ wrap \in Stream!Wrapper
  BY DEF StreamInv, Consistent
<1>3. /\ wrap' \in Stream!Wrapper /\ wrap'.cleanup = wrap.cleanup /\ wrap'.bounded = wrap.bounded
      /\ wrap'.close = "closed" /\ wrap'.claimed = wrap.claimed /\ wrap'.reported = wrap.reported
      /\ wrap'.naturallyDone = wrap.naturallyDone /\ wrap'.late = wrap.late /\ wrap'.attached = wrap.attached
  BY <1>1, <1>2 DEF Stream!Wrapper
<1>4. ToldOnce(wrap', deliveries')
  BY <1>1, <1>2, <1>3 DEF Consistent, ToldOnce, RaceTellsCleanup, Stream!Settling
<1>5. RaceTellsCleanup(wrap') /\ TimerIsGone(wrap', timer')
  BY <1>1, <1>2, <1>3 DEF Consistent, RaceTellsCleanup, TimerIsGone, Settled
<1> QED
  BY <1>1, <1>3, <1>4, <1>5 DEF StreamInv, StreamTypes, Released, Consistent

(* The wrapper listens before anything can go wrong, and an abort that was *)
(* there before is noticed.                                                *)
LEMMA BeginKeeps == ASSUME StreamInv, Stream!Begin PROVE StreamInv'
<1> DEFINE v == [wrap EXCEPT !.attached = TRUE, !.listening = TRUE]
<1>1. /\ at = "start" /\ at' = "pulling" /\ next' = "waiting"
      /\ wrap' = IF aborted = "none" THEN v ELSE Stream!OnAbort(v, aborted)
      /\ UNCHANGED <<timer, aborted, acquisition, started, refused, parts, exhausted, deliveries>>
  BY DEF Stream!Begin, Stream!Attached
<1>2. v \in Stream!Wrapper /\ Alike(v, wrap) /\ v.attached
  BY DEF StreamInv, Consistent, Stream!Wrapper, Alike
<1>3. Consistent(v, timer, deliveries)
  BY <1>2, AlikeKeeps DEF StreamInv
<1> HIDE DEF v
<1>4. /\ Consistent(wrap', timer, deliveries)
      /\ ~wrap'.attached \/ aborted # "none" => wrap'.cleanup # "none"
  BY <1>1, <1>2, <1>3, OnAbortKeeps
<1>5. timer = "armed"
  BY <1>1 DEF StreamInv
<1> QED
  BY <1>1, <1>4, <1>5 DEF StreamInv, StreamTypes, Released

LEMMA FinishKeeps ==
  ASSUME NEW w, NEW t, NEW told, Consistent(w, t, told), Stream!Finish(w)
  PROVE  /\ Consistent(wrap', t, told)
         /\ at' = "closing" /\ wrap'.attached = w.attached
         /\ w.cleanup # "none" => wrap'.cleanup # "none"
BY SilentKeeps, ClosedKeeps DEF Stream!Finish

(* A deadline is over with a stream that has ended by itself.              *)
LEMMA GotEndKeeps == ASSUME StreamInv, Stream!GotEnd PROVE StreamInv'
<1> DEFINE over == next = "done" /\ aborted = "none"
           w == IF next = "done" THEN [wrap EXCEPT !.naturallyDone = over, !.attached = @ /\ ~over] ELSE wrap
<1>1. /\ next \in {"done", "cancelled"} /\ next' = "idle"
      /\ timer' = IF over THEN Stream!Cleared(timer) ELSE timer
      /\ \/ /\ at' = "empty" /\ wrap' = w
            /\ acquisition' = IF acquisition = "running" THEN "stream" ELSE acquisition
         \/ Stream!Finish(w) /\ acquisition' = acquisition
      /\ UNCHANGED <<aborted, started, refused, parts, exhausted, deliveries>>
  BY DEF Stream!GotEnd, Stream!NaturallyDone, Stream!Settle
<1>2. Consistent(wrap, timer, deliveries) /\ wrap \in Stream!Wrapper
  BY DEF StreamInv, Consistent
<1>3. timer' \in {"armed", "fired", "cleared"} /\ (over \/ timer # "armed" => timer' # "armed")
      /\ (timer' # "armed" => over \/ timer # "armed")
  BY <1>1 DEF Stream!Cleared, StreamInv, StreamTypes
<1>4. /\ w \in Stream!Wrapper /\ w.cleanup = wrap.cleanup /\ w.bounded = wrap.bounded
      /\ w.close = wrap.close /\ w.claimed = wrap.claimed /\ w.reported = wrap.reported
      /\ w.naturallyDone => over \/ wrap.naturallyDone
      /\ w.late = wrap.late
      /\ ~w.attached => over \/ ~wrap.attached
  <2>1. over \in BOOLEAN
    OBVIOUS
  <2> HIDE DEF over
  <2>2. CASE next = "done"
    <3>1. w = [wrap EXCEPT !.naturallyDone = over, !.attached = @ /\ ~over]
      BY <2>2
    <3> HIDE DEF w
    <3> QED
      BY <1>2, <2>1, <3>1 DEF Stream!Wrapper
  <2>3. CASE next # "done"
    BY <1>2, <2>3
  <2> QED
    BY <2>2, <2>3
<1> HIDE DEF w
<1>5. Consistent(w, timer', deliveries)
  <2>1. RaceTellsCleanup(w) /\ ToldOnce(w, deliveries)
    BY <1>2, <1>4 DEF Consistent, RaceTellsCleanup, ToldOnce
  <2>2. TimerIsGone(w, timer')
    BY <1>2, <1>3, <1>4 DEF Consistent, TimerIsGone
  <2> QED
    BY <1>4, <2>1, <2>2 DEF Consistent
<1>6. /\ Consistent(wrap', timer', deliveries)
      /\ at' \in {"empty", "closing"} /\ wrap'.attached = w.attached
      /\ w.cleanup # "none" => wrap'.cleanup # "none"
  <2>1. CASE at' = "empty" /\ wrap' = w
    BY <1>5, <2>1
  <2>2. CASE Stream!Finish(w)
    BY <1>5, <2>2, FinishKeeps
  <2> QED
    BY <1>1, <2>1, <2>2
<1>7. /\ at # "start"
      /\ over => exhausted
  BY <1>1 DEF StreamInv
<1>8. /\ Released => Released'
      /\ ~wrap'.attached \/ aborted' # "none" \/ timer' # "armed" => Released'
  BY <1>1, <1>3, <1>4, <1>6, <1>7 DEF StreamInv, Released
<1>9. StreamTypes'
  BY <1>1, <1>3, <1>6 DEF StreamInv, StreamTypes
<1> QED
  BY <1>1, <1>6, <1>8, <1>9 DEF StreamInv

(* The others end the stream: w is the wrapper before it is closed.        *)
LEMMA EndKeeps ==
  ASSUME StreamInv, NEW w, Consistent(w, timer, deliveries), Stream!Finish(w),
         w.attached = wrap.attached, wrap.cleanup # "none" => w.cleanup # "none",
         at # "start", next' = next \/ next' = "idle",
         refused' \in BOOLEAN, started' \in BOOLEAN,
         UNCHANGED <<timer, aborted, acquisition, parts, exhausted, deliveries>>
  PROVE  StreamInv'
<1>1. /\ Consistent(wrap', timer, deliveries)
      /\ at' = "closing" /\ wrap'.attached = w.attached
      /\ w.cleanup # "none" => wrap'.cleanup # "none"
  BY FinishKeeps
<1>2. Released => Released'
  BY <1>1 DEF Released
<1>3. StreamTypes'
  BY <1>1 DEF StreamInv, StreamTypes
<1> QED
  BY <1>1, <1>2, <1>3 DEF StreamInv

LEMMA GotFailureKeeps == ASSUME StreamInv, Stream!GotFailure PROVE StreamInv'
<1> DEFINE v == [wrap EXCEPT !.nextFailed = TRUE]
           w == Stream!Bounded(v)
<1>1. /\ next \in {"failed", "timeout"} /\ next' = "idle" /\ Stream!Finish(w)
      /\ UNCHANGED <<timer, aborted, acquisition, started, refused, parts, exhausted, deliveries>>
  BY DEF Stream!GotFailure
<1>2. v \in Stream!Wrapper /\ Alike(v, wrap) /\ v.attached = wrap.attached
  BY DEF StreamInv, Consistent, Stream!Wrapper, Alike
<1>3. Consistent(v, timer, deliveries)
  BY <1>2, AlikeKeeps DEF StreamInv
<1>4. Consistent(w, timer, deliveries) /\ w.cleanup # "none" /\ w.attached = wrap.attached
  <2> HIDE DEF v
  <2> QED
    BY <1>2, <1>3, BoundedKeeps
<1>5. at # "start" /\ refused' \in BOOLEAN /\ started' \in BOOLEAN
  BY <1>1 DEF StreamInv, StreamTypes
<1> HIDE DEF w
<1> QED
  BY <1>1, <1>4, <1>5, EndKeeps

LEMMA HookEndsKeeps ==
  ASSUME StreamInv, Stream!HookRefuses \/ Stream!HookThrows \/ Stream!ConsumerPulls \/ Stream!ConsumerReturns
  PROVE  StreamInv'
<1>1. /\ at # "start" /\ UNCHANGED <<timer, aborted, acquisition, parts, exhausted, deliveries>>
      /\ refused' \in BOOLEAN /\ started' \in BOOLEAN
      /\ Consistent(wrap, timer, deliveries)
  BY DEF StreamInv, StreamTypes, Stream!HookRefuses, Stream!HookThrows, Stream!ConsumerPulls,
         Stream!ConsumerReturns
<1>2. CASE Stream!Finish(wrap) /\ next' = next
  BY <1>1, <1>2, EndKeeps
<1>3. CASE /\ wrap' = wrap /\ at' \in {"offered", "pulling", "ended"}
           /\ next' \in {next, "timeout", "cancelled", "waiting"}
  <2>1. StreamTypes'
    BY <1>1, <1>3 DEF StreamInv, StreamTypes
  <2>2. next' = "done" => exhausted'
    BY <1>1, <1>3 DEF StreamInv
  <2> QED
    BY <1>1, <1>3, <2>1, <2>2 DEF StreamInv, Released
<1>4. \/ Stream!Finish(wrap) /\ next' = next
      \/ /\ wrap' = wrap /\ at' \in {"offered", "pulling", "ended"}
         /\ next' \in {next, "timeout", "cancelled", "waiting"}
  BY DEF Stream!HookRefuses, Stream!HookThrows, Stream!ConsumerPulls, Stream!ConsumerReturns, Stream!Pulled
<1> QED
  BY <1>2, <1>3, <1>4

LEMMA CloseEndsKeeps == ASSUME StreamInv, Stream!CloseEnds PROVE StreamInv'
<1>1. /\ at = "closing" /\ at' = "ended" /\ wrap' = [wrap EXCEPT !.listening = FALSE]
      /\ acquisition' \in {acquisition, "refused", "failed"}
      /\ UNCHANGED <<timer, aborted, next, started, refused, parts, exhausted, deliveries>>
  BY DEF Stream!CloseEnds, Stream!Settle
<1>2. Consistent(wrap', timer, deliveries) /\ wrap'.cleanup = wrap.cleanup /\ wrap'.attached = wrap.attached
  BY <1>1, SilentKeeps DEF StreamInv
<1>3. StreamTypes'
  BY <1>1 DEF StreamInv, StreamTypes
<1> QED
  BY <1>1, <1>2, <1>3 DEF StreamInv, Released

LEMMA StreamPreserved == ASSUME StreamInv, [Stream!Next]_(Stream!vars) PROVE StreamInv'
<1>1. CASE UNCHANGED Stream!vars
  BY <1>1 DEF Stream!vars, StreamInv, StreamTypes, Consistent, RaceTellsCleanup, ToldOnce, TimerIsGone, Released
<1>2. CASE Stream!Upstream \/ Stream!Hook
  BY <1>2, QuietKeeps, CleanupSettlesKeeps, HookEndsKeeps DEF Stream!Upstream, Stream!Hook
<1>3. CASE Stream!Inspector
  BY <1>3, BeginKeeps, QuietKeeps, GotEndKeeps, GotFailureKeeps, CloseEndsKeeps, BoundedSettlesKeeps,
     CloseSettlesKeeps DEF Stream!Inspector, Stream!PullEnded
<1>4. CASE Stream!DeadlineFires \/ Stream!ClientAborts \/ Stream!CancelResolves \/ Stream!BoundReached
  BY <1>4, DeadlineFiresKeeps, ClientAbortsKeeps, CancelResolvesKeeps, BoundReachedKeeps
<1>5. CASE Stream!ConsumerStarts \/ Stream!ConsumerPulls \/ Stream!ConsumerReturns
  BY <1>5, QuietKeeps, HookEndsKeeps
<1> QED
  BY <1>1, <1>2, <1>3, <1>4, <1>5 DEF Stream!Next

LEMMA StreamInvImplies == ASSUME StreamInv PROVE TimerGuardsUpstream
<1>1. Stream!TypeOK
  BY DEF StreamInv, StreamTypes, Consistent, ToldOnce, Stream!TypeOK
<1>2. Stream!DeadlineGuardsUpstream
  BY DEF StreamInv, Released, Stream!DeadlineGuardsUpstream
<1>3. Stream!NoTimerAfterEnd
  <2>1. wrap.bounded \in {"none"} \cup Settled \cup Stream!Settling
    BY DEF StreamInv, Consistent, Stream!Wrapper, Stream!Settling, Settled
  <2> QED
    BY <2>1 DEF StreamInv, Consistent, TimerIsGone, Stream!NoTimerAfterEnd
<1> QED
  BY <1>1, <1>2, <1>3 DEF TimerGuardsUpstream

-----------------------------------------------------------------------------
(* The deadline is given up only when the upstream has ended or its        *)
(* cleanup was started, no timer is left after the end of the stream and   *)
(* of its cleanup, and no failure of the cleanup is told twice: however    *)
(* many parts there are, and in whatever order the upstream, the timers,   *)
(* the plugins, the consumer and the client take their steps.              *)
THEOREM DeadlineIsKept ==
  Stream!Spec => [](Stream!TypeOK /\ Stream!DeadlineGuardsUpstream /\ Stream!NoTimerAfterEnd)
<1>1. Stream!Init => StreamInv
  BY StreamInitially
<1>2. StreamInv /\ [Stream!Next]_(Stream!vars) => StreamInv'
  BY StreamPreserved
<1>3. StreamInv => Stream!TypeOK /\ Stream!DeadlineGuardsUpstream /\ Stream!NoTimerAfterEnd
  BY StreamInvImplies DEF TimerGuardsUpstream
<1> QED
  BY <1>1, <1>2, <1>3, PTL DEF Stream!Spec

(* The same of the behaviours that are run.                                *)
THEOREM TimerIsKept == MCSpec => []TimerGuardsUpstream
<1>1. MCInit => StreamInv
  BY StreamInitially DEF MCInit
<1>2. StreamInv /\ [MCNext]_allVars => StreamInv'
  <2>1. [MCNext]_allVars => [Stream!Next]_(Stream!vars)
    BY DEF MCNext, OnlyLog, OnlyStream, allVars, streamVars, Stream!vars
  <2> QED
    BY <2>1, StreamPreserved
<1>3. StreamInv => TimerGuardsUpstream
  BY StreamInvImplies
<1> QED
  BY <1>1, <1>2, <1>3, PTL DEF MCSpec
=============================================================================
