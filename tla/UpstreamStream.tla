---------------------------- MODULE UpstreamStream ----------------------------
(***************************************************************************)
(* One upstream stream, from acquireUpstreamStream to its release          *)
(* (src/request-timeout.ts, src/server/upstream-stream.ts, src/server/     *)
(* stream-inspect.ts).  RequestTimeout.wrap puts the request's deadline,   *)
(* the abort signal and a bounded cleanup around the upstream's iterator;  *)
(* inspectFirstStreamChunk and replayStream pull from that wrapper, show   *)
(* each part to the plugins and hand it to the consumer.  The upstream may *)
(* answer, end, fail or hang, in a pull and in its cleanup alike; late     *)
(* errors of a pull that nobody waits for are only logged and left out.    *)
(***************************************************************************)
EXTENDS Naturals

CONSTANT
  MaxParts            \* parts the upstream has; bounds the model

VARIABLES
  timer,              \* the deadline: "armed", "fired", "cleared"
  aborted,            \* the reason of the signal, or "none"
  next,               \* wrapper.next(): "idle", "waiting" or what its race was won by
  wrap,               \* the wrapper's state and the inspector's cleanup of it
  at,                 \* where inspectFirstStreamChunk or replayStream is
  acquisition,        \* requestTimeout.run(...): "running", "stream", "refused", "failed"
  started,            \* the consumer has pulled from replayStream
  refused,            \* a plugin has answered for a part
  parts,              \* parts pulled
  exhausted,          \* the upstream has ended by itself
  deliveries          \* how often a failure of the upstream's cleanup was told

vars == <<timer, aborted, next, wrap, at, acquisition, started, refused, parts, exhausted,
          deliveries>>

(* cleanup: the upstream's return(); bounded: boundedCleanupPromise, which *)
(* is raced, won and then settled; close: the inspector's closePromise.    *)
Wrapper ==
  [cleanup : {"none", "running", "completed", "failed"},
   bounded : {"none", "racing", "completed", "failed", "deadline", "budget", "returned", "rejected"},
   close : {"none", "bounded", "closed"}, cancel : {"none", "scheduled", "resolved"},
   claimed : BOOLEAN, reported : BOOLEAN, nextFailed : BOOLEAN, naturallyDone : BOOLEAN,
   attached : BOOLEAN, listening : BOOLEAN, late : BOOLEAN]

Init ==
  /\ timer = "armed"
  /\ aborted \in {"none", "client"}
  /\ next = "idle"
  /\ wrap = [cleanup |-> "none", bounded |-> "none", close |-> "none", cancel |-> "none",
             claimed |-> FALSE, reported |-> FALSE, nextFailed |-> FALSE, naturallyDone |-> FALSE,
             attached |-> FALSE, listening |-> FALSE, late |-> FALSE]
  /\ at = "start"
  /\ acquisition = "running"
  /\ started = FALSE
  /\ refused = FALSE
  /\ parts = 0
  /\ exhausted = FALSE
  /\ deliveries = 0

Settling == {"racing", "completed", "failed", "deadline", "budget"}

-----------------------------------------------------------------------------
(* What the calls make of the wrapper w.                                   *)

(* boundedCleanup, which is started once.                                  *)
Bounded(w) ==
  IF w.bounded # "none" THEN w ELSE [w EXCEPT !.bounded = "racing", !.cleanup = "running"]

(* Whether a caller of return() is told of a failure of the cleanup.       *)
MayClaim(w) == ~w.nextFailed /\ ~w.reported

(* close: wrapper.return(), once.  A promise that is settled already       *)
(* closes at once.                                                         *)
Closed(w) ==
  IF w.close # "none" THEN w
  ELSE IF w.naturallyDone THEN [w EXCEPT !.close = "closed"]
  ELSE IF ~MayClaim(w) THEN [Bounded(w) EXCEPT !.close = "closed"]
  ELSE [Bounded(w) EXCEPT !.claimed = TRUE, !.close = "bounded"]

(* Faulty: an abort cleans up, but nobody who waits for a pull is told.    *)
OnAbort_Faulty(w, reason) ==
  LET v == IF ~w.attached THEN w ELSE [Bounded(w) EXCEPT !.attached = FALSE]
  IN  IF ~v.listening THEN v ELSE [Closed(v) EXCEPT !.listening = FALSE]

(* onAbort of the wrapper, then onAbort of the inspector's cleanup.        *)
OnAbort(w, reason) ==
  LET v == IF ~w.attached THEN w
           ELSE [Bounded(w) EXCEPT !.attached = FALSE,
                                   !.cancel = IF reason = "timeout" THEN @ ELSE "scheduled"]
  IN  IF ~v.listening THEN v ELSE [Closed(v) EXCEPT !.listening = FALSE]

(* Faulty: the listener is added, but an earlier abort is not noticed.     *)
Attached_Faulty(w) == [w EXCEPT !.attached = aborted = "none", !.listening = aborted = "none"]

(* The iterators are made: a signal that is aborted already calls the      *)
(* listeners.                                                              *)
Attached(w) ==
  LET v == [w EXCEPT !.attached = TRUE, !.listening = TRUE]
  IN  IF aborted = "none" THEN v ELSE OnAbort(v, aborted)

Abort(w, reason) == IF aborted = "none" THEN OnAbort(w, reason) ELSE w

Reason(reason) == IF aborted = "none" THEN reason ELSE aborted

(* Faulty: the deadline outlives the cleanup.                              *)
Cleared_Faulty(t) == t

(* clear()                                                                 *)
Cleared(t) == IF t = "armed" THEN "cleared" ELSE t

(* wrapper.next(): a deadline that has passed wins, then a cancellation.   *)
Pulled ==
  IF timer = "fired" THEN "timeout"
  ELSE IF wrap.cancel = "resolved" THEN "cancelled" ELSE "waiting"

-----------------------------------------------------------------------------
(* The upstream.                                                           *)

UpstreamUnchanged ==
  UNCHANGED <<timer, aborted, at, acquisition, started, refused>>

PullPart ==
  /\ next = "waiting" /\ parts < MaxParts /\ ~exhausted
  /\ next' = "part"
  /\ parts' = parts + 1
  /\ UpstreamUnchanged /\ UNCHANGED <<wrap, exhausted, deliveries>>

PullDone ==
  /\ next = "waiting"
  /\ next' = "done"
  /\ exhausted' = TRUE
  /\ UpstreamUnchanged /\ UNCHANGED <<wrap, parts, deliveries>>

PullFails ==
  /\ next = "waiting" /\ ~exhausted
  /\ next' = "failed"
  /\ exhausted' = TRUE
  /\ UpstreamUnchanged /\ UNCHANGED <<wrap, parts, deliveries>>

(* iterator.return() settles, first in the race or late; a late failure is *)
(* reported.                                                               *)
CleanupSettles ==
  /\ wrap.cleanup = "running"
  /\ \E outcome \in {"completed", "failed"} :
       /\ wrap' = [wrap EXCEPT !.cleanup = outcome,
                               !.bounded = IF @ = "racing" THEN outcome ELSE @]
       /\ deliveries' = IF wrap.late /\ outcome = "failed" THEN deliveries + 1 ELSE deliveries
  /\ UpstreamUnchanged /\ UNCHANGED <<next, parts, exhausted>>

-----------------------------------------------------------------------------
(* The timers and the client.                                              *)

DeadlineFires ==
  /\ timer = "armed" /\ at # "start"
  /\ timer' = "fired"
  /\ aborted' = Reason("timeout")
  /\ wrap' = Abort(wrap, "timeout")
  /\ next' = IF next = "waiting" THEN "timeout" ELSE next
  /\ acquisition' = IF acquisition = "running" THEN "failed" ELSE acquisition
  /\ UNCHANGED <<at, started, refused, parts, exhausted, deliveries>>

(* The client goes away, or a shutdown is forced.                          *)
ClientAborts ==
  /\ aborted = "none" /\ at # "start"
  /\ aborted' = "client"
  /\ wrap' = Abort(wrap, "client")
  /\ UNCHANGED <<timer, next, at, acquisition, started, refused, parts, exhausted, deliveries>>

CancelResolves ==
  /\ wrap.cancel = "scheduled"
  /\ wrap' = [wrap EXCEPT !.cancel = "resolved"]
  /\ next' = IF next = "waiting" THEN "cancelled" ELSE next
  /\ UpstreamUnchanged /\ UNCHANGED <<parts, exhausted, deliveries>>

(* The race of the cleanup is won by the deadline or by its budget.        *)
BoundReached ==
  /\ wrap.bounded = "racing"
  /\ wrap' \in {[wrap EXCEPT !.bounded = b] :
                   b \in {"budget"} \cup (IF timer = "fired" THEN {"deadline"} ELSE {})}
  /\ UpstreamUnchanged /\ UNCHANGED <<next, parts, exhausted, deliveries>>

(* Faulty: only the failure of a cleanup in the race is told.              *)
Late_Faulty(w) == FALSE

(* Whether a failure of the cleanup is still to be reported.               *)
Late(w) == w.cleanup = "running"

(* Faulty: a failure is reported although a caller waits for it.           *)
Reports_Faulty(w) == w.bounded = "failed"

Reports(w) == w.bounded = "failed" /\ ~w.claimed

(* boundedCleanup goes on after the race: it reports a failure that no     *)
(* caller claimed, or gives the cleanup up.                                *)
BoundedSettles ==
  /\ wrap.bounded \in Settling \ {"racing"}
  /\ timer' = Cleared(timer)
  /\ LET given == wrap.bounded \in {"deadline", "budget"}
         reason == IF wrap.bounded = "deadline" THEN "timeout" ELSE "budget"
         settled == [wrap EXCEPT !.late = given /\ Late(wrap), !.reported = @ \/ Reports(wrap),
                                 !.bounded = IF @ = "failed" THEN "rejected" ELSE "returned"]
         gone == IF given THEN Abort(settled, reason) ELSE settled
     IN  /\ wrap' = [gone EXCEPT !.attached = FALSE]
         /\ aborted' = IF given THEN Reason(reason) ELSE aborted
         /\ deliveries' = deliveries
              + IF Reports(wrap) \/ (given /\ wrap.cleanup = "failed") THEN 1 ELSE 0
  /\ UNCHANGED <<next, at, acquisition, started, refused, parts, exhausted>>

(* The inspector's closePromise, which tells of a failure.                 *)
CloseSettles ==
  /\ wrap.close = "bounded" /\ wrap.bounded \in {"returned", "rejected"}
  /\ wrap' = [wrap EXCEPT !.close = "closed"]
  /\ deliveries' = IF wrap.bounded = "rejected" THEN deliveries + 1 ELSE deliveries
  /\ UpstreamUnchanged /\ UNCHANGED <<next, parts, exhausted>>

-----------------------------------------------------------------------------
(* inspectFirstStreamChunk and replayStream.                               *)

(* All of acquireUpstreamStream up to the first pull.                      *)
Begin ==
  /\ at = "start"
  /\ at' = "pulling"
  /\ wrap' = Attached(wrap)
  /\ next' = "waiting"
  /\ UNCHANGED <<timer, aborted, acquisition, started, refused, parts, exhausted, deliveries>>

InFirst == ~started /\ at \in {"pulling", "hook", "closing"}

(* The finally block of replayStream, or the catch of the first part.      *)
Finish(w) ==
  /\ at' = "closing"
  /\ wrap' = IF InFirst THEN Closed(w) ELSE Closed([w EXCEPT !.listening = FALSE])

Settle(result) == acquisition' = IF acquisition = "running" THEN result ELSE acquisition

GotPart ==
  /\ next = "part"
  /\ next' = "idle"
  /\ at' = "hook"
  /\ UNCHANGED <<timer, aborted, wrap, acquisition, started, refused, parts, exhausted,
                 deliveries>>

(* Under an abort it is the cleanup that ends the stream's deadline.       *)
NaturallyDone == next = "done" /\ aborted = "none"

(* A stream that ends before its first part is acquired all the same.      *)
GotEnd ==
  /\ next \in {"done", "cancelled"}
  /\ next' = "idle"
  /\ timer' = IF NaturallyDone THEN Cleared(timer) ELSE timer
  /\ LET w == IF next = "done"
              THEN [wrap EXCEPT !.naturallyDone = NaturallyDone, !.attached = @ /\ ~NaturallyDone]
              ELSE wrap
     IN  IF InFirst THEN at' = "empty" /\ Settle("stream") /\ wrap' = w
         ELSE Finish(w) /\ UNCHANGED acquisition
  /\ UNCHANGED <<aborted, started, refused, parts, exhausted, deliveries>>

GotFailure ==
  /\ next \in {"failed", "timeout"}
  /\ next' = "idle"
  /\ Finish(Bounded([wrap EXCEPT !.nextFailed = TRUE]))
  /\ UNCHANGED <<timer, aborted, acquisition, started, refused, parts, exhausted, deliveries>>

(* Faulty: the deadline is for the acquisition only.                       *)
HookPasses_Faulty ==
  /\ at = "hook"
  /\ at' = "offered"
  /\ timer' = IF InFirst THEN Cleared(timer) ELSE timer
  /\ IF InFirst THEN Settle("stream") ELSE UNCHANGED acquisition
  /\ UNCHANGED <<aborted, next, wrap, started, refused, parts, exhausted, deliveries>>

HookPasses ==
  /\ at = "hook"
  /\ at' = "offered"
  /\ IF InFirst THEN Settle("stream") ELSE UNCHANGED acquisition
  /\ UNCHANGED <<timer, aborted, next, wrap, started, refused, parts, exhausted, deliveries>>

(* A refusal of a later part is a part of its own, the last.               *)
HookRefuses ==
  /\ at = "hook"
  /\ refused' = TRUE
  /\ IF InFirst THEN Finish(wrap) ELSE at' = "offered" /\ UNCHANGED wrap
  /\ UNCHANGED <<timer, aborted, next, acquisition, started, parts, exhausted, deliveries>>

HookThrows ==
  /\ at = "hook"
  /\ Finish(wrap)
  /\ UNCHANGED <<timer, aborted, next, acquisition, started, refused, parts, exhausted,
                 deliveries>>

CloseEnds ==
  /\ at = "closing" /\ wrap.close = "closed"
  /\ at' = "ended"
  /\ wrap' = [wrap EXCEPT !.listening = FALSE]
  /\ IF InFirst THEN Settle(IF refused THEN "refused" ELSE "failed") ELSE UNCHANGED acquisition
  /\ UNCHANGED <<timer, aborted, next, started, refused, parts, exhausted, deliveries>>

-----------------------------------------------------------------------------
(* The consumer, if the stream was acquired in time.                       *)

(* The first part was offered before the generator started.                *)
ConsumerStarts ==
  /\ acquisition = "stream" /\ at = "offered" /\ ~started
  /\ started' = TRUE
  /\ UNCHANGED <<timer, aborted, next, wrap, at, acquisition, refused, parts, exhausted,
                 deliveries>>

ConsumerPulls ==
  /\ acquisition = "stream"
  /\ at = "empty" \/ (at = "offered" /\ started)
  /\ started' = TRUE
  /\ IF refused THEN Finish(wrap) /\ UNCHANGED next
     ELSE at' = "pulling" /\ next' = Pulled /\ UNCHANGED wrap
  /\ UNCHANGED <<timer, aborted, acquisition, refused, parts, exhausted, deliveries>>

(* A generator that has not started has nothing to finish.                 *)
ConsumerReturns ==
  /\ acquisition = "stream" /\ at \in {"empty", "offered"}
  /\ IF started THEN Finish(wrap) ELSE at' = "ended" /\ UNCHANGED wrap
  /\ UNCHANGED <<timer, aborted, next, acquisition, started, refused, parts, exhausted,
                 deliveries>>

-----------------------------------------------------------------------------
Upstream == PullPart \/ PullDone \/ PullFails \/ CleanupSettles

Hook == HookPasses \/ HookRefuses \/ HookThrows

(* An iterator that has ended says so at once when it is pulled again.     *)
PullEnded == exhausted /\ PullDone

Inspector == Begin \/ GotPart \/ GotEnd \/ GotFailure \/ CloseEnds
             \/ BoundedSettles \/ CloseSettles \/ PullEnded

Next ==
  \/ Upstream \/ Hook \/ Inspector
  \/ DeadlineFires \/ ClientAborts \/ CancelResolves \/ BoundReached
  \/ ConsumerStarts \/ ConsumerPulls \/ ConsumerReturns

(* Timers fire and continuations run.  Plugins are taken to answer: the    *)
(* upstream need not, and the consumer need not pull.                      *)
Spec ==
  /\ Init /\ [][Next]_vars
  /\ WF_vars(Inspector) /\ WF_vars(Hook)
  /\ WF_vars(DeadlineFires) /\ WF_vars(CancelResolves) /\ WF_vars(BoundReached)

-----------------------------------------------------------------------------
(* Every variable keeps its type, and no failure is told twice.            *)
TypeOK ==
  /\ timer \in {"armed", "fired", "cleared"}
  /\ aborted \in {"none", "client", "timeout", "budget"}
  /\ next \in {"idle", "waiting", "part", "done", "cancelled", "failed", "timeout"}
  /\ wrap \in Wrapper
  /\ at \in {"start", "pulling", "hook", "empty", "offered", "closing", "ended"}
  /\ acquisition \in {"running", "stream", "refused", "failed"}
  /\ started \in BOOLEAN /\ refused \in BOOLEAN /\ exhausted \in BOOLEAN
  /\ parts \in 0 .. MaxParts
  /\ deliveries \in 0 .. 1

(* The deadline is given up only when the upstream has ended or its        *)
(* cleanup was started: until then it is what releases an upstream that    *)
(* its consumer has dropped.                                               *)
DeadlineGuardsUpstream ==
  timer # "armed" /\ at # "start" => exhausted \/ wrap.cleanup # "none"

(* After the end of a stream and of its cleanup no timer is left to abort  *)
(* the request.                                                            *)
NoTimerAfterEnd ==
  wrap.close = "closed" /\ wrap.bounded \notin Settling => timer # "armed"

(* Every upstream is released, even one whose consumer never came.         *)
UpstreamReleased == <>(exhausted \/ wrap.cleanup # "none")

(* A failure of the cleanup reaches the log through one of the three ways  *)
(* it may take, to the inspector, from the race or late; and by TypeOK     *)
(* through no two of them.                                                 *)
CleanupFailureTold == wrap.cleanup = "failed" ~> deliveries = 1

(* Whatever the upstream does, whoever waits for the stream is answered.   *)
ConsumerAnswered ==
  at \in {"start", "pulling", "hook", "closing"} ~> at \in {"empty", "offered", "ended"}
=============================================================================
