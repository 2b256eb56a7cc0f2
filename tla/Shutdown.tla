------------------------------- MODULE Shutdown -------------------------------
(***************************************************************************)
(* Stopping the server: the shutdown controller (src/server/lifecycle.ts), *)
(* the registry of active requests (src/server/active-requests.ts) and the *)
(* disposal of the plugins (src/server/server.ts).  A signal or a process  *)
(* error closes the listening socket and waits, within a grace period, for *)
(* the connections to end and the requests to be released; then it forces  *)
(* them.  Then the plugins are disposed and the log is closed, each within *)
(* a deadline.  A second signal forces at once.  Requests, plugins, token  *)
(* refreshes and the log may each take forever.                            *)
(***************************************************************************)
EXTENDS Naturals, FiniteSets

CONSTANTS
  Requests,           \* one request each over a connection of its own
  MaxRepeats          \* signals after the first one: a bound of the model

ASSUME MaxRepeatsIsNat == MaxRepeats \in Nat

VARIABLES
  request,            \* of each request: where it is
  aborted,            \* the requests whose AbortController is aborted
  server,             \* the listening socket: close() and its callback
  drain,              \* the promise of activeRequests.drain()
  phase,              \* what the shutdown is waiting for
  repeats,            \* the signals after the first one
  force,              \* forceRequested, forceFailed and forceSucceeded
  closeResult,        \* how the server was closed
  exitCode,           \* process.exitCode
  mustForceExit,      \* something did not end in time
  exited,             \* process.exit was called
  dispose,            \* disposePlugins: the await it is at
  disposeAborted,     \* the signal of its deadline
  authRefresh,        \* authRefreshPromise: still under way
  refreshes,          \* tokenManager: refreshes still under way
  afterServerStart    \* afterServerStartPromise: still under way

closeVars   == <<server, drain, force, closeResult>>
disposeVars == <<dispose, disposeAborted, authRefresh, refreshes, afterServerStart>>
vars == <<request, aborted, closeVars, phase, repeats, exitCode, mustForceExit, exited, disposeVars>>

-----------------------------------------------------------------------------
(* The requests.  A request that is running is registered; its connection  *)
(* may end before it, and it before its connection.                        *)
Registered == {"running", "detached"}
Open       == {"connected", "running", "released"}

Active(req) == {r \in Requests : req[r] \in Registered}

(* The process runs until process.exit.                                    *)
Alive == ~exited

Init ==
  /\ request = [r \in Requests |-> "none"]
  /\ aborted = {}
  /\ server = "listening"
  /\ drain = "none"
  /\ phase = "serving"
  /\ repeats = 0
  /\ force = [requested |-> FALSE, failed |-> FALSE, succeeded |-> FALSE]
  /\ closeResult = "none"
  /\ exitCode = 0
  /\ mustForceExit = FALSE
  /\ exited = FALSE
  /\ dispose = "none"
  /\ disposeAborted = FALSE
  /\ authRefresh \in BOOLEAN
  /\ refreshes \in BOOLEAN
  /\ afterServerStart \in BOOLEAN

Moves(r, from, to) ==
  /\ Alive
  /\ request[r] \in from
  /\ request' = [request EXCEPT ![r] = to]

NotRequests ==
  UNCHANGED <<phase, repeats, server, force, closeResult, exitCode, mustForceExit, exited, disposeVars>>

Connect(r) ==
  /\ server = "listening"
  /\ Moves(r, {"none"}, "connected")
  /\ NotRequests /\ UNCHANGED <<aborted, drain>>

Register(r) ==
  /\ Moves(r, {"connected"}, "running")
  /\ NotRequests /\ UNCHANGED <<aborted, drain>>

(* Faulty: a waiter of drain() is not told.                                *)
Drained_Faulty(req) == drain

(* resolveDrain: the waiters are told when no request is left.             *)
Drained(req) == IF drain = "waiting" /\ Active(req) = {} THEN "drained" ELSE drain

(* releaseRequest                                                          *)
Release(r) ==
  /\ \/ Moves(r, {"running"}, "released")
     \/ Moves(r, {"detached"}, "closed")
  /\ drain' = Drained(request')
  /\ NotRequests /\ UNCHANGED aborted

(* A connection ends: abortFromIncomingRequest if the request is not done. *)
Disconnect(r) ==
  /\ \/ Moves(r, {"connected", "released"}, "closed") /\ UNCHANGED aborted
     \/ Moves(r, {"running"}, "detached") /\ aborted' = aborted \cup {r}
  /\ NotRequests /\ UNCHANGED drain

(* ensureValidToken of a request.                                          *)
StartRefresh ==
  /\ Alive
  /\ Active(request) # {}
  /\ refreshes' = TRUE
  /\ UNCHANGED <<request, aborted, closeVars, phase, repeats, exitCode, mustForceExit, exited,
                 dispose, disposeAborted, authRefresh, afterServerStart>>

-----------------------------------------------------------------------------
(* The shutdown controller.                                                *)

(* Faulty: a request that still runs without its connection is forgotten.  *)
DrainPromise_Faulty == "drained"

(* drain(): resolved at once when no request is registered.                *)
DrainPromise == IF Active(request) = {} THEN "drained" ELSE "waiting"

(* The callback of server.close: every connection has ended.               *)
ServerClosed ==
  /\ Alive
  /\ server = "closing"
  /\ \A r \in Requests : request[r] \notin Open
  /\ server' = "closed"
  /\ drain' = DrainPromise
  /\ UNCHANGED <<request, aborted, phase, repeats, force, closeResult, exitCode, mustForceExit,
                 exited, disposeVars>>

(* What closeAllConnections makes of a request's status.                   *)
Cut(status) ==
  CASE status \in {"connected", "released"} -> "closed"
    [] status = "running" -> "detached"
    [] OTHER -> status

(* forceCloseConnections: each of its halves may throw.  Its result is the *)
(* caller's (forceSucceeded); the grace expiry keeps that of its own call. *)
ForceClose(abortOk, closeOk, forceSucceeded) ==
  /\ force' = [requested |-> TRUE, failed |-> force.failed \/ ~abortOk \/ ~closeOk,
               succeeded |-> forceSucceeded]
  /\ request' = IF closeOk THEN [r \in Requests |-> Cut(request[r])] ELSE request
  /\ aborted' = aborted
       \cup (IF abortOk THEN Active(request) ELSE {})
       \cup (IF closeOk THEN {r \in Requests : request[r] = "running"} ELSE {})

ExitCode(failed) == IF failed THEN 1 ELSE exitCode

(* The first signal: a process error (err) is recorded.                    *)
RequestShutdown(err) ==
  /\ Alive
  /\ phase = "serving"
  /\ phase' = "grace"
  /\ server' \in {"closing", "failed"}
  /\ exitCode' = ExitCode(err)
  /\ UNCHANGED <<request, aborted, drain, force, closeResult, repeats, mustForceExit, exited,
                 disposeVars>>

(* Another signal forces the connections, whatever the shutdown waits for. *)
RepeatShutdown(err, abortOk, closeOk) ==
  /\ Alive
  /\ phase # "serving"
  /\ repeats < MaxRepeats
  /\ repeats' = repeats + 1
  /\ ForceClose(abortOk, closeOk, force.succeeded)
  /\ exitCode' = ExitCode(err \/ ~abortOk \/ ~closeOk)
  /\ UNCHANGED <<phase, server, drain, closeResult, mustForceExit, exited, disposeVars>>

CloseEnds(result, failed) ==
  /\ closeResult' = result
  /\ phase' = "disposing"
  /\ dispose' = "authRefresh"
  /\ exitCode' = ExitCode(failed)
  /\ UNCHANGED <<request, aborted, server, drain, repeats, exited, disposeAborted, authRefresh,
                 refreshes, afterServerStart>>

(* closeAndDrain settles within the grace period.                          *)
GraceSettles ==
  /\ Alive
  /\ phase = "grace"
  /\ \/ server = "failed" /\ CloseEnds("failed", TRUE)
     \/ drain = "drained" /\
          CloseEnds(IF force.failed THEN "failed" ELSE IF force.requested THEN "forced"
                    ELSE "graceful", FALSE)
  /\ UNCHANGED <<force, mustForceExit>>

GraceExpires(abortOk, closeOk) ==
  /\ Alive
  /\ phase = "grace"
  /\ phase' = "forcing"
  /\ ForceClose(abortOk, closeOk, abortOk /\ closeOk)
  /\ exitCode' = ExitCode(~abortOk \/ ~closeOk)
  /\ UNCHANGED <<server, drain, closeResult, repeats, mustForceExit, exited, disposeVars>>

ForceSettles ==
  /\ Alive
  /\ phase = "forcing"
  /\ \/ server = "failed" /\ CloseEnds("failed", TRUE)
     \/ drain = "drained" /\ CloseEnds(IF force.succeeded THEN "forced" ELSE "failed", FALSE)
  /\ UNCHANGED <<force, mustForceExit>>

(* Faulty: a close that timed out is left to end by itself.                *)
GivesUp_Faulty == FALSE

(* What did not end in time must not keep the process alive.               *)
GivesUp == TRUE

ForceExpires ==
  /\ Alive
  /\ phase = "forcing"
  /\ CloseEnds("force_timed_out", TRUE)
  /\ mustForceExit' = GivesUp
  /\ UNCHANGED force

-----------------------------------------------------------------------------
(* disposePlugins, which goes on after its deadline.                       *)

DisposeAt(step, to) ==
  /\ Alive
  /\ dispose = step
  /\ dispose' = to
  /\ UNCHANGED <<request, aborted, closeVars, phase, repeats, exitCode, mustForceExit, exited,
                 disposeAborted, authRefresh, refreshes, afterServerStart>>

(* The OAuth status refresh is aborted, and awaited.                       *)
AwaitAuthRefresh == ~authRefresh /\ DisposeAt("authRefresh", "refreshes")

(* waitForPendingRefreshes                                                 *)
AwaitRefreshes == ~refreshes /\ DisposeAt("refreshes", "afterServerStart")

(* Faulty: the hooks are not waited for.                                   *)
HooksSettled_Faulty == TRUE

HooksSettled == ~afterServerStart

(* waitForSettlementOrAbort                                                *)
AwaitHooks ==
  /\ HooksSettled \/ disposeAborted
  /\ DisposeAt("afterServerStart", "disposeAll")

(* Faulty: the deadline is not looked at before a plugin is disposed.      *)
Disposes_Faulty == TRUE

Disposes == ~disposeAborted

(* disposeAll: no plugin is disposed once the signal is aborted.           *)
DisposeAll ==
  \/ Disposes /\ DisposeAt("disposeAll", "plugins")
  \/ ~Disposes /\ DisposeAt("disposeAll", "failed")

PluginsDispose ==
  \/ DisposeAt("plugins", "done")
  \/ DisposeAt("plugins", "failed")

(* settlePluginDispose                                                     *)
PluginsAbandoned == disposeAborted /\ DisposeAt("plugins", "failed")

(* What disposePlugins waits for ends, if it does.                         *)
Background ==
  /\ Alive
  /\ \/ authRefresh /\ authRefresh' = FALSE /\ UNCHANGED <<refreshes, afterServerStart>>
     \/ refreshes /\ refreshes' = FALSE /\ UNCHANGED <<authRefresh, afterServerStart>>
     \/ afterServerStart /\ afterServerStart' = FALSE /\ UNCHANGED <<authRefresh, refreshes>>
  /\ UNCHANGED <<request, aborted, closeVars, phase, repeats, exitCode, mustForceExit, exited,
                 dispose, disposeAborted>>

Settled == dispose \in {"done", "failed"}

DisposeSettles ==
  /\ Alive
  /\ phase = "disposing"
  /\ Settled
  /\ phase' = "closingLog"
  /\ exitCode' = ExitCode(dispose = "failed")
  /\ UNCHANGED <<request, aborted, closeVars, repeats, mustForceExit, exited, disposeVars>>

(* Faulty: only the plugins' own disposal has a deadline.                  *)
DeadlineRuns_Faulty == phase = "disposing" /\ dispose = "plugins"

DeadlineRuns == phase = "disposing"

DisposeDeadline ==
  /\ Alive
  /\ DeadlineRuns
  /\ phase' = "closingLog"
  /\ disposeAborted' = TRUE
  /\ exitCode' = ExitCode(TRUE)
  /\ mustForceExit' = TRUE
  /\ UNCHANGED <<request, aborted, closeVars, repeats, exited, dispose, authRefresh, refreshes,
                 afterServerStart>>

(* closeLogging ends, fails, or reaches its deadline; then the process may *)
(* have to be ended.                                                       *)
CloseLogging(failed, late) ==
  /\ Alive
  /\ phase = "closingLog"
  /\ phase' = "ended"
  /\ exitCode' = ExitCode(failed)
  /\ mustForceExit' = (mustForceExit \/ late)
  /\ exited' = mustForceExit'
  /\ UNCHANGED <<request, aborted, closeVars, repeats, disposeVars>>

LoggingSettles == \E failed \in BOOLEAN : CloseLogging(failed, FALSE)
LoggingDeadline == CloseLogging(TRUE, TRUE)

-----------------------------------------------------------------------------
Timer == (\E a, b \in BOOLEAN : GraceExpires(a, b)) \/ ForceExpires \/ DisposeDeadline
           \/ LoggingDeadline

Controller == ServerClosed \/ GraceSettles \/ ForceSettles \/ DisposeSettles

Disposal == AwaitAuthRefresh \/ AwaitRefreshes \/ AwaitHooks \/ DisposeAll \/ PluginsAbandoned

Next ==
  \/ \E r \in Requests : Connect(r) \/ Register(r) \/ Release(r) \/ Disconnect(r)
  \/ StartRefresh
  \/ \E err \in BOOLEAN : RequestShutdown(err)
  \/ \E err, a, b \in BOOLEAN : RepeatShutdown(err, a, b)
  \/ Timer \/ Controller \/ Disposal
  \/ PluginsDispose \/ Background \/ LoggingSettles

(* Timers fire and promises that are ready are served; nothing else needs  *)
(* to happen.                                                              *)
Spec == Init /\ [][Next]_vars /\ WF_vars(Timer) /\ WF_vars(Controller) /\ WF_vars(Disposal)

-----------------------------------------------------------------------------
(* Every variable keeps its type; drain() has waiters only while a request *)
(* is registered.                                                          *)
TypeOK ==
  /\ request \in [Requests -> Registered \cup Open \cup {"none", "closed"}]
  /\ aborted \subseteq Requests
  /\ server \in {"listening", "closing", "closed", "failed"}
  /\ drain \in {"none", "waiting", "drained"}
  /\ phase \in {"serving", "grace", "forcing", "disposing", "closingLog", "ended"}
  /\ repeats \in 0..MaxRepeats
  /\ force \in [requested : BOOLEAN, failed : BOOLEAN, succeeded : BOOLEAN]
  /\ closeResult \in {"none", "graceful", "forced", "failed", "force_timed_out"}
  /\ exitCode \in {0, 1}
  /\ mustForceExit \in BOOLEAN /\ exited \in BOOLEAN
  /\ dispose \in {"none", "authRefresh", "refreshes", "afterServerStart", "disposeAll", "plugins",
                  "done", "failed"}
  /\ disposeAborted \in BOOLEAN /\ authRefresh \in BOOLEAN
  /\ refreshes \in BOOLEAN /\ afterServerStart \in BOOLEAN
  /\ drain = "waiting" => Active(request) # {}

(* The plugins are disposed under no request, unless the server could not  *)
(* be closed: drain() also waits for a request whose connection has ended. *)
PluginsOutliveRequests ==
  dispose # "none" /\ closeResult \in {"graceful", "forced"} => Active(request) = {}

(* A plugin is never disposed while an afterServerStart hook runs or the   *)
(* OAuth statuses are refreshed, nor, once the requests have ended, under  *)
(* a token refresh.                                                        *)
DisposedAtRest ==
  dispose = "plugins" =>
    /\ ~afterServerStart /\ ~authRefresh
    /\ closeResult \in {"graceful", "forced"} => ~refreshes

(* The plugins are disposed under no request, hook or refresh.             *)
StopsInOrder == TypeOK /\ PluginsOutliveRequests /\ DisposedAtRest

(* No disposal of a plugin starts after its deadline, while the log closes *)
(* or is closed.                                                           *)
NoLateDisposal == [][dispose' = "plugins" /\ dispose # "plugins" => phase = "disposing"]_vars

(* A process that was not ended by force has nothing left that it stopped  *)
(* waiting for, and one that reports success has ended well.               *)
EndsWell ==
  phase = "ended" /\ ~exited =>
    /\ Settled
    /\ drain = "drained" \/ server = "failed"
    /\ exitCode = 0 => /\ server = "closed" /\ dispose = "done"
                       /\ closeResult \in {"graceful", "forced"}

(* A shutdown ends, whatever hangs.                                        *)
ShutdownEnds == phase = "grace" ~> phase = "ended"
=============================================================================
