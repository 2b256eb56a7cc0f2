------------------------------- MODULE MCShutdown -------------------------------
(***************************************************************************)
(* Instances for TLC of what begins and ends a process: its start, its     *)
(* shutdown and its log.  A behaviour is one of the three, as picked; the  *)
(* variables of the others stay as they are.                               *)
(***************************************************************************)
EXTENDS Shutdown, Sequences

CONSTANTS Plugins, Providers, HookSets, MaxEntries, MaxLines, MaxDays

ASSUME StartAssumption == MaxEntries \in Nat

ASSUME LogAssumption == MaxLines \in Nat /\ MaxDays \in Nat \ {0}

VARIABLES
  picked,
  order, hooks, auth, call, fetch, state, disposal,
  step, oauth, status, refresh, refreshAborted, authStatuses, startExitCode,
  today, line, queue, writing, stdout, stdoutFailed, file, enabled, activeDate, activeStream, lastCleanupDate,
  failureReported, closing

Start == INSTANCE ServerStart WITH exitCode <- startExitCode
Log   == INSTANCE LogFiles

shutdownVars == <<request, aborted, server, drain, force, closeResult, phase, repeats, exitCode,
                  mustForceExit, exited, dispose, disposeAborted, authRefresh, refreshes,
                  afterServerStart>>
startVars == <<order, hooks, auth, call, fetch, state, disposal,
               step, oauth, status, refresh, refreshAborted, authStatuses, startExitCode>>
logVars == <<today, line, queue, writing, stdout, stdoutFailed, file, enabled, activeDate, activeStream,
             lastCleanupDate, failureReported, closing>>
allVars == <<picked, shutdownVars, startVars, logVars>>

MCInit ==
  /\ picked \in {"shutdown", "start", "log"}
  /\ Init /\ Start!Init /\ Log!Init
  /\ picked # "shutdown" => ~authRefresh /\ ~refreshes /\ ~afterServerStart
  /\ picked # "log" => ~enabled

MCNext ==
  \/ picked = "shutdown" /\ Next /\ UNCHANGED <<picked, startVars, logVars>>
  \/ picked = "start" /\ Start!Next /\ UNCHANGED <<picked, shutdownVars, logVars>>
  \/ picked = "log" /\ Log!Next /\ UNCHANGED <<picked, shutdownVars, startVars>>

Still == picked = "shutdown" /\ UNCHANGED <<picked, startVars, logVars>>

(* The fairness of Shutdown.                                               *)
MCSpec ==
  /\ MCInit /\ [][MCNext]_allVars
  /\ WF_allVars(Still /\ Timer) /\ WF_allVars(Still /\ Controller) /\ WF_allVars(Still /\ Disposal)

-----------------------------------------------------------------------------
(* See ServerStart: plugins are disposed last to first and at rest, after  *)
(* every failed start.                                                     *)
PluginsDisposedAtRest == picked = "start" => Start!PluginsDisposedAtRest

(* See ServerStart: a refresh that was cut off is not told as a login that *)
(* is needed.                                                              *)
StatusesHonest == picked = "start" => Start!StatusesHonest

(* See LogFiles: no line is lost but by a write that failed, none doubled  *)
(* or out of order.                                                        *)
LinesArrive == picked = "log" => Log!LinesArrive
=============================================================================
