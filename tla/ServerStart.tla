------------------------------ MODULE ServerStart ------------------------------
(***************************************************************************)
(* Starting the server (src/server/server.ts): one step after the other,   *)
(* any of which may fail or never end; after a failure the plugins are     *)
(* disposed within a deadline.  While the server runs, the OAuth statuses  *)
(* are refreshed (src/server/oauth/startup.ts) and the afterServerStart    *)
(* hooks run.  How a running server closes is in Shutdown; here it only    *)
(* disposes the plugins.                                                   *)
(***************************************************************************)
EXTENDS PluginRegistry

VARIABLES
  step,               \* what startServer, or disposePlugins, waits for
  oauth,              \* the providers with OAuth
  status,             \* of such a provider: its refresh
  refresh,            \* authRefreshPromise: "no", "running" or "ended"
  refreshAborted,     \* authRefreshController
  authStatuses,       \* what /health tells of a provider
  exitCode

own == <<step, oauth, status, refresh, refreshAborted, authStatuses, exitCode>>

vars == <<registry, own>>

Init ==
  /\ RegistryInit
  /\ step = "load"
  /\ oauth = {} /\ status = [v \in Providers |-> "no"]
  /\ refresh = "no" /\ refreshAborted = FALSE
  /\ authStatuses = [v \in Providers |-> "no"]
  /\ exitCode = 0

-----------------------------------------------------------------------------
Then(next) ==
  /\ step' = next
  /\ UNCHANGED <<oauth, status, refresh, refreshAborted, authStatuses, exitCode>>

(* The catch of startServer: disposeAll with a deadline.                   *)
Fails == StartDisposal /\ Then("cleaning up")

(* start(): the error is logged and the log closed.                        *)
ClosesLog(next) ==
  /\ step' = next /\ exitCode' = 1
  /\ UNCHANGED <<oauth, status, refresh, refreshAborted, authStatuses>>

(* The settings are read, the plugins loaded: all of them or none.         *)
Load ==
  /\ step = "load"
  /\ \/ /\ \E global \in SeqOf(Entry, MaxEntries), below \in SeqOf(Plugins, MaxEntries),
              has \in [Plugins -> HookSets], providers \in SUBSET Providers :
             /\ Valid(global, below, has, providers)
             /\ Loads(global, below, has)
             /\ oauth' = providers
        /\ step' = "init"
        /\ UNCHANGED <<status, refresh, refreshAborted, authStatuses, exitCode>>
     \/ ClosesLog("closing log") /\ UNCHANGED registry

\* createTokenManagerIfNeeded
Tokens ==
  /\ step = "init" /\ InitSettled
  /\ Then("tokens") /\ UNCHANGED registry

TokensRead ==
  /\ step = "tokens"
  /\ \/ Then("before") /\ UNCHANGED registry
     \/ oauth # {} /\ Fails

Before == step = "before" /\ CallBefore /\ UNCHANGED own

(* createProviderRegistry asks for the fetch of every provider at once,    *)
(* and fails with the first that does.                                     *)
CreateProviders ==
  /\ step = "before"
  /\ \/ AnyFailed("beforeServerStart") /\ Fails
     \/ BeforeEnded /\ ~AnyFailed("beforeServerStart") /\ CreateFetches /\ Then("providers")

(* createApp, and listenForStartup: each may fail.                         *)
Listen ==
  /\ step = "providers"
  /\ \/ (\E v \in Providers : fetch[v] = "failed") /\ Fails
     \/ (\A v \in Providers : fetch[v] = "done") /\ Then("listen") /\ UNCHANGED registry

ListenFails == step = "listen" /\ Fails

(* The server listens: it may be stopped from now on.                      *)
Serve ==
  /\ step = "listen" /\ step' = "serving"
  /\ CallAfter
  /\ refresh' = IF oauth = {} THEN refresh ELSE "running"
  /\ \E got \in [oauth -> {"valid", "needs_refresh", "needs_login"}] :
       status' = [v \in Providers |-> IF v \in oauth THEN got[v] ELSE "no"]
  /\ UNCHANGED <<oauth, refreshAborted, authStatuses, exitCode>>

-----------------------------------------------------------------------------
(* refreshAuthStatuses                                                     *)

(* ensureValidToken ends: the provider's token is valid, or it needs a     *)
(* login, or the shutdown has cut the refresh off.                         *)
StatusResolved(v) ==
  /\ status[v] = "needs_refresh"
  /\ \E to \in {"valid", IF refreshAborted THEN "cut off" ELSE "needs_login"} :
       status' = [status EXCEPT ![v] = to]
  /\ UNCHANGED <<registry, step, oauth, refresh, refreshAborted, authStatuses, exitCode>>

Reported(v) == IF status[v] = "cut off" THEN "needs_login" ELSE status[v]

(* Faulty: the statuses are reported whether the refresh was aborted or    *)
(* not.                                                                    *)
StatusesReported_Faulty == [v \in Providers |-> Reported(v)]

StatusesReported == IF refreshAborted THEN authStatuses ELSE [v \in Providers |-> Reported(v)]

RefreshEnds ==
  /\ refresh = "running" /\ refresh' = "ended"
  /\ \A v \in oauth : status[v] # "needs_refresh"
  /\ authStatuses' = StatusesReported
  /\ UNCHANGED <<registry, step, oauth, status, refreshAborted, exitCode>>

-----------------------------------------------------------------------------
(* disposePlugins, when the server has stopped.                            *)

Stop ==
  /\ step = "serving" /\ step' = "statuses"
  /\ refreshAborted' = (oauth # {})
  /\ UNCHANGED <<registry, oauth, status, refresh, authStatuses, exitCode>>

AwaitStatuses ==
  /\ step = "statuses" /\ refresh # "running"
  /\ Then("hooks") /\ UNCHANGED registry

AwaitHooks ==
  /\ step = "hooks"
  /\ disposal.aborted \/ ~AnyRunning("afterServerStart")
  /\ StartDisposal /\ Then("stopping")

-----------------------------------------------------------------------------
Dispose == step \in {"cleaning up", "stopping"} /\ DisposeNext /\ UNCHANGED own

(* The deadline of the cleanup, and of disposePlugins.                     *)
Deadline ==
  /\ ~disposal.aborted /\ AbortDisposal
  /\ \/ step = "cleaning up" /\ state = "disposing" /\ ClosesLog("closing log in time")
     \/ step \in {"statuses", "hooks", "stopping"} /\ state # "disposed" /\ UNCHANGED own

CleanedUp ==
  /\ step = "cleaning up" /\ state = "disposed"
  /\ ClosesLog("closing log") /\ UNCHANGED registry

(* The aborted disposal ends beside what goes on after its deadline.       *)
DisposesLate == step = "closing log in time" /\ DisposeNext /\ UNCHANGED own

(* logging.close ends, within its deadline if the cleanup missed its own.  *)
LogClosed ==
  /\ step \in {"closing log", "closing log in time"}
  /\ Then(IF step = "closing log" THEN "ended" ELSE "exited")
  /\ UNCHANGED registry

Stopped ==
  /\ step = "stopping" /\ state = "disposed"
  /\ Then(IF disposal.aborted THEN "exited" ELSE "ended")
  /\ UNCHANGED registry

Next ==
  \/ Load \/ Tokens \/ TokensRead \/ Before \/ CreateProviders \/ Listen \/ ListenFails \/ Serve
  \/ RefreshEnds \/ Stop \/ AwaitStatuses \/ AwaitHooks
  \/ Dispose \/ Deadline \/ CleanedUp \/ DisposesLate \/ LogClosed \/ Stopped
  \/ /\ step # "exited"
     /\ \/ \E v \in Providers : StatusResolved(v)
        \/ \E v \in Providers : FetchSettles(v) /\ UNCHANGED own
        \/ \E p \in Plugins, h \in Hooks : HookSettles(p, h) /\ UNCHANGED own

Spec == Init /\ [][Next]_vars

-----------------------------------------------------------------------------
Disposed(p) == call[p]["dispose"] # "no"

Later(p) == {order[j] : j \in {j \in 1..Len(order) : \E i \in 1..(j - 1) : order[i] = p}}

(* A plugin is disposed after all those that were loaded later, and while  *)
(* no hook of any runs: none is initialised, started or looked after by a  *)
(* hook any more.  (A createFetch that was started with one that failed    *)
(* may still run.)  However a start fails, every plugin that was loaded    *)
(* has been disposed when the process ends by itself, those that could not *)
(* be initialised too, which serve for nothing else; if one of them hangs  *)
(* the process is made to exit, with an error.                             *)
PluginsDisposedAtRest ==
  /\ \A p \in Plugins : Disposed(p) =>
       /\ \A q \in Later(p) : "dispose" \in hooks[q] => call[q]["dispose"] \in {"done", "failed"}
       /\ \A q \in Plugins, h \in Hooks \ {"dispose"} : call[q][h] # "running"
  /\ step = "ended" => \A p \in Plugins : "dispose" \in hooks[p] => call[p]["dispose"] \in {"done", "failed"}
  /\ step \in {"closing log", "closing log in time"} => exitCode = 1
  /\ \A p \in Plugins : ~Available(p) =>
       call[p]["beforeServerStart"] = "no" /\ call[p]["afterServerStart"] = "no"

(* What /health tells of a provider is what its refresh came to.  A refresh*)
(* that the shutdown's abort cut off (refreshes have no other limit) is    *)
(* never told as a login that is needed, whatever the others came to.      *)
StatusesHonest == \A v \in Providers : authStatuses[v] \in {"no", status[v]}
=============================================================================
