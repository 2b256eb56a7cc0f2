---------------------------- MODULE ShutdownProofs ----------------------------
(***************************************************************************)
(* What TLAPS proves of how a process begins, ends and logs.  Shutdown, for*)
(* any set of requests and any number of signals: the plugins outlive the  *)
(* requests and are disposed at rest, no disposal starts late, and what the*)
(* process reports is true.  ServerStart with PluginRegistry, for any      *)
(* plugins and providers: after every failed start the loaded plugins are  *)
(* disposed last to first and at rest, and /health tells what a refresh    *)
(* came to.  LogFiles, for any number of lines and days: every line that   *)
(* was logged arrives, once and in order, unless its own write fails.      *)
(***************************************************************************)
EXTENDS MCShutdown, DataProofs
-----------------------------------------------------------------------------
(* The shutdown (Shutdown).                                                *)

(* Once the server is closed no request comes any more; drain() is called  *)
(* then, and those that it waited for are gone when it resolves.           *)
Draining ==
  /\ phase = "serving" => server = "listening"
  /\ server = "closed" => \A r \in Requests : request[r] \notin Open
  /\ drain # "none" => server = "closed"
  /\ drain = "drained" => Active(request) = {}

(* The close ends with the drain, with a server that cannot be closed, or  *)
(* with the decision to end the process; a failure of it is in the code.   *)
Closing ==
  /\ phase \in {"serving", "grace", "forcing"} => dispose = "none" /\ closeResult = "none"
  /\ closeResult \in {"graceful", "forced"} => drain = "drained"
  /\ phase \in {"disposing", "closingLog", "ended"} =>
       /\ drain = "drained" \/ server = "failed" \/ mustForceExit
       /\ exitCode = 0 => closeResult \in {"graceful", "forced"}
  /\ force.failed => exitCode = 1
  /\ phase = "forcing" => force.succeeded \/ exitCode = 1

(* The disposal goes from step to step; after its deadline it does not     *)
(* begin with a plugin.                                                    *)
Disposing ==
  /\ dispose \in {"refreshes", "afterServerStart", "disposeAll", "plugins"} => ~authRefresh
  /\ dispose \in {"afterServerStart", "disposeAll", "plugins"}
       /\ closeResult \in {"graceful", "forced"} => ~refreshes
  /\ dispose = "disposeAll" => ~afterServerStart \/ disposeAborted
  /\ dispose = "plugins" => ~afterServerStart
  /\ dispose \notin {"none", "done", "failed"} => phase = "disposing" \/ disposeAborted

(* What did not end in time ends the process.                              *)
Ending ==
  /\ phase \in {"closingLog", "ended"} =>
       /\ Settled \/ mustForceExit
       /\ exitCode = 0 /\ ~mustForceExit => dispose = "done"
  /\ phase = "ended" => exited = mustForceExit

IInv == TypeOK /\ Draining /\ Closing /\ Disposing /\ Ending

-----------------------------------------------------------------------------
(* A process starts with nothing to stop.                                  *)
THEOREM Initially == Init => IInv
<1> SUFFICES ASSUME Init PROVE IInv
  OBVIOUS
<1>1. authRefresh \in BOOLEAN /\ refreshes \in BOOLEAN /\ afterServerStart \in BOOLEAN
  BY DEF Init
<1>2. request \in [Requests -> Registered \cup Open \cup {"none", "closed"}]
  BY DEF Init
<1>3. force \in [requested : BOOLEAN, failed : BOOLEAN, succeeded : BOOLEAN]
  BY DEF Init
<1>4. TypeOK
  <2>1. repeats \in 0..MaxRepeats /\ exitCode \in {0, 1}
    BY MaxRepeatsIsNat DEF Init
  <2>2. mustForceExit \in BOOLEAN /\ exited \in BOOLEAN /\ disposeAborted \in BOOLEAN
    BY DEF Init
  <2>3. drain # "waiting" /\ aborted \subseteq Requests
    BY DEF Init
  <2> QED
    BY <1>1, <1>2, <1>3, <2>1, <2>2, <2>3, Zenon DEF Init, TypeOK
<1>5. Draining /\ Closing /\ Disposing /\ Ending
  BY DEF Init, Draining, Closing, Disposing, Ending
<1> QED
  BY <1>4, <1>5 DEF IInv

(* A step of a request: none begins once the server is closed, and the     *)
(* last to be released resolves the drain.                                 *)
LEMMA RequestSteps ==
  ASSUME IInv, NEW r \in Requests, Connect(r) \/ Register(r) \/ Release(r) \/ Disconnect(r)
  PROVE  IInv'
<1> USE DEF IInv, TypeOK, Draining, Closing, Disposing, Ending, Active, Registered, Open, Settled,
        closeVars, disposeVars, Moves, NotRequests
<1>1. CASE Connect(r)
  BY <1>1 DEF Connect
<1>2. CASE Register(r)
  BY <1>2 DEF Register
<1>3. CASE Release(r)
  BY <1>3 DEF Release, Drained
<1>4. CASE Disconnect(r)
  BY <1>4 DEF Disconnect
<1> QED
  BY <1>1, <1>2, <1>3, <1>4

(* A signal, and the steps by which the server's close goes on to the      *)
(* disposal: the exit code keeps every failure.                            *)
LEMMA CloseSteps ==
  ASSUME IInv,
         \/ \E err \in BOOLEAN : RequestShutdown(err)
         \/ \E err, a, b \in BOOLEAN : RepeatShutdown(err, a, b)
         \/ ServerClosed \/ GraceSettles \/ ForceSettles
         \/ \E a, b \in BOOLEAN : GraceExpires(a, b)
         \/ ForceExpires
  PROVE  IInv'
<1> USE DEF IInv, TypeOK, Draining, Closing, Disposing, Ending, Active, Registered, Open, Settled,
        closeVars, disposeVars, ExitCode
<1>1. ASSUME NEW err \in BOOLEAN, RequestShutdown(err) PROVE IInv'
  BY <1>1 DEF RequestShutdown
<1>2. ASSUME NEW err \in BOOLEAN, NEW a \in BOOLEAN, NEW b \in BOOLEAN, RepeatShutdown(err, a, b)
      PROVE  IInv'
  BY <1>2, MaxRepeatsIsNat DEF RepeatShutdown, ForceClose, Cut
<1>3. CASE ServerClosed
  BY <1>3 DEF ServerClosed, DrainPromise
<1>4. CASE GraceSettles
  BY <1>4 DEF GraceSettles, CloseEnds
<1>5. CASE ForceSettles
  BY <1>5 DEF ForceSettles, CloseEnds
<1>6. ASSUME NEW a \in BOOLEAN, NEW b \in BOOLEAN, GraceExpires(a, b) PROVE IInv'
  BY <1>6 DEF GraceExpires, ForceClose, Cut
<1>7. CASE ForceExpires
  BY <1>7 DEF ForceExpires, CloseEnds, GivesUp
<1> QED
  BY <1>1, <1>2, <1>3, <1>4, <1>5, <1>6, <1>7

(* What goes on in the background ends, and does not begin.                *)
LEMMA BackgroundOnlyEnds ==
  ASSUME authRefresh \in BOOLEAN, refreshes \in BOOLEAN, afterServerStart \in BOOLEAN, Background
  PROVE  /\ UNCHANGED <<request, aborted, server, drain, force, closeResult, phase, repeats,
                         exitCode, mustForceExit, exited, dispose, disposeAborted>>
         /\ authRefresh' \in BOOLEAN /\ refreshes' \in BOOLEAN /\ afterServerStart' \in BOOLEAN
         /\ (~authRefresh => ~authRefresh') /\ (~refreshes => ~refreshes')
         /\ (~afterServerStart => ~afterServerStart')
<1>1. UNCHANGED <<request, aborted, server, drain, force, closeResult, phase, repeats, exitCode,
                 mustForceExit, exited, dispose, disposeAborted>>
  BY DEF Background, closeVars
<1>2. authRefresh' = FALSE \/ authRefresh' = authRefresh
  BY DEF Background
<1>3. refreshes' = FALSE \/ refreshes' = refreshes
  BY DEF Background
<1>4. afterServerStart' = FALSE \/ afterServerStart' = afterServerStart
  BY DEF Background
<1>5. authRefresh' \in BOOLEAN /\ refreshes' \in BOOLEAN /\ afterServerStart' \in BOOLEAN
  BY <1>2, <1>3, <1>4
<1>6. ~authRefresh => ~authRefresh'
  BY <1>2
<1>7. ~refreshes => ~refreshes'
  BY <1>3
<1>8. ~afterServerStart => ~afterServerStart'
  BY <1>4
<1> QED
  BY <1>1, <1>5, <1>6, <1>7, <1>8

(* The steps of the disposal, in their order, and what it waits for.  A    *)
(* token refresh begins only under a request.                              *)
LEMMA DisposalSteps ==
  ASSUME IInv,
         \/ Disposal \/ PluginsDispose \/ Background \/ StartRefresh
         \/ DisposeSettles \/ DisposeDeadline
  PROVE  IInv'
<1> USE DEF IInv, TypeOK, Draining, Closing, Disposing, Ending, Active, Registered, Open, Settled,
        closeVars, disposeVars
<1>1. CASE AwaitAuthRefresh
  BY <1>1 DEF AwaitAuthRefresh, DisposeAt
<1>2. CASE AwaitRefreshes
  BY <1>2 DEF AwaitRefreshes, DisposeAt
<1>3. CASE AwaitHooks
  BY <1>3 DEF AwaitHooks, HooksSettled, DisposeAt
<1>4. CASE DisposeAll
  BY <1>4 DEF DisposeAll, Disposes, DisposeAt
<1>5. CASE PluginsAbandoned
  BY <1>5 DEF PluginsAbandoned, DisposeAt
<1>6. CASE PluginsDispose
  BY <1>6 DEF PluginsDispose, DisposeAt
<1>7. CASE Background
  BY <1>7, BackgroundOnlyEnds
<1>8. CASE StartRefresh
  BY <1>8 DEF StartRefresh
<1>9. CASE DisposeSettles
  BY <1>9 DEF DisposeSettles, ExitCode
<1>10. CASE DisposeDeadline
  BY <1>10 DEF DisposeDeadline, DeadlineRuns, ExitCode
<1> QED
  BY <1>1, <1>2, <1>3, <1>4, <1>5, <1>6, <1>7, <1>8, <1>9, <1>10 DEF Disposal

(* The log is closed, or the process is ended without it.                  *)
LEMMA LoggingSteps == ASSUME IInv, LoggingSettles \/ LoggingDeadline PROVE IInv'
<1>1. PICK failed \in BOOLEAN, late \in BOOLEAN : CloseLogging(failed, late)
  BY DEF LoggingSettles, LoggingDeadline
<1> QED
  BY <1>1 DEF IInv, TypeOK, Draining, Closing, Disposing, Ending, Active, Registered, Open, Settled,
    closeVars, disposeVars, CloseLogging, ExitCode

(* Every step keeps the invariant.                                         *)
THEOREM Preserved == IInv /\ [Next]_vars => IInv'
<1> SUFFICES ASSUME IInv, [Next]_vars PROVE IInv'
  OBVIOUS
<1>1. CASE UNCHANGED vars
  BY <1>1 DEF vars, closeVars, disposeVars, IInv, TypeOK, Draining, Closing, Disposing, Ending,
    Active, Registered, Open, Settled
<1>2. CASE Next
  BY <1>2, RequestSteps, CloseSteps, DisposalSteps, LoggingSteps DEF Next, Timer, Controller
<1> QED
  BY <1>1, <1>2

(* It holds in every state of a shutdown.                                  *)
THEOREM Invariance == Spec => []IInv
BY Initially, Preserved, PTL DEF Spec

-----------------------------------------------------------------------------
(* The plugins are disposed when no request is left, also none whose       *)
(* client has gone, unless the server could not be closed; and never under *)
(* a hook, the statuses' refresh or, after a close that succeeded, a token *)
(* refresh.                                                                *)
THEOREM StopIsInOrder == Spec => []StopsInOrder
<1>1. IInv => PluginsOutliveRequests
  BY DEF IInv, Draining, Closing, PluginsOutliveRequests
<1>2. IInv => DisposedAtRest
  BY DEF IInv, Disposing, DisposedAtRest
<1>3. IInv => StopsInOrder
  BY <1>1, <1>2 DEF IInv, StopsInOrder
<1> QED
  BY <1>3, Invariance, PTL

(* A process that reports success has closed, drained and disposed all.    *)
THEOREM ReportsTruth == Spec => []EndsWell
<1>1. IInv => EndsWell
  BY DEF IInv, TypeOK, Draining, Closing, Ending, EndsWell, Settled
<1> QED
  BY <1>1, Invariance, PTL

(* The disposal of the plugins does not begin after its deadline.          *)
THEOREM DeadlineIsFinal == Spec => NoLateDisposal
<1>1. ASSUME IInv, [Next]_vars, dispose' = "plugins", dispose # "plugins" PROVE phase = "disposing"
  <2>1. CASE DisposeAll
    BY <2>1, <1>1 DEF DisposeAll, Disposes, DisposeAt, IInv, Disposing
  <2>2. CASE ~DisposeAll
    BY <2>2, <1>1 DEF Next, vars, closeVars, disposeVars, Connect, Register, Release, Disconnect,
      Moves, NotRequests, StartRefresh, RequestShutdown, RepeatShutdown, Timer, GraceExpires,
      ForceExpires, DisposeDeadline, LoggingDeadline, Controller, ServerClosed, GraceSettles,
      ForceSettles, CloseEnds, DisposeSettles, Disposal, AwaitAuthRefresh, AwaitRefreshes,
      AwaitHooks, PluginsAbandoned, PluginsDispose, DisposeAt, Background, LoggingSettles,
      CloseLogging
  <2> QED
    BY <2>1, <2>2
<1>2. IInv /\ [Next]_vars => [dispose' = "plugins" /\ dispose # "plugins" => phase = "disposing"]_vars
  BY <1>1
<1> QED
  BY <1>2, Invariance, PTL DEF Spec, NoLateDisposal

-----------------------------------------------------------------------------
(* The start (ServerStart).                                                *)

CallStatuses == {"no", "running", "done", "failed"}

EachOnce(plugins) == \A i, j \in DOMAIN plugins : plugins[i] = plugins[j] => i = j

IsLoaded(p) == \E i \in DOMAIN order : order[i] = p

Ran(p, h) == call[p][h] \in {"done", "failed"}

Uncalled(h) == \A p \in Plugins : call[p][h] = "no"

(* Of the registry: what is called is loaded, and has settled where it has *)
(* to.  The disposal goes from the last plugin to the first.               *)
RegistryTypes ==
  /\ order \in Seq(Plugins) /\ EachOnce(order)
  /\ DOMAIN hooks = Plugins
  /\ call \in [Plugins -> [Start!Hooks -> CallStatuses]]
  /\ state \in {"none", "active", "disposing", "disposed"}
  /\ disposal.at \in 0..Len(order) /\ DOMAIN disposal = {"at", "aborted", "errors"}
  /\ disposal.aborted \in BOOLEAN

OnlyLoadedHaveHooks == \A p \in Plugins : "dispose" \in hooks[p] => IsLoaded(p)

LastToFirst ==
  /\ state \in {"none", "active"} => Uncalled("dispose")
  /\ state \in {"disposing", "disposed"} =>
       \A i \in DOMAIN order :
         /\ i < disposal.at => call[order[i]]["dispose"] = "no"
         /\ i > disposal.at /\ "dispose" \in hooks[order[i]] => Ran(order[i], "dispose")
  /\ \A p \in Plugins : call[p]["dispose"] # "no" => IsLoaded(p)
  /\ state = "disposed" /\ ~disposal.aborted => disposal.at = 0

HooksInTurn ==
  /\ \A p, q \in Plugins : call[p]["beforeServerStart"] = "running" =>
       /\ call[q]["beforeServerStart"] # "failed"
       /\ call[q]["beforeServerStart"] = "running" => p = q
  /\ \A p \in Plugins : ~Start!Available(p) =>
       call[p]["beforeServerStart"] = "no" /\ call[p]["afterServerStart"] = "no"
  /\ ~Uncalled("dispose") => ~Start!AnyRunning("afterServerStart")

(* Where a start and a stop are, and what has been called by then.         *)
Beginning == {"init", "tokens", "before", "providers", "listen"}

AtStep ==
  /\ state = "none" => step \in {"load", "closing log", "ended"} /\ order = <<>>
  /\ step = "load" => state = "none" /\ Uncalled("init")
  /\ state = "active" <=> step \in Beginning \cup {"serving", "statuses", "hooks"}
  /\ state = "disposing" =>
       step \in {"cleaning up", "stopping", "closing log in time", "exited"}
  /\ step \in {"closing log", "ended"} => state \in {"none", "disposed"} /\ ~disposal.aborted
  /\ step \in Beginning \cup {"load", "serving", "cleaning up"} => ~disposal.aborted
  /\ step \in {"closing log in time", "exited"} => disposal.aborted
  /\ step \in {"load", "init", "tokens"} => Uncalled("beforeServerStart")
  /\ step \in Beginning \cup {"load"} => Uncalled("afterServerStart")
  /\ step # "init" => Start!InitSettled
  /\ step # "before" => ~Start!AnyRunning("beforeServerStart")
  /\ Start!AnyRunning("afterServerStart") =>
       step \in {"serving", "statuses", "hooks"} \/ disposal.aborted
  /\ step \in {"closing log", "closing log in time"} => startExitCode = 1

StartInv == RegistryTypes /\ OnlyLoadedHaveHooks /\ LastToFirst /\ HooksInTurn /\ AtStep

(* The statuses are told when the refresh of each has ended, and a shutdown*)
(* may have cut one off only if the refresh is aborted.                    *)
StatusInv ==
  /\ refresh \in {"no", "running", "ended"}
  /\ DOMAIN status = Providers
  /\ \A v \in Providers :
       /\ status[v] # "no" => v \in oauth
       /\ status[v] = "cut off" => refreshAborted
       /\ step \in Beginning \cup {"load"} => status[v] = "no"
       /\ refresh = "ended" => status[v] # "needs_refresh"
       /\ refresh # "ended" => authStatuses[v] = "no"
       /\ authStatuses[v] \in {"no", status[v]}
  /\ step \in Beginning \cup {"load"} => refresh = "no"

-----------------------------------------------------------------------------
(* A plugin that is configured twice is loaded once.                       *)
LEMMA LoadedOnce ==
  ASSUME NEW plugins \in Seq(Plugins)
  PROVE  /\ Start!AllResolved(plugins) \in Seq(Plugins)
         /\ EachOnce(Start!AllResolved(plugins))
<1> DEFINE V == {s \in Seq(Plugins) : EachOnce(s)}
           n == Len(plugins)
           Step(i, s) == IF plugins[i] \in Start!ToSet(s) THEN s ELSE Append(s, plugins[i])
           steps == [i \in 1..n |-> [s \in V |-> Step(i, s)]]
           Body(g) == [i \in 0..n |-> IF i = 0 THEN <<>>
                                      ELSE IF plugins[i] \in Start!ToSet(g[i - 1]) THEN g[i - 1]
                                      ELSE Append(g[i - 1], plugins[i])]
           resolved == CHOOSE g : g = Body(g)
<1>1. n \in Nat /\ \A i \in 1..n : plugins[i] \in Plugins
  OBVIOUS
<1>2. <<>> \in V
  BY DEF EachOnce
<1>3. ASSUME NEW i \in 1..n, NEW s \in V PROVE Step(i, s) \in V
  <2>1. CASE plugins[i] \in Start!ToSet(s)
    BY <2>1
  <2>2. CASE plugins[i] \notin Start!ToSet(s)
    <3> DEFINE t == Append(s, plugins[i])
    <3>1. s \in Seq(Plugins) /\ EachOnce(s) /\ plugins[i] \in Plugins
      BY <1>1
    <3>2. \A j \in DOMAIN s : s[j] # plugins[i]
      BY <2>2 DEF Start!ToSet
    <3>3. /\ t \in Seq(Plugins) /\ DOMAIN t = 1..(Len(s) + 1) /\ t[Len(s) + 1] = plugins[i]
          /\ \A j \in DOMAIN s : t[j] = s[j]
          /\ DOMAIN s = 1..Len(s) /\ Len(s) \in Nat
      BY <3>1
    <3>4. EachOnce(t)
      BY <3>1, <3>2, <3>3 DEF EachOnce
    <3> QED
      BY <2>2, <3>3, <3>4
  <2> QED
    BY <2>1, <2>2
<1> HIDE DEF Step
<1>4. steps \in [1..n -> [V -> V]]
  BY <1>3
<1> HIDE DEF V, n
<1>5. PICK f : Recurses(f, n, V, <<>>, steps)
  <2> HIDE DEF steps
  <2> QED
    BY <1>1, <1>2, <1>4, Recursion
<1>6. \A i \in 1..n : f[i - 1] \in V /\ f[i] = Step(i, f[i - 1])
  <2> TAKE i \in 1..n
  <2>1. i - 1 \in 0..n
    BY <1>1
  <2>2. f[i - 1] \in V /\ f[i] = steps[i][f[i - 1]]
    BY <1>5, <2>1 DEF Recurses
  <2> QED
    BY <2>2
<1>7. f = Body(f)
  <2>1. \A i \in 0..n : i # 0 => i \in 1..n
    BY <1>1
  <2>2. \A i \in 0..n : f[i] = IF i = 0 THEN <<>> ELSE Step(i, f[i - 1])
    BY <1>5, <1>6, <2>1 DEF Recurses
  <2>3. f = [i \in 0..n |-> IF i = 0 THEN <<>> ELSE Step(i, f[i - 1])]
    BY <1>5, <2>2 DEF Recurses
  <2> QED
    BY <2>3 DEF Step
<1>8. resolved = Body(resolved)
  <2> HIDE DEF Body
  <2> QED
    BY <1>7
<1>9. Start!AllResolved(plugins) = resolved[n]
  BY DEF Start!AllResolved, n
<1> HIDE DEF resolved
<1>10. \A i \in 0..n : resolved[i] \in V
  <2>1. resolved[0] = <<>> /\ \A i \in 1..n : resolved[i] = Step(i, resolved[i - 1])
    <3>1. 0 \in 0..n /\ \A i \in 1..n : i \in 0..n /\ i # 0
      BY <1>1
    <3> QED
      BY <1>8, <3>1 DEF Step
  <2> QED
    BY <1>1, <1>2, <1>3, <2>1, RecursionStays
<1>11. resolved[n] \in V
  BY <1>1, <1>10
<1> QED
  BY <1>9, <1>11 DEF V

-----------------------------------------------------------------------------
LEMMA StartInits == Start!Init => StartInv
<1> SUFFICES ASSUME Start!Init PROVE StartInv
  OBVIOUS
<1>1. /\ order = <<>> /\ hooks = [p \in Plugins |-> {}]
      /\ call = [p \in Plugins |-> [h \in Start!Hooks |-> "no"]]
      /\ state = "none" /\ step = "load"
      /\ disposal = [at |-> 0, aborted |-> FALSE, errors |-> FALSE]
  BY DEF Start!Init, Start!RegistryInit
<1>2. \A p \in Plugins, h \in Start!Hooks : call[p][h] = "no"
  BY <1>1
<1>3. {"init", "beforeServerStart", "afterServerStart", "dispose"} = Start!Hooks
  BY DEF Start!Hooks
<1>4. \A h \in Start!Hooks : Uncalled(h) /\ ~Start!AnyRunning(h)
  BY <1>2 DEF Uncalled, Start!AnyRunning
<1>5. RegistryTypes
  <2>1. call \in [Plugins -> [Start!Hooks -> CallStatuses]]
    BY <1>1 DEF CallStatuses
  <2> QED
    BY <1>1, <2>1 DEF RegistryTypes, EachOnce
<1>6. OnlyLoadedHaveHooks /\ LastToFirst
  BY <1>1, <1>3, <1>4 DEF OnlyLoadedHaveHooks, LastToFirst, Uncalled
<1>7. HooksInTurn
  BY <1>2, <1>3, <1>4 DEF HooksInTurn, Start!Available
<1>8. AtStep
  BY <1>1, <1>2, <1>3, <1>4 DEF AtStep, Beginning, Start!InitSettled
<1> QED
  BY <1>5, <1>6, <1>7, <1>8 DEF StartInv

(* What a call of hooks does, and the end of one.                          *)
LEMMA CalledFacts ==
  ASSUME RegistryTypes, NEW plugins \in SUBSET Plugins, NEW h \in Start!Hooks,
         Start!Called(plugins, h)
  PROVE  /\ call' \in [Plugins -> [Start!Hooks -> CallStatuses]]
         /\ \A p \in Plugins : p \in plugins => call'[p][h] = "running"
         /\ \A p \in Plugins, k \in Start!Hooks : p \notin plugins \/ k # h => call'[p][k] = call[p][k]
<1>1. "running" \in CallStatuses
  BY DEF CallStatuses
<1>2. call \in [Plugins -> [Start!Hooks -> CallStatuses]]
  BY DEF RegistryTypes
<1>3. call' = [p \in Plugins |->
                IF p \in plugins THEN [call[p] EXCEPT ![h] = "running"] ELSE call[p]]
  BY DEF Start!Called
<1> QED
  BY <1>1, <1>2, <1>3

LEMMA SettledFacts ==
  ASSUME RegistryTypes, NEW p \in Plugins, NEW h \in Start!Hooks, Start!HookSettles(p, h)
  PROVE  /\ call' \in [Plugins -> [Start!Hooks -> CallStatuses]]
         /\ call[p][h] = "running" /\ Ran(p, h)'
         /\ \A q \in Plugins, k \in Start!Hooks : q # p \/ k # h => call'[q][k] = call[q][k]
<1>1. {"done", "failed"} \subseteq CallStatuses
  BY DEF CallStatuses
<1>2. call \in [Plugins -> [Start!Hooks -> CallStatuses]]
  BY DEF RegistryTypes
<1>3. PICK outcome \in {"done", "failed"} : call' = [call EXCEPT ![p] = [call[p] EXCEPT ![h] = outcome]]
  BY DEF Start!HookSettles
<1>4. call[p][h] = "running"
  BY DEF Start!HookSettles
<1>5. call'[p][h] = outcome /\ outcome \in CallStatuses
  BY <1>1, <1>2, <1>3
<1> QED
  BY <1>2, <1>3, <1>4, <1>5 DEF Ran

(* A step that leaves the registry alone leaves its part of the invariant. *)
LEMMA RegistryKept ==
  ASSUME StartInv, UNCHANGED <<order, hooks, call, state, disposal>>
  PROVE  /\ RegistryTypes' /\ OnlyLoadedHaveHooks' /\ LastToFirst' /\ HooksInTurn'
         /\ Start!InitSettled' = Start!InitSettled
         /\ \A h \in Start!Hooks : /\ Uncalled(h)' = Uncalled(h)
                                   /\ Start!AnyRunning(h)' = Start!AnyRunning(h)
<1>2. RegistryTypes'
  BY DEF StartInv, RegistryTypes, EachOnce
<1>3. OnlyLoadedHaveHooks' /\ LastToFirst'
  BY DEF StartInv, OnlyLoadedHaveHooks, LastToFirst, Uncalled, IsLoaded, Ran
<1>4. HooksInTurn'
  BY DEF StartInv, HooksInTurn, Uncalled, Start!Available, Start!AnyRunning
<1> QED
  BY <1>2, <1>3, <1>4 DEF Uncalled, Start!InitSettled, Start!AnyRunning

(* The steps of the start and the stop that do not touch the registry.     *)
LEMMA OwnSteps ==
  ASSUME StartInv, UNCHANGED <<order, hooks, call, state, disposal>>,
         \/ Start!Tokens
         \/ step = "load" /\ Start!ClosesLog("closing log")
         \/ step = "tokens" /\ Start!Then("before")
         \/ step = "before" /\ Start!BeforeEnded /\ Start!Then("providers")
         \/ step = "providers" /\ Start!Then("listen")
         \/ Start!RefreshEnds
         \/ Start!Stop
         \/ Start!AwaitStatuses
         \/ Start!CleanedUp
         \/ Start!LogClosed
         \/ Start!Stopped
         \/ \E v \in Providers : Start!StatusResolved(v)
         \/ UNCHANGED <<step, startExitCode>>
  PROVE  StartInv'
<1>1. AtStep /\ RegistryTypes /\ LastToFirst
  BY DEF StartInv
<1>2. "init" \in Start!Hooks /\ "beforeServerStart" \in Start!Hooks /\ "afterServerStart" \in Start!Hooks
  BY DEF Start!Hooks
<1>3. state \in {"none", "active", "disposing", "disposed"} /\ disposal.aborted \in BOOLEAN
  BY <1>1 DEF RegistryTypes
<1> DEFINE Same == /\ UNCHANGED <<order, state, disposal>>
                   /\ Start!InitSettled' = Start!InitSettled
                   /\ Uncalled("init")' = Uncalled("init")
                   /\ Uncalled("beforeServerStart")' = Uncalled("beforeServerStart")
                   /\ Uncalled("afterServerStart")' = Uncalled("afterServerStart")
                   /\ Start!AnyRunning("beforeServerStart")' = Start!AnyRunning("beforeServerStart")
                   /\ Start!AnyRunning("afterServerStart")' = Start!AnyRunning("afterServerStart")
<1>4. Same
  BY <1>2, RegistryKept
<1>5. AtStep'
  <2>1. CASE Start!Tokens
    BY <1>1, <1>4, <2>1 DEF Start!Tokens, Start!Then, AtStep, Beginning
  <2>2. CASE step = "load" /\ Start!ClosesLog("closing log")
    BY <1>1, <1>4, <2>2 DEF Start!ClosesLog, AtStep, Beginning
  <2>3. CASE step = "tokens" /\ Start!Then("before")
    BY <1>1, <1>4, <2>3 DEF Start!Then, AtStep, Beginning
  <2>4. CASE step = "providers" /\ Start!Then("listen")
    BY <1>1, <1>4, <2>4 DEF Start!Then, AtStep, Beginning
  <2>5. CASE Start!RefreshEnds
    BY <1>1, <1>4, <2>5 DEF Start!RefreshEnds, AtStep, Beginning
  <2>6. CASE Start!Stop
    BY <1>1, <1>4, <2>6 DEF Start!Stop, AtStep, Beginning
  <2>7. CASE Start!AwaitStatuses
    BY <1>1, <1>4, <2>7 DEF Start!AwaitStatuses, Start!Then, AtStep, Beginning
  <2>8. CASE Start!CleanedUp
    BY <1>1, <1>4, <2>8 DEF Start!CleanedUp, Start!ClosesLog, AtStep, Beginning
  <2>9. CASE Start!LogClosed
    BY <1>1, <1>3, <1>4, <2>9 DEF Start!LogClosed, Start!Then, AtStep, Beginning
  <2>10. CASE Start!Stopped
    BY <1>1, <1>3, <1>4, <2>10 DEF Start!Stopped, Start!Then, AtStep, Beginning
  <2>11. CASE \E v \in Providers : Start!StatusResolved(v)
    BY <1>1, <1>4, <2>11 DEF Start!StatusResolved, AtStep, Beginning
  <2>12. CASE UNCHANGED <<step, startExitCode>>
    BY <1>1, <1>4, <2>12 DEF AtStep, Beginning
  <2>13. CASE step = "before" /\ Start!BeforeEnded /\ Start!Then("providers")
    BY <1>1, <1>4, <2>13 DEF Start!BeforeEnded, Start!Then, AtStep, Beginning
  <2> QED
    BY <2>1, <2>2, <2>3, <2>4, <2>5, <2>6, <2>7, <2>8, <2>9, <2>10, <2>11, <2>12, <2>13
<1> QED
  BY <1>5, RegistryKept DEF StartInv

(* A hook that has settled is not running.                                 *)
LEMMA SettlingKeeps ==
  ASSUME StartInv, NEW p \in Plugins, NEW h \in Start!Hooks,
         Start!HookSettles(p, h), UNCHANGED Start!own
  PROVE  StartInv'
<1>1. /\ RegistryTypes /\ OnlyLoadedHaveHooks /\ LastToFirst /\ HooksInTurn /\ AtStep
  BY DEF StartInv
<1>2. /\ call' \in [Plugins -> [Start!Hooks -> CallStatuses]]
      /\ call[p][h] = "running" /\ Ran(p, h)'
      /\ \A q \in Plugins, k \in Start!Hooks : q # p \/ k # h => call'[q][k] = call[q][k]
  BY <1>1, SettledFacts
<1>3. UNCHANGED <<order, hooks, state, disposal, step, startExitCode>>
  BY DEF Start!HookSettles, Start!Others, Start!own
<1>4. /\ "init" \in Start!Hooks /\ "beforeServerStart" \in Start!Hooks
      /\ "afterServerStart" \in Start!Hooks /\ "dispose" \in Start!Hooks
  BY DEF Start!Hooks
<1>5. call'[p][h] \in {"done", "failed"}
  BY <1>2 DEF Ran
<1>6. \A k \in Start!Hooks : /\ Uncalled(k)' <=> Uncalled(k)
                             /\ Start!AnyRunning(k)' => Start!AnyRunning(k)
  BY <1>2, <1>5 DEF Uncalled, Start!AnyRunning
<1>7. Start!InitSettled => Start!InitSettled'
  BY <1>2, <1>4, <1>5 DEF Start!InitSettled
<1>8. RegistryTypes'
  BY <1>1, <1>2, <1>3 DEF RegistryTypes, EachOnce
<1>9. OnlyLoadedHaveHooks'
  BY <1>1, <1>3 DEF OnlyLoadedHaveHooks, IsLoaded
<1>10. LastToFirst'
  <2>1. \A i \in DOMAIN order : order[i] \in Plugins
    BY <1>1 DEF RegistryTypes
  <2>2. \A q \in Plugins : /\ call'[q]["dispose"] = "no" <=> call[q]["dispose"] = "no"
                           /\ Ran(q, "dispose") => Ran(q, "dispose")'
    BY <1>2, <1>4, <1>5 DEF Ran
  <2> QED
    BY <1>1, <1>3, <1>4, <1>6, <2>1, <2>2 DEF LastToFirst, IsLoaded
<1>11. HooksInTurn'
  <2>1. ASSUME NEW q \in Plugins, ~Start!Available(q)'
        PROVE  call'[q]["beforeServerStart"] = "no" /\ call'[q]["afterServerStart"] = "no"
    <3>1. CASE call[q]["init"] = "failed"
      BY <1>1, <1>2, <1>4, <3>1 DEF HooksInTurn, Start!Available
    <3>2. CASE call[q]["init"] # "failed"
      <4>1. q = p /\ h = "init" /\ ~Start!InitSettled
        BY <1>2, <1>4, <2>1, <3>2 DEF Start!Available, Start!InitSettled
      <4>2. Uncalled("beforeServerStart") /\ Uncalled("afterServerStart")
        BY <1>1, <4>1 DEF AtStep, Beginning
      <4> QED
        BY <1>4, <1>6, <4>2 DEF Uncalled
    <3> QED
      BY <3>1, <3>2
  <2>2. ASSUME NEW q \in Plugins, NEW r \in Plugins, call'[q]["beforeServerStart"] = "running"
        PROVE  /\ call'[r]["beforeServerStart"] # "failed"
               /\ call'[r]["beforeServerStart"] = "running" => q = r
    <3>1. call[q]["beforeServerStart"] = "running" /\ (q # p \/ h # "beforeServerStart")
      BY <1>2, <1>4, <1>5, <2>2
    <3>2. h # "beforeServerStart"
      BY <1>1, <1>2, <3>1 DEF HooksInTurn
    <3> QED
      BY <1>1, <1>2, <1>4, <3>1, <3>2 DEF HooksInTurn
  <2> QED
    BY <1>1, <1>4, <1>6, <2>1, <2>2 DEF HooksInTurn
<1>12. AtStep'
  BY <1>1, <1>3, <1>4, <1>6, <1>7 DEF AtStep, Beginning
<1> QED
  BY <1>8, <1>9, <1>10, <1>11, <1>12 DEF StartInv

(* A beforeServerStart hook is called when none is running.                *)
LEMMA BeforeKeeps == ASSUME StartInv, Start!Before PROVE StartInv'
<1>1. /\ RegistryTypes /\ OnlyLoadedHaveHooks /\ LastToFirst /\ HooksInTurn /\ AtStep
  BY DEF StartInv
<1>2. /\ "init" \in Start!Hooks /\ "beforeServerStart" \in Start!Hooks
      /\ "afterServerStart" \in Start!Hooks /\ "dispose" \in Start!Hooks
  BY DEF Start!Hooks
<1>3. PICK i \in DOMAIN order : /\ order[i] \in Start!Callable("beforeServerStart")
                                /\ Start!Called({order[i]}, "beforeServerStart")
  BY DEF Start!Before, Start!CallBefore
<1>4. /\ step = "before" /\ UNCHANGED <<order, hooks, state, disposal, step, startExitCode>>
      /\ ~Start!AnyRunning("beforeServerStart") /\ ~Start!AnyFailed("beforeServerStart")
  BY DEF Start!Before, Start!CallBefore, Start!Others, Start!own
<1> DEFINE p == order[i]
<1>5. p \in Plugins /\ Start!Available(p)
  BY <1>1, <1>3 DEF RegistryTypes, Start!Callable
<1> HIDE DEF p
<1>6. /\ call' \in [Plugins -> [Start!Hooks -> CallStatuses]]
      /\ call'[p]["beforeServerStart"] = "running"
      /\ \A q \in Plugins, k \in Start!Hooks :
           q # p \/ k # "beforeServerStart" => call'[q][k] = call[q][k]
  <2>1. {p} \in SUBSET Plugins /\ Start!Called({p}, "beforeServerStart")
    BY <1>3, <1>5 DEF p
  <2> DEFINE called == {p}
  <2>2. p \in called /\ \A q \in Plugins : q # p => q \notin called
    OBVIOUS
  <2>3. called \in SUBSET Plugins /\ Start!Called(called, "beforeServerStart")
    BY <2>1
  <2> HIDE DEF called
  <2> QED
    BY <1>1, <1>2, <1>5, <2>2, <2>3, CalledFacts
<1>7. \A q \in Plugins : /\ call'[q]["init"] = call[q]["init"]
                         /\ call'[q]["afterServerStart"] = call[q]["afterServerStart"]
                         /\ call'[q]["dispose"] = call[q]["dispose"]
                         /\ q # p => call'[q]["beforeServerStart"] = call[q]["beforeServerStart"]
  BY <1>2, <1>6
<1>8. RegistryTypes' /\ OnlyLoadedHaveHooks'
  BY <1>1, <1>4, <1>6 DEF RegistryTypes, EachOnce, OnlyLoadedHaveHooks, IsLoaded
<1>9. LastToFirst'
  <2>1. \A j \in DOMAIN order : order[j] \in Plugins
    BY <1>1 DEF RegistryTypes
  <2> QED
    BY <1>1, <1>4, <1>7, <2>1 DEF LastToFirst, Uncalled, IsLoaded, Ran
<1>10. HooksInTurn'
  BY <1>1, <1>4, <1>5, <1>7
     DEF HooksInTurn, Uncalled, Start!Available, Start!AnyRunning, Start!AnyFailed
<1>11. AtStep'
  BY <1>1, <1>4, <1>7 DEF AtStep, Beginning, Uncalled, Start!InitSettled, Start!AnyRunning
<1> QED
  BY <1>8, <1>9, <1>10, <1>11 DEF StartInv

(* The afterServerStart hooks are called when the server listens.          *)
LEMMA ServeKeeps == ASSUME StartInv, Start!Serve PROVE StartInv'
<1>1. /\ RegistryTypes /\ OnlyLoadedHaveHooks /\ LastToFirst /\ HooksInTurn /\ AtStep
  BY DEF StartInv
<1>2. /\ "init" \in Start!Hooks /\ "beforeServerStart" \in Start!Hooks
      /\ "afterServerStart" \in Start!Hooks /\ "dispose" \in Start!Hooks
  BY DEF Start!Hooks
<1> DEFINE called == Start!Callable("afterServerStart")
<1>3. /\ step = "listen" /\ step' = "serving"
      /\ UNCHANGED <<order, hooks, state, disposal, startExitCode>>
      /\ Start!Called(called, "afterServerStart")
  BY DEF Start!Serve, Start!CallAfter, Start!Others
<1>4. called \in SUBSET Plugins /\ \A p \in called : Start!Available(p)
  BY <1>1 DEF RegistryTypes, Start!Callable, Start!ToSet
<1> HIDE DEF called
<1>5. /\ call' \in [Plugins -> [Start!Hooks -> CallStatuses]]
      /\ \A p \in Plugins, k \in Start!Hooks :
           p \notin called \/ k # "afterServerStart" => call'[p][k] = call[p][k]
  BY <1>1, <1>2, <1>3, <1>4, CalledFacts
<1>6. \A p \in Plugins :
        /\ call'[p]["init"] = call[p]["init"]
        /\ call'[p]["beforeServerStart"] = call[p]["beforeServerStart"]
        /\ call'[p]["dispose"] = call[p]["dispose"]
        /\ p \notin called => call'[p]["afterServerStart"] = call[p]["afterServerStart"]
  BY <1>2, <1>5
<1>7. state = "active"
  BY <1>1, <1>3 DEF AtStep, Beginning
<1>8. RegistryTypes' /\ OnlyLoadedHaveHooks'
  BY <1>1, <1>3, <1>5 DEF RegistryTypes, EachOnce, OnlyLoadedHaveHooks, IsLoaded
<1>9. LastToFirst'
  BY <1>1, <1>3, <1>6, <1>7 DEF LastToFirst, Uncalled, IsLoaded
<1>10. HooksInTurn'
  <2>1. Uncalled("dispose")'
    BY <1>1, <1>6, <1>7 DEF LastToFirst, Uncalled
  <2> QED
    BY <1>1, <1>4, <1>6, <2>1 DEF HooksInTurn, Start!Available
<1>11. AtStep'
  BY <1>1, <1>3, <1>6, <1>7 DEF AtStep, Beginning, Start!InitSettled, Start!AnyRunning
<1> QED
  BY <1>8, <1>9, <1>10, <1>11 DEF StartInv

(* The disposal begins with the last plugin.                               *)
DisposalStarts ==
  /\ Start!StartDisposal
  /\ \/ step \in {"tokens", "providers", "listen"} /\ Start!Then("cleaning up")
     \/ step = "before" /\ Start!AnyFailed("beforeServerStart") /\ Start!Then("cleaning up")
     \/ step = "hooks" /\ (disposal.aborted \/ ~Start!AnyRunning("afterServerStart"))
          /\ Start!Then("stopping")

LEMMA DisposalBegins == ASSUME StartInv, DisposalStarts PROVE StartInv'
<1>1. /\ RegistryTypes /\ OnlyLoadedHaveHooks /\ LastToFirst /\ HooksInTurn /\ AtStep
  BY DEF StartInv
<1>2. /\ state = "active" /\ state' = "disposing" /\ UNCHANGED <<order, hooks, call>>
      /\ disposal'.at = Len(order) /\ disposal'.aborted = disposal.aborted
      /\ DOMAIN disposal' = {"at", "aborted", "errors"}
  BY <1>1 DEF DisposalStarts, Start!StartDisposal, RegistryTypes
<1>7. order \in Seq(Plugins)
  BY <1>1 DEF RegistryTypes
<1>3. RegistryTypes' /\ OnlyLoadedHaveHooks'
  <2>1. Len(order) \in 0..Len(order)
    BY <1>7
  <2>2. RegistryTypes'
    BY <1>1, <1>2, <2>1 DEF RegistryTypes, EachOnce
  <2> QED
    BY <1>1, <1>2, <2>2 DEF OnlyLoadedHaveHooks, IsLoaded
<1>4. LastToFirst'
  <2>1. Len(order) \in Nat /\ DOMAIN order = 1..Len(order)
    BY <1>7
  <2>3. \A i \in DOMAIN order : order[i] \in Plugins
    BY <1>7
  <2>2. \A i \in DOMAIN order : ~(i > Len(order)) /\ call[order[i]]["dispose"] = "no"
    BY <1>1, <1>2, <2>1, <2>3 DEF LastToFirst, Uncalled
  <2> QED
    BY <1>1, <1>2, <2>2 DEF LastToFirst, Uncalled, IsLoaded
<1>5. HooksInTurn'
  BY <1>1, <1>2 DEF HooksInTurn, Uncalled, Start!Available, Start!AnyRunning
<1>6. /\ Start!InitSettled' = Start!InitSettled
      /\ Start!AnyRunning("beforeServerStart")' = Start!AnyRunning("beforeServerStart")
      /\ Start!AnyRunning("afterServerStart")' = Start!AnyRunning("afterServerStart")
      /\ step = "before" => Start!AnyFailed("beforeServerStart")
      /\ Start!AnyFailed("beforeServerStart") => ~Start!AnyRunning("beforeServerStart")
      /\ Uncalled("afterServerStart") => ~Start!AnyRunning("afterServerStart")
  BY <1>1, <1>2
     DEF Start!InitSettled, Start!AnyRunning, Start!AnyFailed, HooksInTurn, Start!Then, Uncalled, DisposalStarts
<1>8. AtStep'
  <2>1. CASE step' = "cleaning up" /\ step \in {"tokens", "before", "providers", "listen"}
    BY <1>1, <1>2, <1>6, <2>1 DEF AtStep, Beginning
  <2>2. CASE step = "hooks" /\ step' = "stopping"
    BY <1>1, <1>2, <1>6, <2>2 DEF AtStep, Beginning, DisposalStarts, Start!Then
  <2> QED
    BY <2>1, <2>2 DEF DisposalStarts, Start!Then, Beginning
<1> QED
  BY <1>3, <1>4, <1>5, <1>8 DEF StartInv

(* The plugin at hand is disposed, or passed when its disposal has ended.  *)
LEMMA DisposingKeeps ==
  ASSUME StartInv, Start!DisposeNext, UNCHANGED Start!own
  PROVE  StartInv'
<1>1. /\ RegistryTypes /\ OnlyLoadedHaveHooks /\ LastToFirst /\ HooksInTurn /\ AtStep
  BY DEF StartInv
<1>2. /\ "init" \in Start!Hooks /\ "beforeServerStart" \in Start!Hooks
      /\ "afterServerStart" \in Start!Hooks /\ "dispose" \in Start!Hooks
  BY DEF Start!Hooks
<1>3. /\ state = "disposing" /\ Start!InitSettled
      /\ UNCHANGED <<order, hooks, step, startExitCode>>
  BY DEF Start!DisposeNext, Start!EndDisposal, Start!Goes, Start!own
<1>4. /\ DOMAIN disposal = {"at", "aborted", "errors"} /\ disposal.at \in 0..Len(order)
      /\ order \in Seq(Plugins)
  BY <1>1 DEF RegistryTypes
<1>5. /\ step \in {"cleaning up", "stopping", "closing log in time", "exited"}
      /\ ~disposal.aborted => ~Start!AnyRunning("afterServerStart")
  BY <1>1, <1>3 DEF AtStep
<1>6. CASE UNCHANGED call /\ state' = "disposed"
           /\ disposal'.at = disposal.at /\ disposal'.aborted = disposal.aborted
           /\ DOMAIN disposal' = {"at", "aborted", "errors"}
           /\ (disposal.aborted \/ disposal.at = 0)
  <2>1. RegistryTypes' /\ OnlyLoadedHaveHooks'
    BY <1>1, <1>3, <1>6 DEF RegistryTypes, EachOnce, OnlyLoadedHaveHooks, IsLoaded
  <2>2. LastToFirst'
    BY <1>1, <1>3, <1>6 DEF LastToFirst, Uncalled, IsLoaded, Ran
  <2>3. HooksInTurn'
    BY <1>1, <1>6 DEF HooksInTurn, Uncalled, Start!Available, Start!AnyRunning
  <2>4. AtStep'
    BY <1>1, <1>3, <1>5, <1>6
       DEF AtStep, Beginning, Uncalled, Start!InitSettled, Start!AnyRunning
  <2> QED
    BY <2>1, <2>2, <2>3, <2>4 DEF StartInv
<1> DEFINE p == order[disposal.at]
<1>7. CASE /\ ~disposal.aborted /\ disposal.at # 0 /\ UNCHANGED <<state, disposal>>
           /\ "dispose" \in hooks[p] /\ call[p]["dispose"] = "no" /\ Start!Called({p}, "dispose")
  <2>1. disposal.at \in DOMAIN order
    BY <1>4, <1>7
  <2>2. p \in Plugins
    BY <1>4, <2>1
  <2>3. \A i \in DOMAIN order : order[i] = p => i = disposal.at
    BY <1>1, <2>1 DEF RegistryTypes, EachOnce
  <2>4. IsLoaded(p)
    BY <2>1 DEF IsLoaded
  <2> DEFINE called == {p}
  <2>5. p \in called /\ \A q \in Plugins : q # p => q \notin called
    OBVIOUS
  <2>6. called \in SUBSET Plugins /\ Start!Called(called, "dispose")
    BY <1>7, <2>2
  <2>7. /\ call[p]["dispose"] = "no" /\ UNCHANGED <<state, disposal>> /\ ~disposal.aborted
    BY <1>7
  <2> HIDE DEF p, called
  <2>8. /\ call' \in [Plugins -> [Start!Hooks -> CallStatuses]]
        /\ call'[p]["dispose"] = "running"
        /\ \A q \in Plugins, k \in Start!Hooks : q # p \/ k # "dispose" => call'[q][k] = call[q][k]
    BY <1>1, <1>2, <2>2, <2>5, <2>6, CalledFacts
  <2>9. \A q \in Plugins : /\ call'[q]["init"] = call[q]["init"]
                           /\ call'[q]["beforeServerStart"] = call[q]["beforeServerStart"]
                           /\ call'[q]["afterServerStart"] = call[q]["afterServerStart"]
                           /\ q # p => call'[q]["dispose"] = call[q]["dispose"]
    BY <1>2, <2>8
  <2>10. RegistryTypes' /\ OnlyLoadedHaveHooks'
    BY <1>1, <1>3, <2>7, <2>8 DEF RegistryTypes, EachOnce, OnlyLoadedHaveHooks, IsLoaded
  <2>11. LastToFirst'
    <3>1. \A i \in DOMAIN order : order[i] \in Plugins
      BY <1>4
    <3>2. ASSUME NEW i \in DOMAIN order, i # disposal.at
          PROVE  call'[order[i]]["dispose"] = call[order[i]]["dispose"]
      BY <2>3, <2>9, <3>1, <3>2
    <3>3. \A i \in DOMAIN order :
            /\ i < disposal.at => call'[order[i]]["dispose"] = "no"
            /\ i > disposal.at /\ "dispose" \in hooks[order[i]] =>
                 call'[order[i]]["dispose"] \in {"done", "failed"}
      BY <1>1, <1>3, <1>4, <3>2 DEF LastToFirst, Ran
    <3>4. \A q \in Plugins : call'[q]["dispose"] # "no" => IsLoaded(q)
      BY <1>1, <2>4, <2>9 DEF LastToFirst
    <3> QED
      BY <1>3, <2>7, <3>3, <3>4 DEF LastToFirst, Ran, IsLoaded
  <2>12. HooksInTurn'
    <3>1. ~Start!AnyRunning("afterServerStart")'
      BY <1>5, <2>7, <2>9 DEF Start!AnyRunning
    <3> QED
      BY <1>1, <2>9, <3>1 DEF HooksInTurn, Start!Available
  <2>13. AtStep'
    BY <1>1, <1>3, <1>5, <2>7, <2>9
       DEF AtStep, Beginning, Start!InitSettled, Start!AnyRunning
  <2> QED
    BY <2>10, <2>11, <2>12, <2>13 DEF StartInv
<1>8. CASE /\ ~disposal.aborted /\ disposal.at # 0 /\ UNCHANGED <<state, call>>
           /\ ~("dispose" \in hooks[p] /\ call[p]["dispose"] = "no")
           /\ call[p]["dispose"] # "running"
           /\ disposal'.at = disposal.at - 1 /\ disposal'.aborted = disposal.aborted
           /\ DOMAIN disposal' = {"at", "aborted", "errors"}
  <2>1. disposal.at \in DOMAIN order /\ disposal'.at \in 0..Len(order)
    BY <1>4, <1>8
  <2>2. p \in Plugins
    BY <1>4, <2>1
  <2>3. "dispose" \in hooks[p] => Ran(p, "dispose")
    <3>1. call[p]["dispose"] \in CallStatuses
      BY <1>1, <1>2, <2>2 DEF RegistryTypes
    <3> QED
      BY <1>8, <3>1 DEF Ran, CallStatuses
  <2>4. RegistryTypes' /\ OnlyLoadedHaveHooks'
    BY <1>1, <1>3, <1>8, <2>1 DEF RegistryTypes, EachOnce, OnlyLoadedHaveHooks, IsLoaded
  <2>5. LastToFirst'
    <3>1. \A i \in DOMAIN order : /\ i < disposal.at - 1 => i < disposal.at
                                  /\ i > disposal.at - 1 => i = disposal.at \/ i > disposal.at
      BY <1>4
    <3>2. \A i \in DOMAIN order :
            /\ i < disposal'.at => call[order[i]]["dispose"] = "no"
            /\ i > disposal'.at /\ "dispose" \in hooks[order[i]] => Ran(order[i], "dispose")
      BY <1>1, <1>3, <1>8, <2>3, <3>1 DEF LastToFirst
    <3> QED
      BY <1>1, <1>3, <1>8, <3>2 DEF LastToFirst, Uncalled, IsLoaded, Ran
  <2>6. HooksInTurn'
    BY <1>1, <1>8 DEF HooksInTurn, Uncalled, Start!Available, Start!AnyRunning
  <2>7. AtStep'
    BY <1>1, <1>3, <1>5, <1>8
       DEF AtStep, Beginning, Uncalled, Start!InitSettled, Start!AnyRunning
  <2> QED
    BY <2>4, <2>5, <2>6, <2>7 DEF StartInv
<1> QED
  BY <1>4, <1>6, <1>7, <1>8
     DEF Start!DisposeNext, Start!EndDisposal, Start!Goes, Start!Disposable

(* The deadline aborts the disposal, and goes on to close the log.         *)
LEMMA DeadlineKeeps == ASSUME StartInv, Start!Deadline PROVE StartInv'
<1>1. /\ RegistryTypes /\ OnlyLoadedHaveHooks /\ LastToFirst /\ HooksInTurn /\ AtStep
  BY DEF StartInv
<1>2. /\ UNCHANGED <<order, hooks, call, state>> /\ disposal'.at = disposal.at /\ disposal'.aborted
      /\ DOMAIN disposal' = {"at", "aborted", "errors"}
      /\ disposal'.aborted \in BOOLEAN
  BY <1>1 DEF Start!Deadline, Start!AbortDisposal, RegistryTypes
<1>3. RegistryTypes' /\ OnlyLoadedHaveHooks'
  BY <1>1, <1>2 DEF RegistryTypes, EachOnce, OnlyLoadedHaveHooks, IsLoaded
<1>4. LastToFirst' /\ HooksInTurn'
  BY <1>1, <1>2
     DEF LastToFirst, Uncalled, IsLoaded, Ran, HooksInTurn, Start!Available, Start!AnyRunning
<1>5. AtStep'
  <2>1. CASE step = "cleaning up" /\ state = "disposing" /\ Start!ClosesLog("closing log in time")
    BY <1>1, <1>2, <2>1
       DEF AtStep, Beginning, Start!ClosesLog, Uncalled, Start!InitSettled, Start!AnyRunning
  <2>2. CASE step \in {"statuses", "hooks", "stopping"} /\ UNCHANGED Start!own
    BY <1>1, <1>2, <2>2
       DEF AtStep, Beginning, Start!own, Uncalled, Start!InitSettled, Start!AnyRunning
  <2> QED
    BY <2>1, <2>2 DEF Start!Deadline
<1> QED
  BY <1>3, <1>4, <1>5 DEF StartInv

(* Loading the plugins calls all their init hooks.                         *)
LEMMA LoadKeeps == ASSUME StartInv, Start!Load PROVE StartInv'
<1>1. /\ RegistryTypes /\ OnlyLoadedHaveHooks /\ LastToFirst /\ HooksInTurn /\ AtStep
  BY DEF StartInv
<1>2. /\ "init" \in Start!Hooks /\ "beforeServerStart" \in Start!Hooks
      /\ "afterServerStart" \in Start!Hooks /\ "dispose" \in Start!Hooks
  BY DEF Start!Hooks
<1>3. /\ step = "load" /\ state = "none" /\ ~disposal.aborted
      /\ Uncalled("init") /\ Uncalled("beforeServerStart") /\ Uncalled("afterServerStart")
      /\ Uncalled("dispose")
  BY <1>1 DEF Start!Load, AtStep, Beginning, LastToFirst
<1>4. CASE Start!ClosesLog("closing log") /\ UNCHANGED Start!registry
  <2>1. UNCHANGED <<order, hooks, call, state, disposal>>
    BY <1>4 DEF Start!registry
  <2> QED
    BY <1>3, <1>4, <2>1, OwnSteps
<1>5. CASE \E global \in Start!SeqOf(Start!Entry, MaxEntries),
              below \in Start!SeqOf(Plugins, MaxEntries), has \in [Plugins -> HookSets] :
             step' = "init" /\ startExitCode' = startExitCode /\ Start!Loads(global, below, has)
  <2>1. PICK global \in Start!SeqOf(Start!Entry, MaxEntries),
             below \in Start!SeqOf(Plugins, MaxEntries), has \in [Plugins -> HookSets] :
               /\ step' = "init" /\ startExitCode' = startExitCode
               /\ Start!Loads(global, below, has)
    BY <1>5
  <2>2. order' \in Seq(Plugins) /\ EachOnce(order')
    <3>1. global \in Seq(Start!Entry) /\ below \in Seq(Plugins)
      BY StartAssumption DEF Start!SeqOf
    <3>2. Start!PluginsOf(global) \in Seq(Plugins)
      <4> DEFINE n == Len(global)
      <4>1. n \in Nat /\ DOMAIN global = 1..n /\ \A i \in 1..n : global[i] \in Start!Entry
        BY <3>1
      <4>2. Start!PluginsOf(global) = [i \in 1..n |-> global[i].plugin]
        BY <4>1 DEF Start!PluginsOf
      <4>3. \A i \in 1..n : global[i].plugin \in Plugins
        BY <4>1 DEF Start!Entry
      <4> QED
        BY <4>1, <4>2, <4>3
    <3>3. Start!PluginsOf(global) \o below \in Seq(Plugins)
      BY <3>1, <3>2
    <3> QED
      BY <2>1, <3>3, LoadedOnce DEF Start!Loads
  <2>3. /\ hooks' = [p \in Plugins |-> IF p \in Start!ToSet(order') THEN has[p] ELSE {}]
        /\ call' = [p \in Plugins |->
                     [call[p] EXCEPT !["init"] = IF "init" \in hooks'[p] THEN "running" ELSE @]]
        /\ state' = "active" /\ UNCHANGED disposal
    BY <2>1 DEF Start!Loads
  <2>4. /\ call' \in [Plugins -> [Start!Hooks -> CallStatuses]]
        /\ \A p \in Plugins, h \in Start!Hooks : h # "init" => call'[p][h] = call[p][h]
        /\ \A p \in Plugins : call'[p]["init"] \in {"no", "running"}
    <3>1. "running" \in CallStatuses /\ "no" \in CallStatuses
      BY DEF CallStatuses
    <3>2. call \in [Plugins -> [Start!Hooks -> CallStatuses]]
      BY <1>1 DEF RegistryTypes
    <3>3. \A p \in Plugins : call[p]["init"] = "no"
      BY <1>3 DEF Uncalled
    <3> QED
      BY <1>2, <2>3, <3>1, <3>2, <3>3
  <2>5. \A p \in Plugins : /\ call'[p]["beforeServerStart"] = "no"
                           /\ call'[p]["afterServerStart"] = "no" /\ call'[p]["dispose"] = "no"
    BY <1>2, <1>3, <2>4 DEF Uncalled
  <2>6. disposal.at = 0
    BY <1>1, <1>3 DEF AtStep, RegistryTypes
  <2>7. RegistryTypes'
    <3>1. 0 \in 0..Len(order')
      BY <2>2
    <3> QED
      BY <1>1, <2>2, <2>3, <2>4, <2>6, <3>1 DEF RegistryTypes, EachOnce
  <2>8. OnlyLoadedHaveHooks'
    BY <2>3 DEF OnlyLoadedHaveHooks, IsLoaded, Start!ToSet
  <2>9. LastToFirst'
    BY <2>3, <2>5 DEF LastToFirst, Uncalled
  <2>10. HooksInTurn'
    BY <2>5 DEF HooksInTurn, Uncalled
  <2>11. AtStep'
    BY <1>3, <2>1, <2>3, <2>5 DEF AtStep, Beginning, Uncalled, Start!AnyRunning
  <2> QED
    BY <2>7, <2>8, <2>9, <2>10, <2>11 DEF StartInv
<1> QED
  BY <1>4, <1>5 DEF Start!Load

LEMMA StartSteps == ASSUME StartInv, [Start!Next]_(Start!vars) PROVE StartInv'
<1>1. CASE Start!Load
  BY <1>1, LoadKeeps
<1>2. CASE Start!Before
  BY <1>2, BeforeKeeps
<1>3. CASE Start!Serve
  BY <1>3, ServeKeeps
<1>4. CASE \/ Start!TokensRead /\ Start!Fails
           \/ Start!CreateProviders /\ Start!AnyFailed("beforeServerStart") /\ Start!Fails
           \/ Start!Listen /\ Start!Fails
           \/ Start!ListenFails \/ Start!AwaitHooks
  <2>1. DisposalStarts
    BY <1>4 DEF DisposalStarts, Start!TokensRead, Start!CreateProviders, Start!Listen,
                Start!ListenFails, Start!AwaitHooks, Start!Fails
  <2> QED
    BY <2>1, DisposalBegins
<1>5. CASE Start!Dispose \/ Start!DisposesLate
  BY <1>5, DisposingKeeps DEF Start!Dispose, Start!DisposesLate
<1>6. CASE Start!Deadline
  BY <1>6, DeadlineKeeps
<1>7. CASE \E p \in Plugins, h \in Start!Hooks : Start!HookSettles(p, h) /\ UNCHANGED Start!own
  BY <1>7, SettlingKeeps
<1>8. CASE \/ Start!Tokens \/ Start!RefreshEnds \/ Start!Stop \/ Start!AwaitStatuses
           \/ Start!CleanedUp \/ Start!LogClosed \/ Start!Stopped
           \/ \E v \in Providers : Start!StatusResolved(v)
  <2>1. UNCHANGED <<order, hooks, call, state, disposal>>
    BY <1>8 DEF Start!Tokens, Start!RefreshEnds, Start!Stop, Start!AwaitStatuses, Start!CleanedUp,
                Start!LogClosed, Start!Stopped, Start!StatusResolved, Start!registry
  <2> QED
    BY <1>8, <2>1, OwnSteps
<1>9. CASE \/ step = "tokens" /\ Start!Then("before") /\ UNCHANGED Start!registry
           \/ step = "providers" /\ Start!Then("listen") /\ UNCHANGED Start!registry
           \/ step = "before" /\ Start!BeforeEnded /\ Start!CreateFetches /\ Start!Then("providers")
           \/ \E v \in Providers : Start!FetchSettles(v) /\ UNCHANGED Start!own
           \/ UNCHANGED Start!vars
  <2>1. UNCHANGED <<order, hooks, call, state, disposal>>
    BY <1>9 DEF Start!registry, Start!CreateFetches, Start!FetchSettles, Start!vars
  <2>2. \/ step = "tokens" /\ Start!Then("before")
        \/ step = "providers" /\ Start!Then("listen")
        \/ step = "before" /\ Start!BeforeEnded /\ Start!Then("providers")
        \/ UNCHANGED <<step, startExitCode>>
    BY <1>9 DEF Start!own, Start!vars
  <2> QED
    BY <2>1, <2>2, OwnSteps
<1>10. Start!TokensRead => \/ Start!TokensRead /\ Start!Fails
                           \/ step = "tokens" /\ Start!Then("before") /\ UNCHANGED Start!registry
  BY DEF Start!TokensRead
<1>11. Start!CreateProviders =>
         \/ Start!CreateProviders /\ Start!AnyFailed("beforeServerStart") /\ Start!Fails
         \/ step = "before" /\ Start!BeforeEnded /\ Start!CreateFetches /\ Start!Then("providers")
  BY DEF Start!CreateProviders
<1>12. Start!Listen => \/ Start!Listen /\ Start!Fails
                       \/ step = "providers" /\ Start!Then("listen") /\ UNCHANGED Start!registry
  BY DEF Start!Listen
<1> QED
  BY <1>1, <1>2, <1>3, <1>4, <1>5, <1>6, <1>7, <1>8, <1>9, <1>10, <1>11, <1>12 DEF Start!Next

(* The disposal is at rest and in order.                                   *)
LEMMA DisposedAtRestThen == StartInv => Start!PluginsDisposedAtRest
<1> SUFFICES ASSUME StartInv PROVE Start!PluginsDisposedAtRest
  OBVIOUS
<1>1. /\ RegistryTypes /\ OnlyLoadedHaveHooks /\ LastToFirst /\ HooksInTurn /\ AtStep
  BY DEF StartInv
<1>2. /\ DOMAIN order = 1..Len(order) /\ Len(order) \in Nat /\ disposal.at \in 0..Len(order)
      /\ \A i \in DOMAIN order : order[i] \in Plugins
  BY <1>1 DEF RegistryTypes
<1>3. state \in {"none", "active", "disposing", "disposed"}
  BY <1>1 DEF RegistryTypes
<1>4. ASSUME NEW p \in Plugins, Start!Disposed(p), NEW q \in Start!Later(p), "dispose" \in hooks[q]
      PROVE  call[q]["dispose"] \in {"done", "failed"}
  <2>1. PICK j \in DOMAIN order : order[j] = q /\ \E i \in 1..(j - 1) : order[i] = p
    BY <1>2, <1>4 DEF Start!Later
  <2>2. PICK i \in 1..(j - 1) : order[i] = p
    BY <2>1
  <2>3. i \in DOMAIN order /\ i < j
    BY <1>2, <2>1, <2>2
  <2>4. call[p]["dispose"] # "no" /\ state \in {"disposing", "disposed"}
    BY <1>1, <1>3, <1>4 DEF Start!Disposed, LastToFirst, Uncalled
  <2>5. ~(i < disposal.at)
    BY <1>1, <2>2, <2>3, <2>4 DEF LastToFirst
  <2>6. j > disposal.at
    BY <1>2, <2>1, <2>3, <2>5
  <2> QED
    BY <1>1, <1>4, <2>1, <2>4, <2>6 DEF LastToFirst, Ran
<1>5. ASSUME NEW p \in Plugins, Start!Disposed(p), NEW q \in Plugins, NEW h \in Start!Hooks \ {"dispose"}
      PROVE  call[q][h] # "running"
  <2>1. call[p]["dispose"] # "no" /\ state \in {"disposing", "disposed"}
    BY <1>1, <1>3, <1>5 DEF Start!Disposed, LastToFirst, Uncalled
  <2>2. step \notin {"init", "before"}
    BY <1>1, <2>1 DEF AtStep, Beginning
  <2>3. CASE h = "init"
    BY <1>1, <2>2, <2>3 DEF AtStep, Start!InitSettled
  <2>4. CASE h = "beforeServerStart"
    BY <1>1, <2>2, <2>4 DEF AtStep, Start!AnyRunning
  <2>5. CASE h = "afterServerStart"
    BY <1>1, <2>1, <2>5 DEF HooksInTurn, Uncalled, Start!AnyRunning
  <2> QED
    BY <2>3, <2>4, <2>5 DEF Start!Hooks
<1>6. ASSUME step = "ended", NEW p \in Plugins, "dispose" \in hooks[p]
      PROVE  call[p]["dispose"] \in {"done", "failed"}
  <2>1. PICK i \in DOMAIN order : order[i] = p
    BY <1>1, <1>6 DEF OnlyLoadedHaveHooks, IsLoaded
  <2>2. state = "disposed" /\ ~disposal.aborted
    <3>1. order # <<>>
      BY <1>2, <2>1
    <3> QED
      BY <1>1, <1>6, <3>1 DEF AtStep
  <2>3. disposal.at = 0 /\ i > 0
    BY <1>1, <1>2, <2>2 DEF LastToFirst
  <2> QED
    BY <1>1, <1>6, <2>1, <2>2, <2>3 DEF LastToFirst, Ran
<1>7. step \in {"closing log", "closing log in time"} => startExitCode = 1
  BY <1>1 DEF AtStep
<1>8. \A p \in Plugins : ~Start!Available(p) =>
        call[p]["beforeServerStart"] = "no" /\ call[p]["afterServerStart"] = "no"
  BY <1>1 DEF HooksInTurn
<1> QED
  BY <1>4, <1>5, <1>6, <1>7, <1>8 DEF Start!PluginsDisposedAtRest

LEMMA StatusInits == Start!Init => StatusInv
BY DEF Start!Init, StatusInv, Beginning

LEMMA StatusSteps == ASSUME StatusInv, [Start!Next]_(Start!vars) PROVE StatusInv'
<1>1. CASE Start!Load
  BY <1>1 DEF StatusInv, Beginning, Start!Load, Start!ClosesLog
<1>2. CASE Start!Serve
  <2>1. /\ step = "listen" /\ step' = "serving" /\ UNCHANGED <<oauth, refreshAborted, authStatuses>>
        /\ refresh' = IF oauth = {} THEN refresh ELSE "running"
    BY <1>2 DEF Start!Serve
  <2>2. PICK got \in [oauth -> {"valid", "needs_refresh", "needs_login"}] :
          status' = [v \in Providers |-> IF v \in oauth THEN got[v] ELSE "no"]
    BY <1>2 DEF Start!Serve
  <2>3. \A v \in Providers : /\ status'[v] # "no" => v \in oauth
                             /\ status'[v] # "cut off"
    BY <2>2
  <2> QED
    BY <2>1, <2>2, <2>3 DEF StatusInv, Beginning
<1>3. CASE \E v \in Providers : Start!StatusResolved(v)
  <2>1. PICK v \in Providers : Start!StatusResolved(v)
    BY <1>3
  <2>2. /\ status[v] = "needs_refresh" /\ UNCHANGED <<step, oauth, refresh, refreshAborted, authStatuses>>
        /\ \E to \in {"valid", IF refreshAborted THEN "cut off" ELSE "needs_login"} :
             status' = [status EXCEPT ![v] = to]
    BY <2>1 DEF Start!StatusResolved
  <2>3. refresh # "ended" /\ authStatuses[v] = "no" /\ v \in oauth
    BY <2>2 DEF StatusInv
  <2> QED
    BY <2>2, <2>3 DEF StatusInv
<1>4. CASE Start!RefreshEnds
  <2>1. /\ refresh = "running" /\ refresh' = "ended" /\ UNCHANGED <<step, oauth, status, refreshAborted>>
        /\ \A v \in oauth : status[v] # "needs_refresh"
        /\ authStatuses' = Start!StatusesReported
    BY <1>4 DEF Start!RefreshEnds
  <2>2. \A v \in Providers : authStatuses'[v] \in {"no", status[v]}
    BY <2>1 DEF StatusInv, Start!StatusesReported, Start!Reported
  <2> QED
    BY <2>1, <2>2 DEF StatusInv, Beginning
<1>5. CASE Start!Stop
  BY <1>5 DEF StatusInv, Beginning, Start!Stop
<1>6. CASE /\ UNCHANGED <<oauth, status, refresh, refreshAborted, authStatuses>>
           /\ step' \in Beginning \cup {"load"} => step \in Beginning \cup {"load"}
  BY <1>6 DEF StatusInv
<1>7. CASE UNCHANGED Start!own
  BY <1>6, <1>7 DEF Start!own
<1>8. CASE \/ Start!Tokens \/ Start!TokensRead \/ Start!CreateProviders \/ Start!Listen
           \/ Start!ListenFails \/ Start!AwaitStatuses \/ Start!AwaitHooks \/ Start!CleanedUp
           \/ Start!LogClosed \/ Start!Stopped \/ Start!Deadline
  BY <1>6, <1>7, <1>8
     DEF Start!Tokens, Start!TokensRead, Start!CreateProviders, Start!Listen, Start!ListenFails,
         Start!AwaitStatuses, Start!AwaitHooks, Start!CleanedUp, Start!LogClosed, Start!Stopped,
         Start!Deadline, Start!Fails, Start!Then, Start!ClosesLog, Beginning
<1>9. CASE Start!Before \/ Start!Dispose \/ Start!DisposesLate \/ UNCHANGED Start!vars
  BY <1>7, <1>9 DEF Start!Before, Start!Dispose, Start!DisposesLate, Start!vars
<1>10. CASE /\ step # "exited"
            /\ \/ \E v \in Providers : Start!FetchSettles(v) /\ UNCHANGED Start!own
               \/ \E p \in Plugins, h \in Start!Hooks : Start!HookSettles(p, h) /\ UNCHANGED Start!own
  BY <1>7, <1>10
<1> QED
  BY <1>1, <1>2, <1>3, <1>4, <1>5, <1>8, <1>9, <1>10 DEF Start!Next

(* However a start fails or the server stops, the plugins are disposed last*)
(* to first and at rest, each of them where the process ends by itself.    *)
THEOREM DisposalAtRest == Start!Spec => []Start!PluginsDisposedAtRest
<1>1. Start!Init => StartInv
  BY StartInits
<1>2. StartInv /\ [Start!Next]_(Start!vars) => StartInv'
  BY StartSteps
<1> QED
  BY <1>1, <1>2, DisposedAtRestThen, PTL DEF Start!Spec

(* What /health tells is what a refresh came to.                           *)
THEOREM StatusesTrue == Start!Spec => []Start!StatusesHonest
<1>1. Start!Init => StatusInv
  BY StatusInits
<1>2. StatusInv /\ [Start!Next]_(Start!vars) => StatusInv'
  BY StatusSteps
<1>3. StatusInv => Start!StatusesHonest
  BY DEF StatusInv, Start!StatusesHonest
<1> QED
  BY <1>1, <1>2, <1>3, PTL DEF Start!Spec

(* The same in the runs' module, in the behaviours that start a server.    *)
LEMMA StartIsPicked ==
  /\ MCInit => Start!Init
  /\ [MCNext]_allVars => [Start!Next]_(Start!vars)
<1>1. MCInit => Start!Init
  BY DEF MCInit
<1>2. ASSUME UNCHANGED startVars PROVE UNCHANGED Start!vars
  BY <1>2 DEF startVars, Start!vars, Start!registry, Start!own
<1>3. [MCNext]_allVars => Start!Next \/ UNCHANGED startVars
  BY DEF MCNext, allVars
<1> QED
  BY <1>1, <1>2, <1>3

THEOREM PluginsAreDisposedAtRest == MCSpec => []PluginsDisposedAtRest
<1>1. MCInit => StartInv
  BY StartIsPicked, StartInits
<1>2. StartInv /\ [MCNext]_allVars => StartInv'
  BY StartIsPicked, StartSteps
<1>3. StartInv => PluginsDisposedAtRest
  BY DisposedAtRestThen DEF PluginsDisposedAtRest
<1> QED
  BY <1>1, <1>2, <1>3, PTL DEF MCSpec

THEOREM StatusesAreHonest == MCSpec => []StatusesHonest
<1>1. MCInit => StatusInv
  BY StartIsPicked, StatusInits
<1>2. StatusInv /\ [MCNext]_allVars => StatusInv'
  BY StartIsPicked, StatusSteps
<1>3. StatusInv => StatusesHonest
  BY DEF StatusInv, StatusesHonest, Start!StatusesHonest
<1> QED
  BY <1>1, <1>2, <1>3, PTL DEF MCSpec

-----------------------------------------------------------------------------
(* The log (LogFiles).                                                     *)

UpTo(n) == [i \in 1..n |-> i]

After(m, n) == [i \in 1..(n - m) |-> m + i]

Outputs == {"stdout", "file"}

StreamStates == {"none", "open", "ending", "finished", "destroyed"}

WrittenLines == [line : Nat, outputs : SUBSET Outputs, day : 0..MaxDays]

FilesOfDays == [Log!Days -> [stream : StreamStates, lines : Seq(Nat)]]

LogTypes ==
  /\ today \in Log!Days /\ line \in Nat
  /\ writing \in WrittenLines
  /\ file \in FilesOfDays
  /\ enabled \in BOOLEAN /\ failureReported \in BOOLEAN
  /\ activeDate \in 0..MaxDays /\ activeStream \in 0..MaxDays /\ lastCleanupDate \in Nat
  /\ closing \in {"no", "lines", "streams", "closed"}

(* The lines that wait are those after the one that is being written.      *)
Waiting(lines, current, last) ==
  /\ current.line <= last
  /\ lines = After(current.line, last)
  /\ current.outputs = {} => current.line = last
  /\ current.outputs # {} => current.line > 0

(* What is written after w, as w or the next line.                         *)
Follows(next, w, stream) ==
  \/ next = w
  \/ w.outputs = {} /\ next = Log!Written(w.line + 1, stream)

(* The last line that an output has got, when w is being written.          *)
Got(w, output) == IF output \in w.outputs THEN w.line - 1 ELSE w.line

EmptyAfter(d) == \A e \in Log!Days : e > d => file[e].lines = <<>>

(* A line is written to the file of a day that no later file has a line.   *)
DaysInOrder ==
  /\ EmptyAfter(today)
  /\ activeStream <= today
  /\ activeStream # 0 => EmptyAfter(activeStream)
  /\ "file" \in writing.outputs =>
       /\ writing.day \in 1..today /\ EmptyAfter(writing.day)
       /\ activeStream # 0 => writing.day <= activeStream

IncreasingUpTo(lines, n) ==
  /\ lines \in Seq(Nat)
  /\ \A i \in DOMAIN lines : lines[i] <= n
  /\ \A i, j \in DOMAIN lines : i < j => lines[i] < lines[j]

(* stdout has the lines up to n, except those whose write failed.          *)
OnStdout(lines, failed, n) ==
  /\ IncreasingUpTo(lines, n)
  /\ {lines[i] : i \in DOMAIN lines} = (1..n) \ failed
  /\ failed \subseteq 1..n

(* The files have all lines, until one fails.                              *)
FilesComplete ==
  /\ IncreasingUpTo(Log!FileLines, Got(writing, "file"))
  /\ Log!HadFiles /\ ~failureReported =>
       /\ Log!FileLines = UpTo(Got(writing, "file"))
       /\ closing \in {"no", "lines"} => enabled /\ (line > 0 => activeStream # 0)
  /\ enabled => Log!HadFiles /\ ~failureReported
  /\ enabled /\ activeDate # 0 => activeStream # 0

LogInv ==
  /\ LogTypes
  /\ Waiting(queue, writing, line)
  /\ OnStdout(stdout, stdoutFailed, Got(writing, "stdout"))
  /\ DaysInOrder
  /\ FilesComplete
  /\ closing \in {"streams", "closed"} => writing.outputs = {}

-----------------------------------------------------------------------------
(* What the library's FlattenSeq computes.                                 *)
LEMMA FlattenIs ==
  ASSUME NEW V, NEW n \in Nat \ {0}, NEW s \in [1..n -> Seq(V)], NEW c, Concatenates(c, s, n, V)
  PROVE  Log!FlattenSeq(s) = c[n]
<1>1. Len(s) = n /\ Len(s) # 0
  OBVIOUS
<1>2. Log!FlattenSeq(s) = Flattened(s, n)
  BY <1>1 DEF Log!FlattenSeq, Flattened
<1> QED
  BY <1>2, FlattenedIs

LEMMA NoFileLines ==
  ASSUME MaxDays \in Nat \ {0}, NEW s, s = [d \in 1..MaxDays |-> <<>>]
  PROVE  Log!FlattenSeq(s) = <<>>
<1> DEFINE n == MaxDays
<1>1. s \in [1..n -> Seq(Nat)] /\ \A i \in 1..n : s[i] = <<>>
  OBVIOUS
<1> HIDE DEF n
<1>2. n \in Nat \ {0}
  BY DEF n
<1>3. PICK c : Concatenates(c, s, n, Nat)
  BY <1>1, <1>2, Concatenation
<1>4. c[n] = <<>>
  BY <1>1, <1>2, <1>3, EmptyConcatenation
<1>5. Log!FlattenSeq(s) = c[n]
  BY <1>1, <1>2, <1>3, FlattenIs
<1> QED
  BY <1>4, <1>5

LEMMA FileLinesAppended ==
  ASSUME MaxDays \in Nat \ {0},
         NEW s \in [1..MaxDays -> Seq(Nat)], NEW t \in [1..MaxDays -> Seq(Nat)],
         NEW k \in 1..MaxDays, NEW x \in Nat, AppendedAt(s, t, MaxDays, k, x)
  PROVE  /\ Log!FlattenSeq(t) = Append(Log!FlattenSeq(s), x)
         /\ Log!FlattenSeq(s) \in Seq(Nat)
<1> DEFINE n == MaxDays
<1>1. /\ n \in Nat \ {0} /\ n \in Nat /\ k \in 1..n
      /\ s \in [1..n -> Seq(Nat)] /\ t \in [1..n -> Seq(Nat)]
      /\ AppendedAt(s, t, n, k, x)
  OBVIOUS
<1> HIDE DEF n
<1>2. PICK b : Concatenates(b, s, n, Nat)
  BY <1>1, Concatenation
<1>3. PICK c : Concatenates(c, t, n, Nat)
  BY <1>1, Concatenation
<1>4. c[n] = Append(b[n], x)
  <2>1. LastAppended(b, c, n, x)
    BY <1>1, <1>2, <1>3, AppendedConcatenation
  <2> QED
    BY <2>1 DEF LastAppended
<1>5. Log!FlattenSeq(s) = b[n] /\ Log!FlattenSeq(t) = c[n]
  <2>1. Log!FlattenSeq(s) = b[n]
    BY <1>1, <1>2, FlattenIs
  <2>2. Log!FlattenSeq(t) = c[n]
    BY <1>1, <1>3, FlattenIs
  <2> QED
    BY <2>1, <2>2
<1>6. n \in 0..n
  BY <1>1
<1>7. b[n] \in Seq(Nat)
  BY <1>2, <1>6 DEF Concatenates
<1> QED
  BY <1>4, <1>5, <1>7

LEMMA AfterFacts ==
  ASSUME NEW m \in Nat, NEW n \in Nat, m <= n
  PROVE  /\ After(m, n) \in Seq(Nat)
         /\ After(m, n) = <<>> <=> m = n
         /\ m < n => Head(After(m, n)) = m + 1 /\ Tail(After(m, n)) = After(m + 1, n)
<1>1. After(m, n) \in Seq(Nat) /\ Len(After(m, n)) = n - m
  BY DEF After
<1>2. ASSUME m < n
      PROVE  Head(After(m, n)) = m + 1 /\ Tail(After(m, n)) = After(m + 1, n)
  <2>1. After(m, n) # <<>>
    BY <1>1, <1>2
  <2>2. Head(After(m, n)) = m + 1
    BY <1>1, <1>2, <2>1 DEF After
  <2>3. /\ Tail(After(m, n)) \in Seq(Nat) /\ Len(Tail(After(m, n))) = n - m - 1
        /\ \A i \in 1..(n - m - 1) : Tail(After(m, n))[i] = m + (i + 1)
    BY <1>1, <1>2, <2>1, HeadTailProperties DEF After
  <2>4. /\ After(m + 1, n) \in Seq(Nat) /\ Len(After(m + 1, n)) = n - m - 1
        /\ \A i \in 1..(n - m - 1) : After(m + 1, n)[i] = m + 1 + i
    BY <1>2 DEF After
  <2> HIDE DEF After
  <2>5. \A i \in 1..(n - m - 1) : Tail(After(m, n))[i] = After(m + 1, n)[i]
    BY <2>3, <2>4
  <2> QED
    BY <2>2, <2>3, <2>4, <2>5, SeqEqual
<1> QED
  BY <1>1, <1>2

LEMMA AfterLonger ==
  ASSUME NEW m \in Nat, NEW n \in Nat, NEW k \in Nat, m <= n
  PROVE  After(m, n) \o [i \in 1..k |-> n + i] = After(m, n + k)
<1> DEFINE s == After(m, n)
           t == [i \in 1..k |-> n + i]
           u == After(m, n + k)
           d == n - m
<1>1. /\ d \in Nat
      /\ s \in Seq(Nat) /\ Len(s) = d /\ t \in Seq(Nat) /\ Len(t) = k
      /\ u \in Seq(Nat) /\ Len(u) = d + k
      /\ \A i \in 1..d : s[i] = m + i
      /\ \A i \in 1..k : t[i] = m + (d + i)
      /\ \A i \in 1..(d + k) : u[i] = m + i
  BY DEF After
<1> HIDE DEF s, t, u, d
<1>2. /\ s \o t \in Seq(Nat) /\ Len(s \o t) = Len(s) + Len(t)
      /\ \A i \in 1..(Len(s) + Len(t)) :
           (s \o t)[i] = IF i <= Len(s) THEN s[i] ELSE t[i - Len(s)]
  BY <1>1, ConcatProperties
<1>3. ASSUME NEW i \in 1..(d + k) PROVE (s \o t)[i] = u[i]
  <2>1. (s \o t)[i] = (IF i <= d THEN s[i] ELSE t[i - d]) /\ u[i] = m + i
    BY <1>1, <1>2
  <2>2. CASE i <= d
    <3>1. i \in 1..d
      BY <1>1, <2>2
    <3> QED
      BY <1>1, <2>1, <2>2, <3>1
  <2>3. CASE ~(i <= d)
    <3>1. i - d \in 1..k /\ d + (i - d) = i
      BY <1>1, <2>3
    <3>2. t[i - d] = m + (d + (i - d))
      BY <1>1, <3>1
    <3> QED
      BY <2>1, <2>3, <3>1, <3>2
  <2> QED
    BY <2>2, <2>3
<1>4. s \o t = u
  BY <1>1, <1>2, <1>3, SeqEqual
<1> QED
  BY <1>4 DEF s, t, u

LEMMA UpToNext ==
  ASSUME NEW n \in Nat
  PROVE  /\ UpTo(0) = <<>> /\ UpTo(n) \in Seq(Nat)
         /\ Append(UpTo(n), n + 1) = UpTo(n + 1)
<1>1. UpTo(0) = <<>> /\ UpTo(n) \in Seq(Nat) /\ Len(UpTo(n)) = n
  BY DEF UpTo
<1>2. UpTo(n + 1) \in Seq(Nat) /\ Len(UpTo(n + 1)) = n + 1
  BY DEF UpTo
<1>3. /\ Append(UpTo(n), n + 1) \in Seq(Nat) /\ Len(Append(UpTo(n), n + 1)) = n + 1
      /\ \A i \in 1..n : Append(UpTo(n), n + 1)[i] = UpTo(n)[i]
      /\ Append(UpTo(n), n + 1)[n + 1] = n + 1
  BY <1>1, AppendProperties
<1>4. \A i \in 1..(n + 1) : Append(UpTo(n), n + 1)[i] = UpTo(n + 1)[i]
  <2>1. /\ \A i \in 1..n : UpTo(n)[i] = i
        /\ \A i \in 1..(n + 1) : UpTo(n + 1)[i] = i /\ (i \in 1..n \/ i = n + 1)
    BY DEF UpTo
  <2> HIDE DEF UpTo
  <2> QED
    BY <1>3, <2>1
<1> QED
  BY <1>1, <1>2, <1>3, <1>4, SeqEqual

(* The lines that wait stay in order, and a line that is started is the    *)
(* next one.                                                               *)
LEMMA AdvanceKeeps ==
  ASSUME NEW w \in WrittenLines, NEW stream \in 0..MaxDays, NEW last \in Nat,
         w.line <= last, w.outputs # {} => w.line > 0,
         Log!Advance(After(w.line, last), w, stream)
  PROVE  /\ writing' \in WrittenLines
         /\ Waiting(queue', writing', last)
         /\ Follows(writing', w, stream)
<1>1. w.line \in Nat /\ w.outputs \subseteq Outputs
  BY DEF WrittenLines
<1>2. CASE w.outputs = {} /\ w.line < last
  <2>1. After(w.line, last) # <<>>
    BY <1>1, <1>2, AfterFacts
  <2>2. /\ writing' = Log!Written(Head(After(w.line, last)), stream)
        /\ queue' = Tail(After(w.line, last))
    BY <1>2, <2>1 DEF Log!Advance
  <2>3. /\ writing' = Log!Written(w.line + 1, stream)
        /\ queue' = After(w.line + 1, last)
    BY <1>1, <1>2, <2>2, AfterFacts
  <2>4. /\ writing' \in WrittenLines /\ writing'.line = w.line + 1
        /\ writing'.outputs # {}
    BY <1>1, <2>3 DEF Log!Written, WrittenLines, Outputs
  <2> QED
    BY <1>1, <1>2, <2>3, <2>4 DEF Waiting, Follows
<1>3. CASE ~(w.outputs = {} /\ w.line < last)
  <2>1. w.outputs = {} => w.line = last /\ After(w.line, last) = <<>>
    BY <1>1, <1>3, AfterFacts
  <2>2. writing' = w /\ queue' = After(w.line, last)
    BY <2>1 DEF Log!Advance
  <2> QED
    BY <1>1, <2>1, <2>2 DEF Waiting, Follows
<1> QED
  BY <1>2, <1>3

(* What an output has got does not change when the next line is started,   *)
(* unless there is no file to write it to.                                 *)
LEMMA GotKept ==
  ASSUME NEW w \in WrittenLines, NEW next, NEW stream \in 0..MaxDays, Follows(next, w, stream)
  PROVE  /\ Got(next, "stdout") = Got(w, "stdout")
         /\ Got(next, "file") \in Int /\ Got(w, "file") \in Int
         /\ Got(w, "file") <= Got(next, "file")
         /\ stream # 0 => Got(next, "file") = Got(w, "file")
         /\ "file" \in next.outputs => next = w \/ (stream # 0 /\ next.day = stream)
         /\ w.outputs # {} => next = w
<1>1. w.line \in Nat /\ w.outputs \subseteq Outputs
  BY DEF WrittenLines
<1>2. CASE next = w
  BY <1>1, <1>2 DEF Got
<1>3. CASE w.outputs = {} /\ next = Log!Written(w.line + 1, stream)
  <2>1. /\ next.line = w.line + 1 /\ "stdout" \in next.outputs
        /\ "file" \in next.outputs <=> stream # 0
        /\ next.day = stream
    BY <1>3 DEF Log!Written
  <2> QED
    BY <1>1, <1>3, <2>1 DEF Got
<1> QED
  BY <1>2, <1>3 DEF Follows

LEMMA IncreasingFurther ==
  ASSUME NEW s, NEW m \in Int, NEW n \in Int, m <= n, IncreasingUpTo(s, m)
  PROVE  IncreasingUpTo(s, n)
<1>1. \A i \in DOMAIN s : s[i] \in Nat
  BY DEF IncreasingUpTo
<1> QED
  BY <1>1 DEF IncreasingUpTo

LEMMA IncreasingAppended ==
  ASSUME NEW s, NEW n \in Nat, n > 0, IncreasingUpTo(s, n - 1)
  PROVE  IncreasingUpTo(Append(s, n), n)
<1> DEFINE t == Append(s, n)
           k == Len(s)
<1>1. /\ s \in Seq(Nat) /\ k \in Nat /\ DOMAIN s = 1..k
      /\ \A i \in 1..k : s[i] <= n - 1 /\ s[i] \in Nat
      /\ \A i, j \in 1..k : i < j => s[i] < s[j]
  BY DEF IncreasingUpTo
<1>2. /\ t \in Seq(Nat) /\ DOMAIN t = 1..(k + 1)
      /\ \A i \in 1..k : t[i] = s[i]
      /\ t[k + 1] = n
  BY <1>1, AppendProperties
<1> HIDE DEF t, k
<1>3. \A i \in 1..(k + 1) : i \in 1..k \/ i = k + 1
  BY <1>1
<1>4. \A i \in 1..(k + 1) : t[i] <= n
  BY <1>1, <1>2, <1>3
<1>5. ASSUME NEW i \in 1..(k + 1), NEW j \in 1..(k + 1), i < j PROVE t[i] < t[j]
  <2>1. i \in 1..k
    BY <1>1, <1>5
  <2>2. CASE j \in 1..k
    BY <1>1, <1>2, <1>5, <2>1, <2>2
  <2>3. CASE j = k + 1
    BY <1>1, <1>2, <2>1, <2>3
  <2> QED
    BY <1>3, <2>2, <2>3
<1>6. IncreasingUpTo(t, n)
  BY <1>2, <1>4, <1>5 DEF IncreasingUpTo
<1> QED
  BY <1>6 DEF t

(* All lines of the files, when none gets one and when one does.           *)
LEMMA SameFileLines ==
  ASSUME \A d \in Log!Days : file'[d].lines = file[d].lines
  PROVE  /\ Log!FileLines' = Log!FileLines
         /\ \A e : EmptyAfter(e)' <=> EmptyAfter(e)
<1>1. [d \in Log!Days |-> file'[d].lines] = [d \in Log!Days |-> file[d].lines]
  OBVIOUS
<1> QED
  BY <1>1 DEF Log!FileLines, EmptyAfter, Log!Days

LEMMA MoreFileLines ==
  ASSUME file \in FilesOfDays, file' \in FilesOfDays, NEW k \in Log!Days, NEW x \in Nat,
         file'[k].lines = Append(file[k].lines, x),
         \A d \in Log!Days : d # k => file'[d].lines = file[d].lines,
         EmptyAfter(k)
  PROVE  /\ Log!FileLines' = Append(Log!FileLines, x)
         /\ \A e \in Nat : k <= e => EmptyAfter(e)'
<1> DEFINE s == [d \in 1..MaxDays |-> file[d].lines]
           t == [d \in 1..MaxDays |-> file'[d].lines]
<1>1. MaxDays \in Nat \ {0} /\ k \in 1..MaxDays
  BY LogAssumption DEF Log!Days
<1>2. \A d \in 1..MaxDays : file[d].lines \in Seq(Nat) /\ file'[d].lines \in Seq(Nat)
  BY DEF FilesOfDays, Log!Days
<1>3. s \in [1..MaxDays -> Seq(Nat)] /\ t \in [1..MaxDays -> Seq(Nat)]
  BY <1>2
<1>4. AppendedAt(s, t, MaxDays, k, x)
  BY <1>1 DEF AppendedAt, EmptyAfter, Log!Days
<1>5. Log!FileLines = Log!FlattenSeq(s) /\ Log!FileLines' = Log!FlattenSeq(t)
  BY DEF Log!FileLines, Log!Days
<1>6. Log!FlattenSeq(t) = Append(Log!FlattenSeq(s), x)
  <2> HIDE DEF s, t
  <2> QED
    BY <1>1, <1>3, <1>4, FileLinesAppended
<1>7. ASSUME NEW e \in Nat, k <= e PROVE EmptyAfter(e)'
  <2>1. ASSUME NEW d \in Log!Days, d > e PROVE file'[d].lines = <<>>
    <3>1. d > k /\ d # k
      BY <1>1, <1>7, <2>1 DEF Log!Days
    <3> QED
      BY <3>1 DEF EmptyAfter
  <2> QED
    BY <2>1 DEF EmptyAfter, Log!Days
<1> QED
  BY <1>5, <1>6, <1>7

-----------------------------------------------------------------------------
LEMMA LogInits == Log!Init => LogInv
<1> SUFFICES ASSUME Log!Init PROVE LogInv
  OBVIOUS
<1>1. /\ today = 1 /\ line = 0 /\ queue = <<>> /\ stdout = <<>> /\ stdoutFailed = {}
      /\ writing = [line |-> 0, outputs |-> {}, day |-> 0]
      /\ file = [d \in Log!Days |-> [stream |-> "none", lines |-> <<>>]]
      /\ enabled \in BOOLEAN /\ activeDate = 0 /\ activeStream = 0
      /\ lastCleanupDate = (IF enabled THEN today ELSE 0)
      /\ failureReported = FALSE /\ closing = "no"
      /\ MaxDays \in Nat \ {0}
  BY LogAssumption DEF Log!Init
<1>2. LogTypes
  <2>1. writing \in WrittenLines
    BY <1>1 DEF WrittenLines
  <2>2. file \in FilesOfDays
    <3>1. "none" \in StreamStates /\ <<>> \in Seq(Nat)
      BY DEF StreamStates
    <3> QED
      BY <1>1, <3>1 DEF FilesOfDays
  <2>3. lastCleanupDate \in Nat /\ today \in Log!Days
    BY <1>1 DEF Log!Days
  <2>4. line \in Nat /\ activeDate \in 0..MaxDays /\ activeStream \in 0..MaxDays
    BY <1>1
  <2>5. enabled \in BOOLEAN /\ failureReported \in BOOLEAN
    BY <1>1
  <2> QED
    BY <1>1, <2>1, <2>2, <2>3, <2>4, <2>5 DEF LogTypes
<1>3. After(0, 0) = <<>> /\ UpTo(0) = <<>>
  BY AfterFacts, UpToNext
<1>4. Waiting(queue, writing, line) /\ OnStdout(stdout, stdoutFailed, Got(writing, "stdout"))
  BY <1>1, <1>3 DEF Waiting, Got, OnStdout, IncreasingUpTo
<1>5. DaysInOrder
  BY <1>1 DEF DaysInOrder, EmptyAfter, Log!Days
<1>6. Log!FileLines = <<>>
  <2>1. [d \in 1..MaxDays |-> file[d].lines] = [d \in 1..MaxDays |-> <<>>]
    BY <1>1 DEF Log!Days
  <2> QED
    BY <1>1, <2>1, NoFileLines DEF Log!FileLines, Log!Days
<1>7. FilesComplete
  BY <1>1, <1>3, <1>6 DEF FilesComplete, IncreasingUpTo, Got, Log!HadFiles
<1> QED
  BY <1>1, <1>2, <1>4, <1>5, <1>7 DEF LogInv

(* What the rotation of the file leaves.                                   *)
LEMMA PrepareKeeps ==
  ASSUME LogInv, closing = "no", NEW opened \in BOOLEAN, Log!Prepare(opened)
  PROVE  /\ file' \in FilesOfDays
         /\ \A d \in Log!Days : file'[d].lines = file[d].lines
         /\ enabled' \in BOOLEAN /\ failureReported' \in BOOLEAN
         /\ activeDate' \in 0..MaxDays /\ lastCleanupDate' \in Nat
         /\ activeStream' \in {0, today, activeStream}
         /\ Log!HadFiles' /\ ~failureReported' =>
              Log!HadFiles /\ ~failureReported /\ enabled' /\ activeStream' # 0
         /\ enabled' => Log!HadFiles' /\ ~failureReported'
         /\ enabled' /\ activeDate' # 0 => activeStream' # 0
<1>1. /\ today \in Log!Days /\ file \in FilesOfDays /\ enabled \in BOOLEAN
      /\ failureReported \in BOOLEAN /\ activeDate \in 0..MaxDays /\ lastCleanupDate \in Nat
      /\ activeStream \in 0..MaxDays /\ MaxDays \in Nat \ {0}
      /\ today \in Nat \ {0} /\ today \in 0..MaxDays
  BY LogAssumption DEF LogInv, LogTypes, Log!Days
<1>2. /\ enabled => Log!HadFiles /\ ~failureReported
      /\ enabled /\ activeDate # 0 => activeStream # 0
      /\ Log!HadFiles /\ ~failureReported => enabled
  BY DEF LogInv, FilesComplete
<1>3. /\ Log!Ended(activeStream) \in FilesOfDays
      /\ \A d \in Log!Days : Log!Ended(activeStream)[d].lines = file[d].lines
  BY <1>1 DEF Log!Ended, FilesOfDays, StreamStates, Log!Days
<1>4. /\ [Log!Ended(activeStream) EXCEPT ![today].stream = "open"] \in FilesOfDays
      /\ \A d \in Log!Days :
           [Log!Ended(activeStream) EXCEPT ![today].stream = "open"][d].lines = file[d].lines
  BY <1>1, <1>3 DEF FilesOfDays, StreamStates
<1>5. CASE enabled /\ today # activeDate /\ opened
  <2>1. /\ activeDate' = today /\ lastCleanupDate' = today /\ enabled' = TRUE
        /\ failureReported' = FALSE /\ activeStream' = today
        /\ file' = [Log!Ended(activeStream) EXCEPT ![today].stream = "open"]
    BY <1>2, <1>5 DEF Log!Prepare
  <2> QED
    BY <1>1, <1>2, <1>4, <1>5, <2>1 DEF Log!HadFiles
<1>6. CASE enabled /\ today # activeDate /\ ~opened
  <2>1. /\ activeDate' = today /\ lastCleanupDate' = today /\ enabled' = FALSE
        /\ failureReported' = TRUE /\ activeStream' = 0
        /\ file' = Log!Ended(activeStream)
    BY <1>2, <1>6 DEF Log!Prepare
  <2> QED
    BY <1>1, <1>3, <2>1
<1>7. CASE ~(enabled /\ today # activeDate)
  <2>1. UNCHANGED <<enabled, activeDate, activeStream, lastCleanupDate, failureReported, file>>
    BY <1>7 DEF Log!Prepare, Log!destination
  <2>2. enabled => activeDate # 0
    BY <1>1, <1>7
  <2> QED
    BY <1>1, <1>2, <2>1, <2>2 DEF Log!HadFiles
<1> QED
  BY <1>5, <1>6, <1>7

LEMMA LogStep ==
  ASSUME LogInv, Log!Log
  PROVE  LogInv'
<1>1. /\ closing = "no" /\ closing' = "no" /\ today' = today
      /\ stdout' = stdout /\ stdoutFailed' = stdoutFailed
  BY DEF Log!Log
<1>2. PICK opened \in BOOLEAN, warnings \in Log!Warnings :
        /\ Log!Prepare(opened)
        /\ line' = line + 1 + warnings
        /\ Log!Advance(queue \o [i \in 1..(1 + warnings) |-> line + i], writing, activeStream')
  BY DEF Log!Log
<1>3. /\ today \in Log!Days /\ today \in Nat /\ line \in Nat /\ writing \in WrittenLines
      /\ file \in FilesOfDays /\ activeStream \in 0..MaxDays /\ MaxDays \in Nat
      /\ today \in 0..MaxDays
      /\ writing.line \in Nat /\ writing.outputs \subseteq Outputs
  BY LogAssumption DEF LogInv, LogTypes, WrittenLines, Log!Days
<1>4. /\ writing.line <= line /\ queue = After(writing.line, line)
      /\ writing.outputs # {} => writing.line > 0
      /\ OnStdout(stdout, stdoutFailed, Got(writing, "stdout"))
  BY DEF LogInv, Waiting
<1>5. /\ file' \in FilesOfDays
      /\ \A d \in Log!Days : file'[d].lines = file[d].lines
      /\ enabled' \in BOOLEAN /\ failureReported' \in BOOLEAN
      /\ activeDate' \in 0..MaxDays /\ lastCleanupDate' \in Nat
      /\ activeStream' \in {0, today, activeStream}
      /\ Log!HadFiles' /\ ~failureReported' =>
           Log!HadFiles /\ ~failureReported /\ enabled' /\ activeStream' # 0
      /\ enabled' => Log!HadFiles' /\ ~failureReported'
      /\ enabled' /\ activeDate' # 0 => activeStream' # 0
  BY <1>1, <1>2, PrepareKeeps
<1>6. warnings \in Nat /\ line' \in Nat /\ line' = line + (1 + warnings) /\ line <= line' /\ line' > 0
  BY <1>2, <1>3 DEF Log!Warnings
<1>7. Log!Advance(After(writing.line, line'), writing, activeStream')
  <2>1. 1 + warnings \in Nat
    BY <1>6
  <2>2. After(writing.line, line) \o [i \in 1..(1 + warnings) |-> line + i]
          = After(writing.line, line + (1 + warnings))
    BY <1>3, <1>4, <2>1, AfterLonger
  <2> QED
    BY <1>2, <1>4, <1>6, <2>2
<1>8. activeStream' \in 0..MaxDays /\ writing.line <= line'
  BY <1>3, <1>4, <1>5, <1>6
<1>9. /\ writing' \in WrittenLines /\ Waiting(queue', writing', line')
      /\ Follows(writing', writing, activeStream')
  BY <1>3, <1>4, <1>6, <1>7, <1>8, AdvanceKeeps
<1>10. /\ Got(writing', "stdout") = Got(writing, "stdout")
       /\ Got(writing', "file") \in Int /\ Got(writing, "file") \in Int
       /\ Got(writing, "file") <= Got(writing', "file")
       /\ activeStream' # 0 => Got(writing', "file") = Got(writing, "file")
       /\ "file" \in writing'.outputs =>
            writing' = writing \/ (activeStream' # 0 /\ writing'.day = activeStream')
  BY <1>3, <1>8, <1>9, GotKept
<1>11. Log!FileLines' = Log!FileLines /\ \A e : EmptyAfter(e)' <=> EmptyAfter(e)
  BY <1>5, SameFileLines
<1>12. LogTypes'
  BY <1>1, <1>3, <1>5, <1>6, <1>8, <1>9 DEF LogTypes, FilesOfDays, WrittenLines, Log!Days
<1>13. DaysInOrder'
  <2>1. /\ EmptyAfter(today) /\ activeStream <= today
        /\ activeStream # 0 => EmptyAfter(activeStream)
        /\ "file" \in writing.outputs =>
             /\ writing.day \in 1..today /\ EmptyAfter(writing.day)
             /\ activeStream # 0 => writing.day <= activeStream
    BY DEF LogInv, DaysInOrder
  <2>2. activeStream' <= today /\ (activeStream' # 0 => EmptyAfter(activeStream'))
    BY <1>3, <1>5, <2>1
  <2>3. ASSUME "file" \in writing'.outputs
        PROVE  /\ writing'.day \in 1..today /\ EmptyAfter(writing'.day)
               /\ activeStream' # 0 => writing'.day <= activeStream'
    <3>1. CASE writing' = writing
      BY <1>3, <1>5, <2>1, <2>3, <3>1
    <3>2. CASE activeStream' # 0 /\ writing'.day = activeStream'
      BY <1>3, <1>8, <2>2, <3>2
    <3> QED
      BY <1>10, <2>3, <3>1, <3>2
  <2> QED
    BY <1>1, <1>11, <2>1, <2>2, <2>3 DEF DaysInOrder
<1>14. FilesComplete'
  <2>1. /\ IncreasingUpTo(Log!FileLines, Got(writing, "file"))
        /\ Log!HadFiles /\ ~failureReported => Log!FileLines = UpTo(Got(writing, "file"))
    BY DEF LogInv, FilesComplete
  <2>2. IncreasingUpTo(Log!FileLines', Got(writing', "file"))
    BY <1>10, <1>11, <2>1, IncreasingFurther
  <2>3. ASSUME Log!HadFiles', ~failureReported'
        PROVE  /\ Log!FileLines' = UpTo(Got(writing', "file"))
               /\ enabled' /\ activeStream' # 0
    BY <1>5, <1>10, <1>11, <2>1, <2>3
  <2> QED
    BY <1>5, <2>2, <2>3 DEF FilesComplete
<1> QED
  BY <1>1, <1>4, <1>9, <1>10, <1>12, <1>13, <1>14 DEF LogInv

(* The line w goes on being written, or the next one.                      *)
LEMMA WritingStep ==
  ASSUME LogInv, NEW output \in writing.outputs, NEW stream \in 0..MaxDays,
         Log!Advance(queue, Log!Without(output), stream), line' = line
  PROVE  /\ writing.line \in Nat /\ writing.line > 0 /\ line \in Nat
         /\ writing' \in WrittenLines /\ Waiting(queue', writing', line')
         /\ Got(writing, output) = writing.line - 1
         /\ Got(Log!Without(output), output) = writing.line
         /\ \A other \in Outputs \ {output} :
              Got(Log!Without(output), other) = Got(writing, other)
         /\ Log!Without(output) \in WrittenLines
         /\ Log!Without(output).outputs = writing.outputs \ {output}
         /\ Log!Without(output).day = writing.day
         /\ Follows(writing', Log!Without(output), stream)
<1> DEFINE w == Log!Without(output)
<1>1. /\ writing \in WrittenLines /\ line \in Nat
      /\ writing.line <= line /\ queue = After(writing.line, line)
      /\ writing.line > 0
  BY DEF LogInv, LogTypes, Waiting
<1>2. /\ w \in WrittenLines /\ w.line = writing.line /\ w.day = writing.day
      /\ w.outputs = writing.outputs \ {output}
  BY <1>1 DEF Log!Without, WrittenLines
<1>3. writing.line \in Nat
  BY <1>1 DEF WrittenLines
<1>4. Log!Advance(After(w.line, line), w, stream)
  BY <1>1, <1>2
<1> HIDE DEF w
<1>5. /\ writing' \in WrittenLines /\ Waiting(queue', writing', line)
      /\ Follows(writing', w, stream)
  BY <1>1, <1>2, <1>3, <1>4, AdvanceKeeps
<1>6. /\ Got(writing, output) = writing.line - 1
      /\ Got(w, output) = writing.line
      /\ \A other \in Outputs \ {output} : Got(w, other) = Got(writing, other)
  BY <1>2 DEF Got
<1> QED
  BY <1>1, <1>2, <1>3, <1>5, <1>6 DEF w

(* The days stay in order when no stream is opened.                        *)
LEMMA DaysStep ==
  ASSUME LogInv, NEW w \in WrittenLines, w.outputs \subseteq writing.outputs, w.day = writing.day,
         Follows(writing', w, activeStream'),
         today' = today, activeStream' \in {0, activeStream},
         \A e \in Nat : EmptyAfter(e) /\ ("file" \in writing.outputs => writing.day <= e)
                        => EmptyAfter(e)'
  PROVE  DaysInOrder'
<1>1. /\ EmptyAfter(today) /\ activeStream <= today
      /\ activeStream # 0 => EmptyAfter(activeStream)
      /\ "file" \in writing.outputs =>
           /\ writing.day \in 1..today /\ EmptyAfter(writing.day)
           /\ activeStream # 0 => writing.day <= activeStream
  BY DEF LogInv, DaysInOrder
<1>2. today \in Nat /\ activeStream \in 0..MaxDays /\ MaxDays \in Nat /\ activeStream \in Nat
  BY LogAssumption DEF LogInv, LogTypes, Log!Days
<1>3. EmptyAfter(today)' /\ (activeStream' # 0 => EmptyAfter(activeStream)')
  BY <1>1, <1>2
<1>4. ASSUME "file" \in writing'.outputs
      PROVE  /\ writing'.day \in 1..today /\ EmptyAfter(writing.day)'
             /\ activeStream' # 0 => writing'.day <= activeStream'
  <2>1. activeStream' \in 0..MaxDays
    BY <1>2
  <2>2. writing' = w \/ (activeStream' # 0 /\ writing'.day = activeStream')
    BY <1>4, <2>1, GotKept
  <2>3. CASE writing' = w
    <3>1. "file" \in writing.outputs /\ writing'.day = writing.day /\ writing.day \in Nat
      BY <1>1, <1>4, <2>3
    <3>2. EmptyAfter(writing.day)'
      BY <1>1, <3>1
    <3> QED
      BY <1>1, <3>1, <3>2
  <2>4. CASE activeStream' # 0 /\ writing'.day = activeStream'
    BY <1>1, <1>2, <1>3, <2>4
  <2> QED
    BY <2>2, <2>3, <2>4
<1> QED
  BY <1>1, <1>2, <1>3, <1>4 DEF DaysInOrder

(* The next line comes to stdout, or its write fails.                      *)
LEMMA StdoutLonger ==
  ASSUME NEW s, NEW failed, NEW n \in Nat, n > 0, OnStdout(s, failed, n - 1)
  PROVE  /\ OnStdout(Append(s, n), failed, n)
         /\ OnStdout(s, failed \cup {n}, n)
<1>1. /\ IncreasingUpTo(s, n - 1) /\ failed \subseteq 1..(n - 1)
      /\ {s[i] : i \in DOMAIN s} = (1..(n - 1)) \ failed
      /\ s \in Seq(Nat) /\ Len(s) \in Nat /\ DOMAIN s = 1..Len(s)
  BY DEF OnStdout, IncreasingUpTo
<1>2. 1..n = (1..(n - 1)) \cup {n} /\ n \notin 1..(n - 1)
  OBVIOUS
<1>3. failed \subseteq 1..n /\ n \notin failed /\ failed \cup {n} \subseteq 1..n
  BY <1>1, <1>2
<1>4. (1..n) \ failed = ((1..(n - 1)) \ failed) \cup {n}
  BY <1>2, <1>3
<1>5. (1..n) \ (failed \cup {n}) = (1..(n - 1)) \ failed
  BY <1>2
<1>6. IncreasingUpTo(Append(s, n), n) /\ IncreasingUpTo(s, n)
  <2>1. IncreasingUpTo(s, n)
    BY <1>1, IncreasingFurther
  <2> QED
    BY <1>1, <2>1, IncreasingAppended
<1>7. {Append(s, n)[i] : i \in DOMAIN Append(s, n)} = {s[i] : i \in DOMAIN s} \cup {n}
  <2>1. /\ DOMAIN Append(s, n) = (DOMAIN s) \cup {Len(s) + 1}
        /\ \A i \in DOMAIN s : Append(s, n)[i] = s[i]
        /\ Append(s, n)[Len(s) + 1] = n
    BY <1>1, AppendProperties
  <2> QED
    BY <2>1
<1> QED
  BY <1>1, <1>3, <1>4, <1>5, <1>6, <1>7 DEF OnStdout

LEMMA StdoutStep ==
  ASSUME LogInv, Log!StdoutWritten
  PROVE  LogInv'
<1> DEFINE w == Log!Without("stdout")
<1>1. /\ "stdout" \in writing.outputs
      /\ \/ stdout' = Append(stdout, writing.line) /\ stdoutFailed' = stdoutFailed
         \/ stdout' = stdout /\ stdoutFailed' = stdoutFailed \cup {writing.line}
      /\ Log!Advance(queue, w, activeStream)
      /\ today' = today /\ line' = line /\ file' = file /\ closing' = closing
      /\ UNCHANGED <<enabled, activeDate, activeStream, lastCleanupDate, failureReported>>
  BY DEF Log!StdoutWritten, Log!destination
<1>2. activeStream \in 0..MaxDays /\ LogTypes
  BY DEF LogInv, LogTypes
<1>3. /\ writing.line \in Nat /\ writing.line > 0 /\ line \in Nat
      /\ writing' \in WrittenLines /\ Waiting(queue', writing', line')
      /\ Got(writing, "stdout") = writing.line - 1
      /\ Got(w, "stdout") = writing.line
      /\ Got(w, "file") = Got(writing, "file")
      /\ w \in WrittenLines /\ w.outputs = writing.outputs \ {"stdout"} /\ w.day = writing.day
      /\ Follows(writing', w, activeStream)
  BY <1>1, <1>2, WritingStep DEF Outputs
<1> HIDE DEF w
<1>4. /\ Got(writing', "stdout") = writing.line
      /\ Got(writing', "file") \in Int /\ Got(w, "file") \in Int
      /\ Got(w, "file") <= Got(writing', "file")
      /\ activeStream # 0 => Got(writing', "file") = Got(w, "file")
  BY <1>2, <1>3, GotKept
<1>5. OnStdout(stdout, stdoutFailed, Got(writing, "stdout"))'
  <2>1. OnStdout(stdout, stdoutFailed, writing.line - 1)
    BY <1>3 DEF LogInv
  <2>2. /\ OnStdout(Append(stdout, writing.line), stdoutFailed, writing.line)
        /\ OnStdout(stdout, stdoutFailed \cup {writing.line}, writing.line)
    BY <1>3, <2>1, StdoutLonger
  <2>3. OnStdout(stdout', stdoutFailed', writing.line)
    BY <1>1, <2>2
  <2> QED
    BY <1>4, <2>3
<1>6. LogTypes'
  BY <1>1, <1>2, <1>3 DEF LogTypes, Log!Days, WrittenLines, FilesOfDays
<1>7. Log!FileLines' = Log!FileLines /\ \A e : EmptyAfter(e)' <=> EmptyAfter(e)
  BY <1>1, SameFileLines
<1>8. DaysInOrder'
  BY <1>1, <1>3, <1>7, DaysStep
<1>9. writing.outputs # {} /\ closing \in {"no", "lines"}
  BY <1>1, <1>2 DEF LogInv, LogTypes
<1>10. FilesComplete'
  <2>1. /\ IncreasingUpTo(Log!FileLines, Got(writing, "file"))
        /\ Log!HadFiles /\ ~failureReported =>
             Log!FileLines = UpTo(Got(writing, "file")) /\ enabled /\ (line > 0 => activeStream # 0)
        /\ enabled => Log!HadFiles /\ ~failureReported
        /\ enabled /\ activeDate # 0 => activeStream # 0
    BY <1>9 DEF LogInv, FilesComplete
  <2>2. IncreasingUpTo(Log!FileLines', Got(writing', "file"))
    BY <1>3, <1>4, <1>7, <2>1, IncreasingFurther
  <2>3. line > 0
    BY <1>3 DEF LogInv, Waiting
  <2> QED
    BY <1>1, <1>3, <1>4, <1>7, <2>1, <2>2, <2>3 DEF FilesComplete, Log!HadFiles
<1> QED
  BY <1>1, <1>3, <1>5, <1>6, <1>8, <1>9, <1>10 DEF LogInv

(* A line that a file gets, or does not get because it fails.              *)
LEMMA FileLineWritten ==
  ASSUME LogInv, "file" \in writing.outputs, NEW stream \in 0..MaxDays,
         Log!Advance(queue, Log!Without("file"), stream), line' = line,
         stdout' = stdout, stdoutFailed' = stdoutFailed,
         activeStream' = stream, today' = today, stream \in {0, activeStream},
         file' \in FilesOfDays,
         \A d \in Log!Days : d # writing.day => file'[d].lines = file[d].lines,
         \/ file'[writing.day].lines = file[writing.day].lines
         \/ file'[writing.day].lines = Append(file[writing.day].lines, writing.line)
  PROVE  /\ writing' \in WrittenLines /\ Waiting(queue', writing', line')
         /\ OnStdout(stdout, stdoutFailed, Got(writing, "stdout"))'
         /\ DaysInOrder'
         /\ IncreasingUpTo(Log!FileLines', Got(writing', "file"))
         /\ /\ stream # 0 /\ Log!FileLines = UpTo(Got(writing, "file"))
            /\ file'[writing.day].lines = Append(file[writing.day].lines, writing.line)
            => Log!FileLines' = UpTo(Got(writing', "file"))
<1> DEFINE w == Log!Without("file")
<1>1. /\ writing.line \in Nat /\ writing.line > 0 /\ line \in Nat
      /\ writing' \in WrittenLines /\ Waiting(queue', writing', line')
      /\ Got(writing, "file") = writing.line - 1
      /\ Got(w, "file") = writing.line
      /\ Got(w, "stdout") = Got(writing, "stdout")
      /\ w \in WrittenLines /\ w.outputs = writing.outputs \ {"file"} /\ w.day = writing.day
      /\ Follows(writing', w, stream)
  BY WritingStep DEF Outputs
<1> HIDE DEF w
<1>2. /\ Got(writing', "stdout") = Got(writing, "stdout")
      /\ Got(writing', "file") \in Int
      /\ writing.line <= Got(writing', "file")
      /\ stream # 0 => Got(writing', "file") = writing.line
  BY <1>1, GotKept
<1>3. OnStdout(stdout, stdoutFailed, Got(writing, "stdout"))'
  BY <1>2 DEF LogInv
<1>4. /\ IncreasingUpTo(Log!FileLines, writing.line - 1)
      /\ file \in FilesOfDays /\ today \in 1..MaxDays /\ MaxDays \in Nat
      /\ writing.day \in 1..today /\ EmptyAfter(writing.day)
  BY <1>1, LogAssumption DEF LogInv, FilesComplete, DaysInOrder, LogTypes, Log!Days
<1>5. writing.day \in Log!Days /\ writing.day \in Nat
  BY <1>4 DEF Log!Days
<1>6. CASE file'[writing.day].lines = file[writing.day].lines
  <2>1. Log!FileLines' = Log!FileLines /\ \A e : EmptyAfter(e)' <=> EmptyAfter(e)
    BY <1>6, SameFileLines
  <2>2. DaysInOrder'
    BY <1>1, <2>1, DaysStep
  <2>3. IncreasingUpTo(Log!FileLines', Got(writing', "file"))
    BY <1>1, <1>2, <1>4, <2>1, IncreasingFurther
  <2>4. file'[writing.day].lines # Append(file[writing.day].lines, writing.line)
    <3>1. file[writing.day].lines \in Seq(Nat)
      BY <1>4, <1>5 DEF FilesOfDays
    <3> QED
      BY <1>1, <1>6, <3>1
  <2> QED
    BY <1>1, <1>3, <2>2, <2>3, <2>4
<1>7. CASE file'[writing.day].lines = Append(file[writing.day].lines, writing.line)
  <2>1. /\ Log!FileLines' = Append(Log!FileLines, writing.line)
        /\ \A e \in Nat : writing.day <= e => EmptyAfter(e)'
    BY <1>1, <1>4, <1>5, <1>7, MoreFileLines
  <2>2. DaysInOrder'
    <3>1. \A e \in Nat : EmptyAfter(e) /\ ("file" \in writing.outputs => writing.day <= e)
                        => EmptyAfter(e)'
      BY <2>1
    <3> QED
      BY <1>1, <3>1, DaysStep
  <2>3. IncreasingUpTo(Log!FileLines', writing.line)
    BY <1>1, <1>4, <2>1, IncreasingAppended
  <2>4. IncreasingUpTo(Log!FileLines', Got(writing', "file"))
    BY <1>1, <1>2, <2>3, IncreasingFurther
  <2>5. ASSUME stream # 0, Log!FileLines = UpTo(Got(writing, "file"))
        PROVE  Log!FileLines' = UpTo(Got(writing', "file"))
    <3>1. writing.line - 1 \in Nat /\ (writing.line - 1) + 1 = writing.line
      BY <1>1
    <3>2. Append(UpTo(writing.line - 1), (writing.line - 1) + 1) = UpTo((writing.line - 1) + 1)
      BY <3>1, UpToNext
    <3> QED
      BY <1>1, <1>2, <2>1, <2>5, <3>1, <3>2
  <2> QED
    BY <1>1, <1>3, <2>2, <2>4, <2>5
<1> QED
  BY <1>6, <1>7

(* The files g are the files f with one more line.                         *)
AddsLine(g, f, d, l) == g = [f EXCEPT ![d].lines = Append(@, l)]

LEMMA LineAdded ==
  ASSUME NEW f \in FilesOfDays, NEW d \in Log!Days, NEW l \in Nat, NEW g, AddsLine(g, f, d, l)
  PROVE  /\ g \in FilesOfDays /\ g[d].lines = Append(f[d].lines, l)
         /\ \A e \in Log!Days : e # d => g[e].lines = f[e].lines
<1>1. Append(f[d].lines, l) \in Seq(Nat)
  <2>1. f[d].lines \in Seq(Nat)
    BY DEF FilesOfDays
  <2> QED
    BY <2>1
<1>2. g = [f EXCEPT ![d].lines = Append(f[d].lines, l)]
  BY DEF FilesOfDays, AddsLine
<1> QED
  BY <1>1, <1>2 DEF FilesOfDays

LEMMA FileStep ==
  ASSUME LogInv, Log!FileWritten
  PROVE  LogInv'
<1>1. /\ "file" \in writing.outputs
      /\ file' = [file EXCEPT ![writing.day].lines = Append(@, writing.line)]
      /\ Log!Advance(queue, Log!Without("file"), activeStream)
      /\ today' = today /\ line' = line /\ stdout' = stdout /\ stdoutFailed' = stdoutFailed /\ closing' = closing
      /\ UNCHANGED <<enabled, activeDate, activeStream, lastCleanupDate, failureReported>>
  BY DEF Log!FileWritten, Log!destination
<1>2. /\ activeStream \in 0..MaxDays /\ LogTypes /\ file \in FilesOfDays
      /\ writing.line \in Nat /\ writing.day \in Log!Days
  <2>1. /\ LogTypes /\ MaxDays \in Nat /\ writing.day \in 1..today
    BY <1>1, LogAssumption DEF LogInv, DaysInOrder
  <2> QED
    BY <2>1 DEF LogTypes, WrittenLines, Log!Days
<1>3. /\ file' \in FilesOfDays
      /\ file'[writing.day].lines = Append(file[writing.day].lines, writing.line)
      /\ \A d \in Log!Days : d # writing.day => file'[d].lines = file[d].lines
  <2>1. AddsLine(file', file, writing.day, writing.line)
    BY <1>1 DEF AddsLine
  <2> QED
    BY <1>2, <2>1, LineAdded
<1>4. /\ writing' \in WrittenLines /\ Waiting(queue', writing', line')
      /\ OnStdout(stdout, stdoutFailed, Got(writing, "stdout"))'
      /\ DaysInOrder'
      /\ IncreasingUpTo(Log!FileLines', Got(writing', "file"))
      /\ activeStream # 0 /\ Log!FileLines = UpTo(Got(writing, "file"))
         => Log!FileLines' = UpTo(Got(writing', "file"))
  BY <1>1, <1>2, <1>3, FileLineWritten
<1>5. writing.outputs # {} /\ closing \in {"no", "lines"} /\ line > 0
  BY <1>1, <1>2 DEF LogInv, LogTypes, Waiting, WrittenLines
<1>6. LogTypes'
  BY <1>1, <1>2, <1>3, <1>4 DEF LogTypes
<1>7. FilesComplete'
  <2>1. /\ Log!HadFiles /\ ~failureReported =>
             Log!FileLines = UpTo(Got(writing, "file")) /\ enabled /\ (line > 0 => activeStream # 0)
        /\ enabled => Log!HadFiles /\ ~failureReported
        /\ enabled /\ activeDate # 0 => activeStream # 0
    BY <1>5 DEF LogInv, FilesComplete
  <2> QED
    BY <1>1, <1>4, <1>5, <2>1 DEF FilesComplete, Log!HadFiles
<1> QED
  BY <1>1, <1>4, <1>5, <1>6, <1>7 DEF LogInv

LEMMA FailureStep ==
  ASSUME LogInv, NEW d \in Log!Days, Log!FileFails(d)
  PROVE  LogInv'
<1> DEFINE destroyed == {d, activeStream} \ {0}
           cut == "file" \in writing.outputs /\ writing.day \in destroyed
           lost == [e \in Log!Days |-> IF e \in destroyed THEN [file[e] EXCEPT !.stream = "destroyed"]
                                       ELSE file[e]]
<1>1. /\ enabled' = FALSE /\ activeStream' = 0 /\ failureReported' = TRUE
      /\ \/ file' = lost
         \/ cut /\ file' = [lost EXCEPT ![writing.day].lines = Append(@, writing.line)]
      /\ IF cut THEN Log!Advance(queue, Log!Without("file"), 0) ELSE UNCHANGED <<queue, writing>>
      /\ UNCHANGED <<today, line, stdout, stdoutFailed, activeDate, lastCleanupDate, closing>>
  BY DEF Log!FileFails
<1>2. /\ LogTypes /\ file \in FilesOfDays /\ writing \in WrittenLines /\ writing.line \in Nat
      /\ 0 \in 0..MaxDays
  BY LogAssumption DEF LogInv, LogTypes, WrittenLines
<1>3. /\ lost \in FilesOfDays
      /\ \A e \in Log!Days : lost[e].lines = file[e].lines
  BY <1>2 DEF FilesOfDays, StreamStates
<1> HIDE DEF lost
<1>4. ASSUME cut
      PROVE  /\ file' \in FilesOfDays
             /\ \A e \in Log!Days : e # writing.day => file'[e].lines = file[e].lines
             /\ \/ file'[writing.day].lines = file[writing.day].lines
                \/ file'[writing.day].lines = Append(file[writing.day].lines, writing.line)
  <2>1. writing.day \in Log!Days
    BY <1>2, <1>4, LogAssumption DEF LogInv, DaysInOrder, LogTypes, Log!Days
  <2>2. CASE file' = lost
    BY <1>3, <2>1, <2>2
  <2>3. CASE file' = [lost EXCEPT ![writing.day].lines = Append(@, writing.line)]
    <3>1. /\ file' \in FilesOfDays
          /\ file'[writing.day].lines = Append(lost[writing.day].lines, writing.line)
          /\ \A e \in Log!Days : e # writing.day => file'[e].lines = lost[e].lines
      <4>1. AddsLine(file', lost, writing.day, writing.line)
        BY <2>3 DEF AddsLine
      <4> QED
        BY <1>2, <1>3, <2>1, <4>1, LineAdded
    <3> QED
      BY <1>3, <2>1, <3>1
  <2> QED
    BY <1>1, <2>2, <2>3
<1>5. ASSUME ~cut
      PROVE  file' \in FilesOfDays /\ \A e \in Log!Days : file'[e].lines = file[e].lines
  BY <1>1, <1>3, <1>5
<1>6. /\ writing' \in WrittenLines /\ Waiting(queue', writing', line')
      /\ OnStdout(stdout, stdoutFailed, Got(writing, "stdout"))'
      /\ DaysInOrder'
      /\ IncreasingUpTo(Log!FileLines', Got(writing', "file"))
      /\ writing.outputs = {} => writing' = writing
      /\ file' \in FilesOfDays
  <2>1. CASE cut
    <3>1. /\ "file" \in writing.outputs /\ Log!Advance(queue, Log!Without("file"), 0)
          /\ line' = line /\ stdout' = stdout /\ stdoutFailed' = stdoutFailed /\ today' = today /\ activeStream' = 0
      BY <1>1, <2>1
    <3>2. /\ file' \in FilesOfDays
          /\ \A e \in Log!Days : e # writing.day => file'[e].lines = file[e].lines
          /\ \/ file'[writing.day].lines = file[writing.day].lines
             \/ file'[writing.day].lines = Append(file[writing.day].lines, writing.line)
      BY <1>4, <2>1
    <3> HIDE DEF cut
    <3>3. /\ writing' \in WrittenLines /\ Waiting(queue', writing', line')
          /\ OnStdout(stdout, stdoutFailed, Got(writing, "stdout"))'
          /\ DaysInOrder'
          /\ IncreasingUpTo(Log!FileLines', Got(writing', "file"))
      BY <1>2, <3>1, <3>2, FileLineWritten
    <3> QED
      BY <3>1, <3>2, <3>3
  <2>2. CASE ~cut
    <3>1. /\ queue' = queue /\ writing' = writing /\ line' = line /\ stdout' = stdout
          /\ stdoutFailed' = stdoutFailed
          /\ today' = today /\ activeStream' = 0
          /\ file' \in FilesOfDays /\ \A e \in Log!Days : file'[e].lines = file[e].lines
      BY <1>1, <1>5, <2>2
    <3>2. Log!FileLines' = Log!FileLines /\ \A e : EmptyAfter(e)' <=> EmptyAfter(e)
      BY <3>1, SameFileLines
    <3>3. DaysInOrder'
      BY <1>2, <3>1, <3>2, DaysStep DEF Follows
    <3> QED
      BY <1>2, <3>1, <3>2, <3>3 DEF LogInv, FilesComplete
  <2> QED
    BY <2>1, <2>2
<1>7. LogTypes'
  BY <1>1, <1>2, <1>6 DEF LogTypes
<1>8. FilesComplete'
  BY <1>1, <1>6 DEF FilesComplete
<1> QED
  BY <1>1, <1>6, <1>7, <1>8 DEF LogInv

LEMMA ClosingStep ==
  ASSUME LogInv,
         \/ Log!Close \/ Log!CloseStreams \/ Log!Closed \/ \E d \in Log!Days : Log!StreamFinishes(d)
  PROVE  LogInv'
<1>1. /\ UNCHANGED <<today, line, queue, writing, stdout, stdoutFailed, activeDate, lastCleanupDate,
                     failureReported>>
  BY DEF Log!Close, Log!CloseStreams, Log!Closed, Log!StreamFinishes, Log!destination
<1>2. LogTypes /\ file \in FilesOfDays /\ writing \in WrittenLines /\ activeStream \in 0..MaxDays
  BY DEF LogInv, LogTypes
<1>3. file' \in FilesOfDays /\ \A e \in Log!Days : file'[e].lines = file[e].lines
  <2>1. CASE \E d \in Log!Days : file' = [file EXCEPT ![d].stream = "finished"]
    <3>1. PICK d \in Log!Days : file' = [file EXCEPT ![d].stream = "finished"]
      BY <2>1
    <3>2. "finished" \in StreamStates
      BY DEF StreamStates
    <3> QED
      BY <1>2, <3>1, <3>2 DEF FilesOfDays
  <2>2. CASE file' = Log!Ended(activeStream)
    BY <1>2, <2>2 DEF FilesOfDays, StreamStates, Log!Ended, Log!Days
  <2>3. CASE file' = file
    BY <1>2, <2>3
  <2> QED
    BY <2>1, <2>2, <2>3 DEF Log!Close, Log!CloseStreams, Log!Closed, Log!StreamFinishes
<1>4. /\ closing' \in {"no", "lines", "streams", "closed"}
      /\ \/ closing' = closing
         \/ closing = "no" /\ closing' = "lines"
         \/ closing = "streams" /\ closing' = "closed"
         \/ /\ closing' = "streams" /\ writing.outputs = {}
            /\ enabled' = FALSE /\ activeStream' = 0
      /\ closing' \in {"no", "lines"} => enabled' = enabled /\ activeStream' = activeStream
      /\ \/ enabled' = enabled /\ activeStream' = activeStream
         \/ enabled' = FALSE /\ activeStream' = 0
  BY <1>2 DEF LogTypes, Log!Close, Log!CloseStreams, Log!Closed, Log!StreamFinishes, Log!destination
<1>5. Log!FileLines' = Log!FileLines /\ \A e : EmptyAfter(e)' <=> EmptyAfter(e)
  BY <1>3, SameFileLines
<1>6. DaysInOrder'
  BY <1>1, <1>2, <1>4, <1>5, DaysStep DEF Follows
<1>7. FilesComplete'
  BY <1>1, <1>4, <1>5 DEF LogInv, FilesComplete, Log!HadFiles
<1>8. LogTypes'
  <2>1. /\ today \in Log!Days /\ line \in Nat /\ failureReported \in BOOLEAN
        /\ activeDate \in 0..MaxDays /\ lastCleanupDate \in Nat /\ enabled \in BOOLEAN
        /\ 0 \in 0..MaxDays
    BY <1>2, LogAssumption DEF LogTypes
  <2>2. enabled' \in BOOLEAN /\ activeStream' \in 0..MaxDays
    BY <1>2, <1>4, <2>1
  <2> QED
    BY <1>1, <1>2, <1>3, <1>4, <2>1, <2>2 DEF LogTypes, FilesOfDays, WrittenLines, Log!Days
<1> QED
  BY <1>1, <1>4, <1>6, <1>7, <1>8 DEF LogInv

LEMMA DayStep ==
  ASSUME LogInv, Log!NextDay
  PROVE  LogInv'
<1>1. /\ today < MaxDays /\ today' = today + 1
      /\ UNCHANGED <<line, queue, writing, stdout, stdoutFailed, file, closing>>
      /\ UNCHANGED <<enabled, activeDate, activeStream, lastCleanupDate, failureReported>>
  BY DEF Log!NextDay, Log!destination
<1>2. LogTypes /\ today \in 1..MaxDays /\ MaxDays \in Nat /\ activeStream \in Nat
      /\ EmptyAfter(today) /\ activeStream <= today
  BY LogAssumption DEF LogInv, LogTypes, Log!Days, DaysInOrder
<1>3. LogTypes'
  BY <1>1, <1>2 DEF LogTypes, Log!Days, WrittenLines, FilesOfDays
<1>4. Log!FileLines' = Log!FileLines /\ \A e : EmptyAfter(e)' <=> EmptyAfter(e)
  BY <1>1, SameFileLines
<1>5. EmptyAfter(today + 1)
  BY <1>2 DEF EmptyAfter, Log!Days
<1>6. DaysInOrder'
  BY <1>1, <1>2, <1>4, <1>5 DEF LogInv, DaysInOrder
<1>7. FilesComplete'
  BY <1>1, <1>4 DEF LogInv, FilesComplete, Log!HadFiles
<1> QED
  BY <1>1, <1>3, <1>6, <1>7 DEF LogInv

LEMMA LogSteps == LogInv /\ [Log!Next]_(Log!vars) => LogInv'
<1> SUFFICES ASSUME LogInv, [Log!Next]_(Log!vars) PROVE LogInv'
  OBVIOUS
<1>1. CASE Log!Log
  BY <1>1, LogStep
<1>2. CASE Log!StdoutWritten
  BY <1>2, StdoutStep
<1>3. CASE Log!FileWritten
  BY <1>3, FileStep
<1>4. CASE \E d \in Log!Days : Log!FileFails(d)
  BY <1>4, FailureStep
<1>5. CASE \/ Log!Close \/ Log!CloseStreams \/ Log!Closed
           \/ \E d \in Log!Days : Log!StreamFinishes(d)
  BY <1>5, ClosingStep
<1>6. CASE Log!NextDay
  BY <1>6, DayStep
<1>7. CASE UNCHANGED Log!vars
  BY <1>7 DEF LogInv, LogTypes, DaysInOrder, FilesComplete, EmptyAfter, WrittenLines, FilesOfDays,
              Log!vars, Log!destination, Log!FileLines, Log!HadFiles, Log!Days
<1> QED
  BY <1>1, <1>2, <1>3, <1>4, <1>5, <1>6, <1>7 DEF Log!Next

LEMMA LinesArriveThen == LogInv => Log!LinesArrive
<1> SUFFICES ASSUME LogInv PROVE Log!LinesArrive
  OBVIOUS
<1>1. UpTo(line) = Log!All
  BY DEF UpTo, Log!All
<1>2. ASSUME closing = "closed"
      PROVE  /\ {stdout[i] : i \in DOMAIN stdout} = (1..line) \ stdoutFailed
             /\ Log!HadFiles /\ ~failureReported => Log!FileLines = Log!All
  <2>1. writing.outputs = {} /\ writing.line = line
    BY <1>2 DEF LogInv, Waiting
  <2>2. Got(writing, "stdout") = line /\ Got(writing, "file") = line
    BY <2>1 DEF Got
  <2> QED
    BY <1>1, <2>2 DEF LogInv, FilesComplete, OnStdout
<1>3. Log!InOrder(stdout) /\ Log!InOrder(Log!FileLines)
  BY DEF LogInv, FilesComplete, OnStdout, IncreasingUpTo, Log!InOrder
<1>4. Log!HadFiles /\ ~enabled /\ closing = "no" => failureReported
  BY DEF LogInv, FilesComplete
<1> QED
  BY <1>2, <1>3, <1>4 DEF Log!LinesArrive

(* Every line arrives, once and in order: on stdout but for the writes that*)
(* failed, and in the files unless the failure of one is told.             *)
THEOREM LinesAreThere == Log!Spec => []Log!LinesArrive
<1>1. Log!Init => LogInv
  BY LogInits
<1>2. LogInv /\ [Log!Next]_(Log!vars) => LogInv'
  BY LogSteps
<1> QED
  BY <1>1, <1>2, LinesArriveThen, PTL DEF Log!Spec

(* The same in the runs' module, in the behaviours that log.               *)
THEOREM AllLinesArrive == MCSpec => []LinesArrive
<1>1. MCInit => LogInv
  BY LogInits DEF MCInit
<1>2. LogInv /\ [MCNext]_allVars => LogInv'
  <2>1. [MCNext]_allVars => [Log!Next]_(Log!vars)
    <3>1. ASSUME UNCHANGED logVars PROVE UNCHANGED Log!vars
      BY <3>1 DEF logVars, Log!vars, Log!destination
    <3>2. [MCNext]_allVars => Log!Next \/ UNCHANGED logVars
      BY DEF MCNext, allVars
    <3> QED
      BY <3>1, <3>2
  <2> QED
    BY <2>1, LogSteps
<1>3. LogInv => LinesArrive
  BY LinesArriveThen DEF LinesArrive
<1> QED
  BY <1>1, <1>2, <1>3, PTL DEF MCSpec
=============================================================================
