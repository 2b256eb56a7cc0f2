---------------------------- MODULE PluginRegistry ----------------------------
(***************************************************************************)
(* The plugins of a process (src/plugins/registry.ts): which are loaded,   *)
(* in which order, which of their hooks have been called, and their        *)
(* disposal.  A plugin is the object that its module exports: it may be    *)
(* configured more than once.  What calls the registry is in ServerStart.  *)
(***************************************************************************)
EXTENDS Naturals, Sequences, SequencesExt

CONSTANTS
  Plugins,
  Providers,
  HookSets,           \* what a plugin may implement: sets of hooks
  MaxEntries          \* bound: of the configured plugins of a level

VARIABLES
  order,              \* allResolvedCache
  hooks,              \* of a plugin: what it implements
  auth,               \* of a provider: the auth plugins that target it
  call,               \* of a plugin and a hook: its call
  fetch,              \* of a provider: the call of its createFetch
  state,              \* PluginRegistryState, "none" before there is a registry
  disposal            \* the plugin it is at, whether its signal is aborted, its result

registry == <<order, hooks, auth, call, fetch, state, disposal>>

Hooks == {"init", "beforeServerStart", "afterServerStart", "dispose"}

RegistryInit ==
  /\ order = <<>>
  /\ hooks = [p \in Plugins |-> {}]
  /\ auth = [v \in Providers |-> {}]
  /\ call = [p \in Plugins |-> [h \in Hooks |-> "no"]]
  /\ fetch = [v \in Providers |-> "no"]
  /\ state = "none"
  /\ disposal = [at |-> 0, aborted |-> FALSE, errors |-> FALSE]

-----------------------------------------------------------------------------
(* fromSettings                                                            *)

\* an entry of settings.plugins
Entry == [plugin : Plugins, providers : SUBSET Providers]

IsAuth(p, has) == "createFetch" \in has[p]

(* validatePluginConstraints: below are the entries of the providers and   *)
(* of their models.                                                        *)
Valid(global, below, has, oauth) ==
  /\ \A e \in ToSet(global) :
       IsAuth(e.plugin, has) => e.providers # {} /\ e.providers \cap oauth = {}
  /\ \A p \in ToSet(below) : ~IsAuth(p, has)

PluginsOf(entries) == [i \in DOMAIN entries |-> entries[i].plugin]

(* computeAllResolved                                                      *)
AllResolved(plugins) ==
  LET resolved[i \in 0..Len(plugins)] ==
        IF i = 0 THEN <<>>
        ELSE IF plugins[i] \in ToSet(resolved[i - 1]) THEN resolved[i - 1]
        ELSE Append(resolved[i - 1], plugins[i])
  IN  resolved[Len(plugins)]

Targeting(global, has, v) ==
  {e.plugin : e \in {e \in ToSet(global) : IsAuth(e.plugin, has) /\ v \in e.providers}}

(* The registry is made, and initAll called: every init hook starts.       *)
Loads(global, below, has) ==
  /\ order' = AllResolved(PluginsOf(global) \o below)
  /\ hooks' = [p \in Plugins |-> IF p \in ToSet(order') THEN has[p] ELSE {}]
  /\ auth' = [v \in Providers |-> Targeting(global, has, v)]
  /\ call' = [p \in Plugins |->
               [call[p] EXCEPT !["init"] = IF "init" \in hooks'[p] THEN "running" ELSE @]]
  /\ state' = "active"
  /\ UNCHANGED <<fetch, disposal>>

-----------------------------------------------------------------------------
(* The hooks.                                                              *)

InitSettled == \A p \in Plugins : call[p]["init"] # "running"

(* unavailablePlugins: those whose init failed.                            *)
Available(p) == call[p]["init"] # "failed"

Callable(h) == {p \in ToSet(order) : Available(p) /\ h \in hooks[p] /\ call[p][h] = "no"}

Called(plugins, h) ==
  call' = [p \in Plugins |-> IF p \in plugins THEN [call[p] EXCEPT ![h] = "running"] ELSE call[p]]

Others == UNCHANGED <<order, hooks, auth, fetch, state, disposal>>

AnyRunning(h) == \E p \in Plugins : call[p][h] = "running"

AnyFailed(h) == \E p \in Plugins : call[p][h] = "failed"

HookSettles(p, h) ==
  /\ call[p][h] = "running"
  /\ \E outcome \in {"done", "failed"} : call' = [call EXCEPT ![p] = [@ EXCEPT ![h] = outcome]]
  /\ Others

(* beforeServerStartAll: one after the other, until one fails.             *)
CallBefore ==
  /\ ~AnyRunning("beforeServerStart") /\ ~AnyFailed("beforeServerStart")
  /\ \E i \in DOMAIN order :
       /\ order[i] \in Callable("beforeServerStart")
       /\ \A j \in 1..(i - 1) : order[j] \notin Callable("beforeServerStart")
       /\ Called({order[i]}, "beforeServerStart")
  /\ Others

BeforeEnded == ~AnyRunning("beforeServerStart") /\ Callable("beforeServerStart") = {}

(* afterServerStartAll: all at once, a failure is only logged.             *)
CallAfter ==
  /\ Called(Callable("afterServerStart"), "afterServerStart")
  /\ Others

(* createAuthFetch of every provider: an auth plugin that targets it and   *)
(* is available, the first if there are several.                           *)
AuthPlugins(v) == {p \in auth[v] : Available(p)}

CreateFetches ==
  /\ fetch' = [v \in Providers |-> IF AuthPlugins(v) = {} THEN "done" ELSE "running"]
  /\ UNCHANGED <<order, hooks, auth, call, state, disposal>>

FetchSettles(v) ==
  /\ fetch[v] = "running"
  /\ \E outcome \in {"done", "failed"} : fetch' = [fetch EXCEPT ![v] = outcome]
  /\ UNCHANGED <<order, hooks, auth, call, state, disposal>>

-----------------------------------------------------------------------------
(* disposeAll                                                              *)

StartDisposal ==
  /\ state = "active" /\ state' = "disposing"
  /\ disposal' = [disposal EXCEPT !.at = Len(order)]
  /\ UNCHANGED <<order, hooks, auth, call, fetch>>

Goes(next) == disposal' = next /\ UNCHANGED <<order, hooks, auth, fetch>>

EndDisposal(failed) ==
  state' = "disposed" /\ Goes([disposal EXCEPT !.errors = @ \/ failed]) /\ UNCHANGED call

(* Faulty: a plugin that could not be initialised is not disposed.         *)
Disposable_Faulty(p) == "dispose" \in hooks[p] /\ Available(p)

Disposable(p) == "dispose" \in hooks[p]

(* The plugin that is at hand is disposed, unless the signal is aborted;   *)
(* the next one is when it has settled, or the signal aborts meanwhile.    *)
DisposeNext ==
  /\ state = "disposing" /\ InitSettled
  /\ IF disposal.aborted THEN EndDisposal(TRUE)
     ELSE IF disposal.at = 0 THEN EndDisposal(FALSE)
     ELSE LET p == order[disposal.at] IN
       /\ UNCHANGED state
       /\ IF Disposable(p) /\ call[p]["dispose"] = "no" THEN
            Called({p}, "dispose") /\ Goes(disposal)
          ELSE
            /\ call[p]["dispose"] # "running"
            /\ Goes([disposal EXCEPT !.at = @ - 1, !.errors = @ \/ call[p]["dispose"] = "failed"])
            /\ UNCHANGED call

(* The deadline of the caller: runWithDeadline.                            *)
AbortDisposal ==
  /\ disposal' = [disposal EXCEPT !.aborted = TRUE]
  /\ UNCHANGED <<order, hooks, auth, call, fetch, state>>
=============================================================================
