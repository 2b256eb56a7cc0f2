# A TLA+ model of llm-proxy-ts

llm-proxy-ts is a gateway between agents that speak one LLM protocol (OpenAI
chat, OpenAI Responses, Anthropic messages) and upstream providers that speak
another. This directory holds TLA+ models of the parts of it that keep state,
run concurrently or translate streams, the TLC configurations that check them,
and TLAPS proofs of the most important results. Paths below are relative to the
repository.

- [The system](#the-system)
- [Modules](#modules)
- [How the modules correspond to the code](#how-the-modules-correspond-to-the-code)
- [Conventions](#conventions)
- [Runs](#runs)
- [Fairness](#fairness)
- [Proofs](#proofs)
- [Where the code and its documents differ](#where-the-code-and-its-documents-differ)
- [What the models show besides](#what-the-models-show-besides)
- [What is not modelled](#what-is-not-modelled)
- [Plan](#plan)

Everything runs inside this directory:

    tlc -workers 2 -config TokenManagerSafety.cfg MCTokenManager.tla
    tlapm TokenManagerProofs.tla

## The system

One Node process. JavaScript runs one continuation at a time, so what can
interleave is what stands between two `await`s, callbacks of timers and abort
signals, and the world outside: clients, upstreams, token endpoints, plugins,
the file system, signals to the process. Besides the server there are commands,
each a process of its own, that edit the settings.

| Component (source) | State | Operations | What is hard | What makes it correct | Models |
| --- | --- | --- | --- | --- | --- |
| OAuth token manager (`src/oauth/token-manager.ts`) | token store in memory, refreshes and exchanges under way, generations, store queue, cancelled refreshes | `ensureValidToken`, `getToken`, exchange of a code, forced refresh, `waitForPendingRefreshes` | requests share a refresh and leave it one by one; a login overtakes a refresh; saving fails; draining without a deadline | one live refresh per provider; nobody waits on an aborted one; an older operation never replaces a newer one's token; tokens handed out are on disk | modelled |
| auth.json (`src/oauth/token-store.ts`, `src/plugins/store-adapter.ts`) | a file, a chain of updates | `saveTokenStore`, `PluginStore.set` | read, change, write of a whole file by several writers; a kill between any two file operations; failures that must not break the chain | acts as an atomic store | modelled |
| Active requests and shutdown (`src/server/lifecycle.ts`, `active-requests.ts`, `server.ts`) | phase of the shutdown, registered requests, results, exit code | begin/release, signals, process errors, drain, force, disposal | any of the parties may hang; repeated signals; deadlines against late ends | plugins outlive requests; it always ends; results and exit code say what happened | modelled |
| Request handling and telemetry (`src/server/handle-protocol.ts`, `app.ts`, `error-logger.ts`) | telemetry of one request, its error log entry, its response | validate, route, execute in one of three modes, render, cancel | the upstream's failure, the client's departure, a renderer's exception and the deadline all write the same outcome | success only when it was one; only real failures in the error log; one completion | partly |
| Upstream streams (`src/request-timeout.ts`, `src/server/upstream-stream.ts`, `stream-inspect.ts`, `stream-utils.ts`) | deadline, abort signal, wrapper and cleanup of one iterator | wrap, first-part inspection, replay, cancel | an upstream that hangs in a pull or in its cleanup; plugins that refuse; consumers that never pull | the upstream is released, or guarded by an armed deadline; failures of its cleanup are told once | partly |
| Provider registry and key failover (`src/providers/registry.ts`) | round-robin index, the model's current key, the buffer of a stream | select keys, generate, stream, replay | a retry after parts of an answer were read | one call's answer is heard, from its start; keys take turns | partly |
| Vision artifact store (`src/server/vision-artifact-store.ts`) | a directory, a map of known images, a queue of batches | `persistBatch`: clean up, verify, reuse, write | the directory is shared with agents and outlives the process; quota; partial failures | what is handed out is there; the quota holds; each batch is answered | partly |
| OAuth callback (`src/server/oauth/callback.ts`) | pending states with a limit and a lifetime | login, callback | single use, expiry, eviction | a state is good for one exchange, by its provider, and remembered until it is old or crowded out | modelled |
| Plugin registry (`src/plugins/registry.ts`) | loaded plugins, called hooks, disposal | init, hooks before and after the start, fetches, disposal | one of several parallel inits fails; disposal while hooks run | what was initialised is disposed once, in reverse order, at rest | partly |
| Server startup, OAuth statuses (`src/server/server.ts`, `src/server/oauth/startup.ts`) | the step of the start, statuses | start, cleanup after a failure, refresh of statuses | any step fails or hangs; a refresh is cut off by the shutdown | plugins are disposed at rest after every failure; a refresh that was cut off is not told as a login that is needed | partly, modelled |
| Renderers (`src/providers/*/renderer.ts`, `shared/stream-collector.ts`) | block, item and sequence numbers of one stream | a part in, events out | interleaved text, reasoning and tool calls that break off | blocks and items pair up, the content arrives whole, one terminal event | partly, modelled |
| Decoders and Responses passthrough (`src/providers/openai-responses/protocol.ts`, `passthrough-input.ts`) | none (a request) | names of tools, mapping of the input and its way back | names that meet; items that the SDK changes, drops or merges | a called tool is the one the client meant; OpenAI gets the client's items | partly |
| Logging (`src/server/logging.ts`) | open file, queue of lines, closed | write, rotate, disable, close | rotation that fails, writes while closing | no line doubled or out of order, none lost but by a write that failed | partly |
| Codex catalog (`src/codex-catalog.ts`, `src/server/codex.ts`) | cache, fetch under way | get | a shared fetch that fails | one fetch at a time; failures are not cached | partly |
| Routing, tool filter (`src/routing.ts`, `src/tool-filter.ts`, `src/providers/model-types.ts`) | the table | build, resolve, list; filter | several names for a model, and the same for several | a listed selector that parses leads to the listed model, others nowhere; a removed tool is neither offered nor chosen | modelled |
| CLI: model sync (`src/cli/models/*`) | lock file, temporary file, settings file | lock, snapshot, recheck, rename; the plan | processes and editors; dead lock owners | no change that was saved is overwritten; what is written is what was chosen | partly |
| Plugin loader, vision transforms, configuration, Codex profile, scripts | none | | | | not modelled |

How they interact. At the *start* the settings give the *routing* table and the
plugins of the *plugin registry*, which are initialised before the server
listens. A request is registered in *active requests*, gets its deadline and
abort signal (*upstream streams*), is validated, decoded and routed by *request
handling*, and calls a model of the *provider registry*; the model's fetch asks
the *token manager* for a token (which writes *auth.json*) or a plugin's own
fetch, whose store is in *auth.json* as well. The stream comes back through the
failover buffer, the wrapper with the deadline, the plugins' inspection and the
*renderer*, or the collector where the client wants one answer. At a signal the
*shutdown* stops new requests, waits for the registered ones, aborts those that
do not end, disposes the plugins, drains the token refreshes and closes the
*log*.

## Modules

| Module | Models | Extends or uses |
| --- | --- | --- |
| `TokenManager`, `MCTokenManager` | token-manager.ts | |
| `TokenManagerProofs` | proofs | `TokenManager` |
| `AuthStore` | what auth.json promises: an atomic store | |
| `AuthFile` | token-store.ts, store-adapter.ts step by step | refines `AuthStore` |
| `AuthFileProofs` | proofs | `AuthFile` |
| `Shutdown` | lifecycle.ts, active-requests.ts, disposal in server.ts | |
| `PluginRegistry` | plugins/registry.ts | |
| `ServerStart` | the start in server.ts, oauth/startup.ts | extends `PluginRegistry` |
| `LogFiles` | the file behind logging.ts | |
| `MCShutdown` | instances of the start, the shutdown and the log | `Shutdown`, `ServerStart`, `LogFiles` |
| `ShutdownProofs` | proofs of all three | `MCShutdown`, `DataProofs` |
| `RequestLog` | outcomes in handle-protocol.ts, app.ts, error-logger.ts | |
| `UpstreamStream` | request-timeout.ts, upstream-stream.ts, stream-inspect.ts, stream-utils.ts | |
| `MCRequest` | instances of a request's log and of its stream | `RequestLog`, `UpstreamStream` |
| `RequestLogProofs` | proofs of both | `MCRequest` |
| `BlockStream` | what the client of a streamed answer is promised | |
| `PartStream` | the two ends of every renderer: the SDK's parts, the client's blocks | refines `BlockStream` |
| `ResponsesRenderer`, `AnthropicRenderer`, `ChatRenderer` | the three renderers | extend `PartStream` |
| `CollectedAnswer` | stream-collector.ts and the answers made of it | extends `PartStream` |
| `RawResponses` | frames of a Responses upstream that are passed on | |
| `MCRenderers` | instances of all of these, from `BlockStream` on | |
| `RendererInvariants` | the inductive invariants of the renderers, and the words they are said in | `MCRenderers`, `DataProofs` |
| `RenderersProofs` | proofs: the passed-on frames, the three renderers implement `BlockStream`, what came arrives | `RendererInvariants` |
| `KeyFailover` | key selection and failover in providers/registry.ts | |
| `Routing` | the routing table and the list of models | |
| `RouteMatch` | the plugins of a route, tool-filter.ts | |
| `CodexCatalog` | codex-catalog.ts, server/codex.ts | |
| `OAuthCallback` | server/oauth/callback.ts | |
| `SettingsWriter`, `SyncPlan` | cli/models/settings-writer.ts, sync-run.ts, sync-plan.ts | |
| `MCKeyFailover` | instances of what leads a request to its upstream, and of model sync | |
| `KeyFailoverProofs` | proofs of all of these | `MCKeyFailover`, `DataProofs` |
| `VisionArtifacts` | vision-artifact-store.ts | |
| `ToolNames` | tools of a Responses client at other upstreams (protocol.ts, renderer.ts) | |
| `ResponsesInput` | a Responses client's input on its way to OpenAI (protocol.ts, passthrough-input.ts) | |
| `MCRequestInput` | instances of what is done to a request's input: its images, tools and items | `VisionArtifacts`, `ToolNames`, `ResponsesInput` |
| `RequestInputProofs` | proofs of all three | `MCRequestInput`, `DataProofs` |
| `DataProofs` | lemmas that need an induction: numbers, recursive functions, finite sets, sums | |

Five of the MC modules hold components side by side that do not share state: an
initial state has one of them `picked`, the others' variables stay as they are.
Such a run checks each component on its own, with one configuration.

## How the modules correspond to the code

`PROJECT.json` maps every definition to the lines it stands for. In short:

**TokenManager.** `store` is `this.store`, `disk` the token part of auth.json as
the manager believes to have written it; an operation is a refresh or an
exchange, identified by provider and generation as in the code
(`beginProviderOperation`). A caller's steps are those of `ensureValidToken`: it finds a
valid token, joins the refresh under way, waits for an exchange or begins a
refresh. `Settle` resolves the shared promise and `LeaveWait` resumes one waiter
later, since a cancellation may come in between; the last waiter to leave
aborts the refresh. A token is a number, the generation of the operation that
obtained it, and a login renews what a refresh may start from. The mutation
queue runs one save at a time, copying the store before and assigning it after
the write.

**AuthFile.** One action per file operation of `updateAuthFile`; `authFileLocks`
is the promise chain; failures leave through `abandoning` (removal of the
temporary file); `Kill` may come between any two steps. `AuthStore` has one
action that changes the file's content and one that answers, and `AuthFile`
implements it with the file's content as the store.

**Shutdown.** Requests are registered, working, released; the server's socket is
open, closing or closed; the controller's phases are those of the two waits,
the force, disposal and log close. `repeats` are further signals. Each of them
closes by force again; the success that counts is that of the grace period's own
call, which the code keeps in a local constant and `force.succeeded` here.

**PluginRegistry, ServerStart.** `call` holds, for each configured plugin, the
call of a hook that is under way or how it ended; `state` what the registry
knows of it; `order` are the loaded plugins in the order in which they are
disposed backwards. `step` is the start's progress; a call may fail or never end, and
`Promise.all` goes on at its first failure while the others still run. `Cleanup`
disposes under a deadline, as the shutdown does. The OAuth statuses run beside
the afterServerStart hooks.

**LogFiles.** `queue` are the lines before the writer, `file` the files by their
date, `activeStream` the one that is open; opening, writing, the end of the old
stream and the cleanup of old files fail one by one. A write to stdout may fail
as well (`stdoutFailed`), which `safeWriteAsync` takes for done; what an `error`
event of `process.stdout` does to the process is not the log's.

**RequestLog.** One request. `stage` says where it is; the client, the
deadline, the upstream's parts, raw terminal events of the Responses protocol,
plugins and renderers are actions; `Passes` is the renderer's way past a part.
Three execution modes: a stream to the client, a stream that is collected, one
call.

**UpstreamStream.** One stream. `timer` and `aborted` are the request's deadline
and signal; `next` and `wrap` the wrapper's pull and state; `at` where the
inspection or the replay is; the upstream may do anything, or nothing, at each
pull and in its cleanup.

**PartStream and the renderers.** `PartStream` has the upstream's side, any order
of parts that the SDK can bring (text, reasoning, the beginnings, pieces and
ends of two tool calls of each kind, the finish, an error or just the end),
a history of the calls in the order in which they became complete (`called`), and
the client's side, the blocks that the events make. Each renderer has its own
state under the names of the code and one action per kind of part, the whole of
the generator's body for it. What an event carries is its block, its index and
the number of the piece, so that a piece that is lost, doubled, late or in the
wrong block shows. `BlockStream` is the abstract client, and `IsBlockStream`
says that each renderer implements it. Output indexes, item ids and the pending
calls of the Messages renderer are modelled; the sequence numbers of passed-on
frames are in `RawResponses`.

**CollectedAnswer.** The collector's text, reasoning and calls and the result or
the error it ends with; the answer of each format is compared with what came.

**ToolNames.** Tools are declared by the request and discovered by earlier
searches; each is offered under its flat name, the sequence of its parts. A call
from upstream under that name is given back a namespace from the code's table, and
is taken for a custom one if one was declared under it or it is `apply_patch`.

**ResponsesInput.** An item is its type, role, text and id. `Map` is the decoder
followed by the SDK's conversion; the three other actions are the passes of
passthrough-input.ts in the code's order, each matching the SDK's items with the
raw ones.

**KeyFailover.** `nextIndex` is the provider's entry of `apiKeyIndexes`; a
request's model has its `current` delegate; a call reads its stream into
`buffered` until a part commits it and replays it then. The AI SDK's retries are
external: it repeats a call only after a failure marked retryable and within
its budget. Parts are numbered by call, so that mixing two answers is visible.

**Routing, RouteMatch.** The table is built entry by entry as `fromSettings`
does; the selectors of all names are resolved in it and looked up in the list. A
name is the sequence of its parts, those between slashes, so that the first slash
of a selector may be one of the provider's name, and a part may be empty: a
selector that begins with a slash, or whose only slash ends it, does not parse.
`RouteMatch` merges the plugins of the three levels (of two, for a model whose
key is empty), level by level and entry by entry into a chain that keeps the place of a name that is set again, as the
code's `Map` does, and filters the tools and the tool choice of a request.

**CodexCatalog.** `inflight` is the shared promise, `cached` the catalog,
`cachedModels` what was built of it; requests come at any time and wait.

**OAuthCallback.** `pendingStates` is a set of states with their expiry; states
are numbered in the order in which they were given out, which is the order of
the `Map`, so the one that is crowded out is the smallest. Callbacks bring a code or an error, for any state, any number of times.

**SettingsWriter.** Commands are processes that load, lock, snapshot, compare,
write a temporary file, compare again, check and rename; the lock names its
owner, and a dead owner's lock is probed, compared and removed. `Edit` is an
editor, which may save in place or by a rename; `Crash` may come at any step. A
file is an inode with a text (the set of changes in it) and a count of changes.

**SyncPlan.** The loop that keeps and the one that adds, over any settings, any
discovered models and any selection of the user.

**VisionArtifacts.** Files are identified by the batch and the image they were
written for. A batch is cleaned up for, verified, checked against the quota and
written one file at a time, as the code does; the agent and the clock act in
between. A file's times are one flag, `stale`, and what a reader would expect of
them another, `unused`.

## Conventions

- An action is what runs between two awaits, or one file operation, or the
  body of a generator for one part.
- A definition `X_Faulty` before `X` is a plausible bug in the code of `X`. With
  `X` replaced by it, the property that PROJECT.json names is violated; this is
  how each property is known to depend on the code.
- Bounds are constants (`MaxGeneration`, `MaxRepeats`, `MaxParts`, `MaxPieces`,
  `MaxRetries`, `MaxBatches`, `MaxLines`, `MaxFetches` and so on) or the size of
  a set of calls.
- `CHECK_DEADLOCK FALSE` is in every configuration: an idle proxy, an ended
  process, a stream that is over and a bound that is reached are all legitimate
  ends. Where something must not get stuck, a liveness property says so.
- Data is opaque: a part is its number, a text a set of letters where one may
  contain another and the number of its pieces elsewhere, a token a generation,
  a settings file the set of the changes in it.

## Runs

| Run | Instance | What it shows |
| --- | --- | --- |
| `token_safety` | 1 provider, 3 callers, 2 operations | one live refresh (`SingleLiveRefresh`); no waiter on an aborted refresh (`NoWaiterOnAborted`); callers get their own or a newer token (`YieldsOwnOrNewerToken`); tokens in use are on disk (`HandedOutIsDurable`); refreshes start from the last login (`RefreshStartsFromLogin`); newest wins (`NewestWins`); nothing is left after the drain (`DrainLeavesNoRefresh`) |
| `token_providers` | 2 providers, one with client credentials, 2 callers, 1 operation each | the queue of saves keeps the providers' tokens apart: no save loses another's (`StoreMatchesGeneration`) |
| `token_live` | 1 provider, 2 callers, 2 operations | a cancelled request returns although the endpoint is silent (`RequestReturns`); the drain ends once the endpoints answer (`DrainReturns`) |
| `token_one_refresh` | the same | finding, see below |
| `auth_file` | 2 providers, 1 plugin, 3 updates | the file is an atomic store under failures and kills (`IsAtomicStore`); each update is answered (`UpdateAnswered`) |
| `shutdown` | shutdown: 2 requests, 1 repeated signal. Start: 2 plugins, of three kinds, 2 providers, 2 entries. Log: 4 lines, 3 days | order, results, exit code and end of a shutdown with anything hanging (`StopsInOrder`, `EndsWell`, `NoLateDisposal`, `ShutdownEnds`); plugins are disposed at rest, last to first, after every failed start (`PluginsDisposedAtRest`); honest statuses (`StatusesHonest`); lines in order, with failures of stdout and of the files (`LinesArrive`) |
| `request_log` | 1 request, all modes; 1 stream of 2 parts | outcome, error log, response status and completion under every order of upstream, client and deadline (`LogIsReal`, `FirstFailureStays`, `RequestCompletes`); the deadline is armed while and only while the upstream needs it (`TimerGuardsUpstream`); release of the upstream, answer to the consumer, report of cleanup failures (`StreamSettles`) |
| `request_log_collected` | 1 request, all modes | finding, see below |
| `renderers` | a stream of 6 parts with 2 calls, 2 pieces of each; 3 frames | what came arrives, whole and once, in each format, streamed or collected (`ContentArrives`); blocks pair up (`IsBlockStream`); one terminal frame (`OneTerminal`) |
| `key_failover` | 3 requests, 2 keys, 3 calls each, 2 parts a stream. 3 providers (p, p/x, one without a name) and 4 names (one with a slash, one empty). 3 fetches. 3 logins of 2 providers. 2 commands, 1 editor. 3 models | one answer heard (`OneCallHeard`), no stream left open (`OneStreamOpen`), keys in turn (`KeysTakeTurns`); routes (`RoutesRight`); the catalog (`CatalogFetchedOnce`); logins (`LoginsHonoured`); the settings (`NoLostUpdate`, `PlanIsTheChoice`) |
| `settings_lock` | 2 commands, 1 editor | finding, see below |
| `request_input` | 2 batches of 2 images of sizes 1 and 2, quota 3; or 3 batches of 1 image. 2 declared and 2 discovered tools; 3 items | the quota (`StoreWithinQuota`); what was handed out stays, also when it is reused (`StoredIsThere`); no changed file is handed out (`ReportsIntact`); each batch is answered (`BatchAnswered`); called tools and the client's items are the right ones (`RequestTranslated`) |

Each property's comment, next to its definition, names the code it is about;
the type invariants are parts of the invariants listed, or proved.

Why the bounds are enough. Three callers on one provider are the least for a
refresh that one leaves, one keeps and one joins while it is aborted; two
operations a provider are the least for a login that overtakes a refresh and for
a refresh after a cancelled one. Two providers are the least for a save that
could lose another's token. Three updates of auth.json are one under way, one
waiting and one failed before them, with a kill anywhere. Two requests in a
shutdown are one that ends and one that must be forced. Two plugins are one that
fails while the other is still at work, and a first and a last to dispose; of
their kinds one has all hooks, one creates fetches, one has no dispose. Three
days are a rotation that fails after one that did not. Two parts of a stream
are the one the inspection sees and one that is replayed; in the failover one
that is buffered and one that commits, or passes after the commit. Two calls are
the least that overlap, six parts let each begin, get a piece and end with a text
in between. Three items are one that is put back and two that it could be
mistaken for. Three requests on two keys let the round robin wrap, three calls on
two keys the failover. Three logins with room for two states are one that is
crowded out. Two commands are two that find the lock of a dead one. Three models
are one that is kept, one that is added and one that goes. Three batches are the
least for write, reuse, cleanup. The results that are listed under Proofs hold
for all values of the constants.

## Fairness

Nothing outside of the process is assumed to answer: no token endpoint, upstream,
client or consumer is fair, except as a liveness property states it itself.

- `TokenManager`: a continuation that may run runs (`Continue`), the
  continuations of an operation after its endpoint has answered and its saves
  end (`Progress`), the drain's loop goes on. `DrainReturns` is conditional on
  no more calls, since the code disposes the plugins after the server is closed.
- `AuthFile`: file operations end, well or not.
- `Shutdown`: timers fire, the controller and the disposal go on. Requests,
  plugins, refreshes and the log may hang.
- `RequestLog`: synchronous stages go on, the deadline fires, the response of a
  client that stays is read to its end, and the cleanup ends (it is bounded, as
  `UpstreamStream` shows).
- `UpstreamStream`: continuations run, plugins' hooks answer, timers fire. The
  code bounds no hook of a stream; with one that hangs the request stays until a
  shutdown forces it.
- `VisionArtifacts`: file operations end.
- All other modules have safety properties only. The waits of `KeyFailover` and
  of the renderers are under the deadline of `UpstreamStream`; a start that
  hangs, a log that cannot be closed and a command that stops are ended by the
  one who started the process.

In `MCShutdown` and `MCRequest` the fairness of a component is that of its module,
under the condition that it is the one that was picked.

## Proofs

All are for any value of the constants, from the assumptions that the modules
name next to them. For most, the property alone is not inductive: the invariant
(`IInv`, or the parts named below) adds what the code relies on without saying
it. TLC has checked each of these invariants on the instance of the component's
run, but for that of the renderers, whose "there is a state to which the unread
events lead" TLC cannot evaluate.

**TokenManager** (`TokenManagerProofs`). The inductive
invariant is the conjunction of the types, what the tables of refreshes,
exchanges and waiters say of the operations (`LocksInv`), and what the store,
the disk and the queue say of their generations (`StoreInv`). `SingleLiveRefresh`
is not inductive by itself: that a second refresh cannot begin follows from the
table entry, and that the entry is there as long as the refresh is not aborted
from the continuation that removes it. For `RefreshStartsFromLogin` a further
part, `LoginInv`, is needed: an exchange that is not over nor cancelled is in the
table, a refresh of the same provider that is younger than an exchange began
after it was over, and a refresh that is under way is pending. Proved:
`TypeCorrect`, `SingleFlight`, `CancellationIsPrivate`, `NoLostToken`,
`NewestTokenWins`, `NoOlderToken`, `TokensInUseAreDurable`, `RefreshUsesLogin`,
`NoRefreshLeft`.

**AuthFile** (`AuthFileProofs`). `FileInv`: the chain holds exactly the updates
under way, each once; only its head has started; what the head is about to write
was computed from the file as it is now; an abandoned update fails. With it,
every step maps to a step of `AuthStore` or a stutter. Proved:
`FileTypeCorrect`, `AuthFileIsAtomic` (the refinement's safety part).

**MCKeyFailover** (`KeyFailoverProofs`).

- KeyFailover. `FailoverInv`: before the commit the consumer has nothing and the
  buffer everything that was read; after it, both together; parts are numbered on
  without gap; only the last call's stream is open, and only while it is read.
  `TurnsInv`: the i-th call of a request uses the key `first + i - 1` modulo the
  number of keys, and a key has started as many requests as rounds were begun, one
  more if this round has passed it. It rests on a few lemmas of modular
  arithmetic, from the uniqueness of quotient and rest. Proved:
  `FailoverTypeCorrect`, `NoMixedAnswers`, `NoStreamLeftOpen`, `TurnsAreKept`.
- SettingsWriter. `SettingsInv`: what was saved in time is in the file, and an
  inode that has ever been the file is written to by nobody; what a command knows
  (`CommandKnows`) goes from its read to its rename: the snapshot is an inode that
  was the file, and a comparison that holds means that the text is the one that
  the edit was made from, or that the inode has changed since. Proved:
  `NoUpdateIsLost`, `SavedIsThere`.
- CodexCatalog. `CatalogInv`: all fetches before the last have failed, the running
  one is the shared one, the catalog is kept if and only if one has brought it; and
  each request has the answer of the fetch it waited for or of what is kept.
  Proved: `CatalogIsFetchedOnce`, `FetchedOnce`.
- OAuthCallback. `OAuthInv`: what is pending are logins that were begun and not
  consumed, no more than there is room for; every exchange is of a login of its
  own, of the same provider, before it expired; and a login is still pending as
  long as fewer than `MaxPendingStates` younger ones have come and it has neither
  expired nor been consumed. Proved: `LoginsAreHonoured`, `EveryLoginIsHonoured`.
- SyncPlan. `PlanInv`: of the names that were done, each key has one of the models
  that may be there, and the counts are those of the kept keys and the added names.
  Proved: `PlansAreTheChoice`.
- Routing, RouteMatch. `RoutesInv`: up to the model that is registered, a bare name
  leads to the last that has it and a prefixed one to the only that has it, or
  there was a duplicate. `MatchInv`: up to the level that is merged, the chain
  has each plugin that serves once, from its last entry and at the place of its
  first; the tools are those that no rule removes. Proved: `RoutesAreRight`.

**MCShutdown** (`ShutdownProofs`).

- Shutdown. `IInv` follows the shutdown: `Draining` (no request comes once the
  server is closed; drained means that none is left), `Closing` (the close ends
  with the drain, a server that cannot be closed, or the decision to end the
  process; a failure is in the exit code), `Disposing` (what the disposal has
  waited for is over, unless its deadline came) and `Ending`. Proved:
  `StopIsInOrder`, `ReportsTruth`, `DeadlineIsFinal`.
- ServerStart with PluginRegistry. `StartInv`: only a loaded plugin has a hook
  under way, hooks run in their phase, the disposal goes down from the last and has
  been everywhere above. `StatusInv`: a status is told when the refreshes have
  ended, and is "cut off" only if the shutdown has aborted them. Proved: `PluginsAreDisposedAtRest`, `DisposalAtRest`,
  `StatusesAreHonest`, `StatusesTrue`.
- LogFiles. `LogInv`: stdout has every line up to the one that is written, but for
  those whose write to it failed, the queue the rest; no file of a later day has a line, so the files, one after the other,
  have the lines in order, and all of them until one fails. Proved: `AllLinesArrive`, `LinesAreThere`.

**MCRequest** (`RequestLogProofs`).

- RequestLog. The telemetry is written by half a dozen helpers (`WithOutcome`,
  `WithFailure` and so on) which the steps combine. A lemma for each says that it
  keeps the telemetry sound (`Sound`), takes no failure back (`Keeps`) and lets a
  mere abort not cover the client's departure (`Quiet`); a step is then a
  composition. The rest of `IInv` says, stage by stage, which success was told,
  whose departure, and which failures were real. Proved: `LogTellsTruth`
  (`LogIsReal`), `FirstFailureIsTold` (`FirstFailureStays`).
- UpstreamStream. `StreamInv`: until the upstream has ended or its cleanup has begun,
  the wrapper listens to the abort and the timer is armed; and what the wrapper has
  recorded of its cleanup fits together (`Consistent`). Proved: `TimerIsKept`,
  `DeadlineIsKept`.

**MCRenderers** (`RenderersProofs`, with the invariants in `RendererInvariants`).

- The three renderers implement `BlockStream`: `BlocksAreStreamed`. The client's
  state is not the renderer's: events are queued and read later. So the invariant
  of each renderer (`ResponsesInv`, `MessageInv`, `ChatInv`, together `RenderInv`)
  says that the events that are still unread lead, each of them allowed when its
  turn comes, from what the client has now to a state `t` (`Plays`), and that the
  renderer knows the blocks of `t`: `ItemsKnown` (the output index, the current
  text or reasoning, the calls' indices, the completed items), `MessageKnown` (the
  current block, with a block to come for every call that is queued), `ChatKnown`
  (an open block per call, at its index). A step appends a run of events from `t`;
  that runs can be joined (`PlaysMore`) leaves one lemma for each kind of part and
  renderer. A read takes the first event of the run, which is a step of
  `BlockStream`. The number of blocks is bounded by that of the parts, which has
  to be part of the invariant.
- What the stream brought arrives, whole, once and in order, in each format,
  streamed or collected: `AllContentArrives`. The invariant, `ContentInv`, has six
  parts. `PartInv`: a call has a place from when it is first heard of, which is no
  higher than the number of those that were. `ClientInv`: the client has found no fault. `CollectedInv`: the
  collector has counted what came, and its calls are those of `called`, in which
  every complete call is once (`CalledOnce`). `RenderInv`: the
  one above. `RenderedContents`: whatever state `t` the unread events lead to, the
  content that came is there or still with the renderer. For a response
  (`ResponseContents`) the pieces of all text blocks of `t` add up to those that
  came (`PiecesIn`, a sum over a set of blocks), likewise the reasoning, and
  each call is nowhere, in one open block with the pieces that are streamed, or in
  one closed block with its pieces, if there were any, or else its whole input
  (`ItemOf`); after the finish the output is
  that of the completed items. For a message (`MessageContents`) the calls that
  have begun wait in a queue in the order of their places, each with the pieces
  that came (`QueueKnown`); those that wait no more are in closed blocks, which are
  in the order of the places and before those that wait (`CallsPlaced`). For a
  chat answer (`ChatContents`) each call is one open chunked block whose index is
  its place (`Chunked`). A lemma for each event says what it makes of the blocks of
  its subject and that it leaves all others (`PieceMakes`, `DoneMakes` and so on);
  lemmas for lists of them (`Brings`, `Leaves`, `Emitted`) compose these, and with
  `RunSplit` each step is one list after another. That a state `t` exists, so
  that the contents do not hold of none, is `RenderInv`.
- RawResponses. `FramesInv`: while it reads, the renderer has passed on what came,
  the number of its own is above all of theirs, and the last frame is terminal if
  it has seen a terminal one. Proved: `StreamEndsOnce`.

**MCRequestInput** (`RequestInputProofs`).

- VisionArtifacts. That a path that was handed out
  leads to its image needs that a file whose times let the cleanup take it is one
  that nobody asked for (`StaleIsUnused`), and that the batch at work is the head
  of the queue. For the quota, `QInv` says what the running batch knows of the
  directory: the files that it has counted are at least those that are there, since
  only the agent, the clock and the cleanup take files away, and no batch writes
  beside it (`Measured`); each step then compares sums over sets of files. Proved:
  `StoredStays`, `ReportsAreIntact`, `QuotaIsKept`.
- ToolNames. `ToolsInv`: what is registered so far is what was offered so far, no two
  under one flat name (`ToolSetSound`). That a flat name leads back to its tool
  needs that only the search has the search's name, and that a name without a
  namespace is its own flat name, which `FlatNames` and `DiscoverableIs` show.
  `ToolsReturn` draws the conclusion when all are registered.
- ResponsesInput. The invariant says what the SDK's input is after each patch:
  `Mapped` (an item for every place that is sent, in order), `Searched` (the
  tool searches are put back), `Settled` (so is what an id or a text finds), and
  `Complete` (the anchors have gone back between their neighbours). Each patch is a
  fold that carries what it has taken of the client's items; `SearchDone` and the
  like say for every element of the fold what is taken and put so far, and that the
  item that is found is the right one because no earlier one is left that matches.
  `RequestInv` holds both for the behaviours of `MCRequestInput`. Proved:
  `RequestsAreTranslated`.

**Data** (`DataProofs`). The library's induction theorems have an operator as
parameter, which the provers cannot instantiate. An induction over a *set* needs
none: `Induction`, `BoundedInduction` and the induction over finite sets are
derived from `WFMin` and the finite sets' cardinality, and used with the set of
the numbers, or sets, that have the property. With them the values of recursive
functions, folds over a sequence (`IsFold`, `FoldExists`), sums over finite sets,
the flattening of a sequence of sequences and the ascending order of a set of
numbers (`Ascends`, `AscentExists`) are proved for every input. What stays out of
reach is `SelectSeq`, whose definition in the standard module is recursive in a
form that tlapm does not expand; the modules of the tools and of the input say
what is selected, and in which order, without it.

The assumptions, besides those that name model values as different: a key and a
call at least, `MaxPendingStates` and the days of the log positive, the other
bounds natural numbers; finite sets where something is counted (the calls of `MCRenderers`, for the
places in which they come); calls are not
named "text" or "reasoning"; a sync's "no model" is no model; names of tools and
namespaces are sequences of parts, and none but the search has the search's name;
an input's id refers to one item.

Only model-checked is liveness under fairness (`RequestReturns`, `DrainReturns`,
`UpdateAnswered`, `ShutdownEnds`, `RequestCompletes`, `StreamSettles`,
`BatchAnswered`), which the prover does not reach, as it does not reach ENABLED
and recursive operators (there are none in the modules with proofs). Every
safety invariant and action property of the runs is stated by a theorem.

## Where the code and its documents differ

Three runs expect a violation; each is a statement of the repository that the code
does not keep. The quotations are in PROJECT.json.

- `token_one_refresh`, `OneRefreshAtATime`: refreshes are said to be
  single-flight; a refresh that everybody has left goes on after its abort while
  a new one begins, so two requests to the endpoint can be under way.
  `SingleLiveRefresh` is what does hold: at most one that is not aborted.
- `request_log_collected`, `CancelIsQuiet`: a client's cancellation is said to
  stay out of the error log; with a collected stream it can be classified as an
  upstream failure. What does hold, for the other modes, is part of `LogIsReal`.
- `settings_lock`, `LockSerializesWriters`: "The lock serializes this tool's
  writers" (`src/cli/models/settings-writer.ts:387`); two commands that find the
  lock of a dead one can both remove it, the second removing the first's. The
  comparison before the rename still finds the change (`NoLostUpdate`).

Not modelled but seen: README.md:59 says that `requestTimeoutMs` is 30000 by
default, `src/config.ts:288` makes it 300000; the comment at
`passthrough-input.ts:332` says that only compaction and tool_search_output keep
their identity for item references, the mapper keeps a reasoning's id as well.

## What the models show besides

Consequences of the code that nobody promises otherwise, found while modelling
and allowed for in the properties:

- A refresh whose waiters always overlap is never cancelled and has no deadline
  of its own; exchanges under way are not awaited by `waitForPendingRefreshes`.
- `SettingsWriter`: edits between loading the settings (`sync-run.ts:50`) and
  reading their text (`:68`) are lost, though the error text speaks of changes
  "since it was loaded" (`settings-writer.ts:53`); so are edits between the last
  check and the rename. These are `late` in `NoLostUpdate`.
- `SyncPlan`: a new model whose id is the key of another, kept model replaces it,
  or is replaced by it, and the counts are off.
- `LogFiles`: a line that is queued before midnight may land in the next day's
  file; an error of an old stream that is still closing disables the current one.
- `ServerStart`: the fetches of all providers are created in parallel
  (`providers/registry.ts:121`); when one fails, another may still run while the
  plugins are disposed. A step of the start that hangs hangs the start, since
  the signal handlers come later.
- `CodexCatalog`: a template that is missing from the catalog fails every
  request until a restart, because the catalog is kept.
- `Routing`: a model with an empty key, of a provider with an empty name, or of
  one whose name begins with a slash, is listed, but its selector does not parse
  and leads nowhere; a later model takes a bare name over from an earlier one.
- `RouteMatch`: the plugins of a model whose key is empty are never used.
- `LogFiles`: a line that stdout did not take is lost there without a word.
- Renderers: the SDK ends a reasoning before it brings text, which the Responses
  renderer relies on (`renderer.ts:239`); a stream that ends without a finish
  ends a Responses stream without a terminal event; an exception after the
  finish sends `response.failed` after `response.completed`; calls that the
  upstream never finishes stay open.
- `ToolNames`: a plain tool whose name equals the flat name of a discovered
  namespaced one is shadowed: its calls come back as those of the other. A plain
  function that is named `apply_patch` comes back as a custom tool's call
  (`src/providers/openai-responses/renderer.ts:51`). A tool of
  the client's own that has the search's name, which the search would replace in
  the tool set (`protocol.ts:772`), is taken not to occur.
- `ResponsesInput`: a message that is put back may follow a reasoning that it
  came before, since reasoning is matched by order only. The model takes ids of
  items of different kinds to differ.

## What is not modelled

PROJECT.json lists every part with its reason. In short:

- Content is data in all of the models: bodies, prompts, token values, usage,
  annotations, wording of messages and logs, the fields of a catalog entry.
- The chat and Anthropic decoders, the validation schemas, the configuration,
  the vision input transforms and the tables of providers are stateless
  translations, field by field, with no control that a property could tell apart.
- The plugin loader, the Codex profile installation, the command line, scripts
  and deployment run once, with nothing beside them, and keep no state.
- The AI SDK, the file system, the token endpoints and plugins are modelled as
  far as the code relies on them.
- Time is the order of events: a timer that is armed may fire at any moment.
- A second process on auth.json is ordered by nothing: `authFileLocks` is a map of
  one process, and no document promises more.
- Branches of passthrough-input.ts for items that today's SDK does not make.

## Plan

Done, in this order: TokenManager, AuthFile, Shutdown, RequestLog,
UpstreamStream, VisionArtifacts, KeyFailover; then the renderers with the
collector and the passed-on frames, the plugins with the start, the log, the
settings, the logins, the catalog, the routes, the names of tools and the
Responses input; and the proofs above.

Left, by what it carries:

1. The plugins' stream and request hooks in their order, composed with
   `UpstreamStream`.
2. `OAuthCallback` composed with `TokenManager`'s exchange, and `RequestLog` with
   `UpstreamStream` in one behaviour, which today share no state.
3. What passthrough.ts copies of the top-level fields, and `/health`.
